# Verification of den-memory

den-memory is a Go service (`src/cmd/den-memories`, `src/internal`) that keeps
the long-term memory of a group of software agents in one SQLite file.  Agents
*capture* candidates; curators claim, relabel, split, merge and reject them and
*promote* them into memory entries, by hand or by *applying a proposal* that a
curator program made; agents *recall* entries and topic nodes as packets, and
every capture, curation step and recall is logged.

This directory holds TLA+ modules translated from that code, TLC configurations
that model-check them and TLAPS proofs about them.  `PROJECT.json` maps every
definition to the lines it models and lists components, runs, mutants, hazards,
findings and theorems.

## 1. Inventory

| Component | Source | State | Operations | Talks to |
|---|---|---|---|---|
| Candidates, capture | `httpapi/candidates.go`, `write_ops.go` | `memory_candidates` and its full-text table, `capture_events` | create, capture (captured, ignored, filtered, errored, auto-promoted), PATCH of the status, list, search | entries (auto-promotion), `curation_events` |
| Curation | `curation.go`, `candidate_ops.go` | the same, `curation_events`, `source_refs` | claim, reject, promote, split, merge, relabel, rescope | entries |
| Proposals | `curation_proposals.go` | `curation_proposals` | create, apply (promote or reject), reject, defer, queue | candidates, entries |
| Entries | `entries.go`, `curation_aliases.go` | `memory_entries` and its full-text table | create, update, archive, supersede, search | `curation_events` |
| Recall | `recall.go`, `recall_helpers.go` | `recall_logs` | recall, read back a packet | reads entries, nodes, edges, views, source refs |
| Scoring | `recall/scoring.go` | none | score, authority label | used by recall |
| Topic graph, views | `graph.go`, `views.go` | `topic_nodes` and full text, `topic_edges`, `topic_views` | create, update, link, unlink, neighbours | recall traverses it |
| Source references | `source_refs.go` | `source_refs` | attach, list | promotion attaches rows too |
| Curator | `curator/curator.go`, `llm.go`, `cmd/den-memory-curator` | none of its own | one pass: read the queue, propose, post | HTTP to the service, a language model |
| Store, migrations | `store/` | the SQLite file, `schema_migrations` | open (a pool of one connection), transactions, migrate | all handlers |
| Observability, audit | `observability.go`, `audit.go`, `events.go`, `audit/report.go` | none | reads, doctor report, export | all tables |
| Plumbing | `api.go`, `respond.go`, `value.go`, `sqljson.go`, `system.go` | none | routing, JSON, runtime context | |
| Contracts, adapter, deployment | `contracts/`, `integrations/hermes`, `scripts/` | none | | HTTP |

**What is hard.**  Handlers run concurrently, one goroutine a request, over a
pool of a single connection (`store.go:35`): a handler with a transaction is
atomic, one without (recall, creating or deciding a proposal, updating a view,
the queue, the export) interleaves with others between its statements.  A
caller may go away or the process stop between two statements.  The rows of one
request refer to each other by row id and by JSON copies; the full-text tables
and the audit log are kept in step by hand, handler by handler.  No status
transition of a candidate is enforced by the schema: only the promotion path
checks the present status.

**What makes it correct.**

* Candidates, entries and proposals: the log explains the tables (`AuditReplay`,
  `CandidateOrigin`), a candidate is not promoted twice unless reopened
  (`PromotedOnce`), merges and promotions lose no provenance
  (`ProvenanceSurvives`), policy strength needs a curator (`PolicyNeedsCurator`), proposals are decided once and
  linked to what they did (`DecisionsAreFinal`, `ProposalLinks`), searching finds
  present titles (`FtsInSync`), a store is promoted as promised
  (`StoreAutoPromotes`, which does not hold).
* Recall: the packet answered is the packet logged, for good (`ReadBack`,
  `PacketsAreFinal`), a number is taken beforehand only by a caller who chose it
  (`OnlyChoiceBlocks`), recalls end (`Answered`), only active entries are returned
  (`RecallReturnsActive`, which does not hold).
* Curator: open proposals of a candidate do not pile up (`OpenBound`), passes end
  and no queue item starves (`PassesEnd`, `EventuallyProposed`).
* Graph: the log's edge ids name the edge they were written for
  (`EdgeIdsCurrent`), the log tells the graph's history (`GraphReplay`), nodes are
  found by their present titles (`NodeFtsInSync`); traversal visits what is
  reachable within its depth, once (`FoundByEdge`, `NothingMissed`,
  `WalkRegular`).
* Packets: a packet accounts for every row that was read (`Accounted`), fits the
  token budget (`FirstFit`), and distance counts more than a relation
  (`NearerFirst`).
* Store: a request is all or nothing, whatever fails (`OneStepRequests`), what was
  answered is stored, once for each request (`AnsweredIsStored`), no handler waits for itself (`RequestsEnd`), an update of a
  view is lost only to one that overlaps it (`UpdatesKept`), an export is closed
  under its references (`ExportExplained`).
* Migrations: versions are applied whole (`SchemaIsPrefix`), rows stay searchable
  (`TouchedIndexed`), a start succeeds in the end (`EventuallyServing`).

## 2. Modules

### `Curation`: candidates, capture, proposals, entries

The tables are sequences: a row's `INTEGER PRIMARY KEY` is its position, because
no handler deletes from them.  One action is one request, as its handler runs in
one transaction (proposals are created and decided in a single statement); a
request the code refuses rolls back and is a stuttering step.  `candidates`,
`entries`, `captures`, `events` and `proposals` are the tables of these names,
`candidateFts` and `entryFts` the title indexed for each row, `sourceRefs` the
references attached to entries.

| Actions | Handlers |
|---|---|
| `CreateCandidate`, `CaptureDeclined`, `CaptureCandidate`, `CapturePromoted`, `CapturePromotionErrored` | `createCandidate`, the outcomes of `capture` |
| `ClaimCandidate`, `RejectCandidate`, `UpdateCandidateStatus`, `RelabelCandidate`, `RescopeCandidate` | `simpleCandidateAction`, `updateCandidateStatus`, `patchCandidateCuration`, `rescopeCandidate` |
| `PromoteCandidate`, `SplitCandidate`, `MergeCandidates` | the handlers of these names |
| `CreateCurationProposal`, `ApplyPromoteCandidate`, `ApplyRejectCandidate`, `MarkCurationProposal` | `insertCurationProposal`, `applyCurationProposal` with its two kinds, `markCurationProposal` |
| `CreateEntry`, `UpdateEntry`, `CurationSupersedeEntry` | `createEntry`, `updateEntry` and `statusEntry`, `curationSupersedeEntry` |

Of a candidate's columns the model keeps status, proposed slug, title (which
stands for the indexed text), claim strength and source references; scopes,
audience and wording are left out.  Two facts of the code are easily missed and
kept: an auto-promoted capture has no id in its payload, so its fallback slug is
the constant `candidate-<nil>` (`FallbackSlug(0)`); and when its entry is refused
the transaction is committed all the same (`CapturePromotionErrored`).

### `RecallLog`: recall and its log

Each statement of `POST /api/recall` is an action of the request: `Receive`,
`Search` (the reads, up to the choice of the packet id; `matched` is what query,
scope and budget leave), `Number`
(`SELECT COUNT(*)`, whose error is dropped), `Insert` or `InsertRefused`
(`packet_id` is UNIQUE), `Update` (writing `packet_json`).  `Disconnect` and
`Crash` lose requests between any two of them, and `ChangeEntry` lets an entry's
status change meanwhile.  `asked` is the packet id of the payload, which
`request_json` of the log row records.  A caller may choose any id
(`recall.go:118` checks nothing), also `recall-<n>` of a number not counted yet: then
`Number` counts an id that is taken, and every recall that counts is refused until
another row is logged.  `OnlyChoiceBlocks` says that nothing else has this effect;
`Answered` holds all the same, as a refused recall is answered 400.

### `CuratorQueue`: curator passes and the queue

A pass (`Run` in `curator.go`) is a sequence of requests to the service.
`Start` or `StartSpared`, `ListCandidates` and `MatchProposals` (the two statements of
`curationQueue`, between which others may act), `Ask` or `AskDry` (the proposer),
`Post` (one proposal of the answer), `Finish`.  `CandidateIds` is the
`--candidate-ids` filter of each pass, which `MatchProposals` applies at once
(`Selected`): what it drops is never looked at.  The pass ends at its first error:
`AskRefused` (an answer that does not validate), `Fail` (any request, or a stop of
the program), `Abandon` (it gave up a POST), after which the service may still
serve the POST (`PostLate`) or notice first (`DropLate`).  The people who decide
are `Apply` and `Mark`, all other curation of the candidate is `SetStatus`.
`open` counts the undecided proposals of each candidate by the pass that made
them, which no column records; the other proposals of a queue item do not matter
to the code.  The module keeps of `Curation` what the queue reads and re-states
it, because a joint model of both would be out of TLC's reach: `Apply` and `Mark`
are `ApplyPromoteCandidate`, `ApplyRejectCandidate` and `MarkCurationProposal`
with everything but status and decision left out.

`StartSpared` chooses beforehand a pass that will meet no failure; the
choice, kept in `spared`, restricts only `Fail` and `Abandon` of that pass and
serves the fairness below.

### `TopicGraph`: nodes, edges and their log

One action per handler, each one transaction: `CreateNode`, `UpdateNode`,
`CreateEdge`, `DeleteEdge` (the `link` and `unlink` curation routes call the
latter two).  Row ids of edges are given again (`NewEdgeId`: the columns have no
`AUTOINCREMENT`), and deleting an edge erases its id from the events
(`ForgetEdge`: `ON DELETE SET NULL`).  An update of a node indexes and logs the
payload merged over the row but does not write its slug, so that a node can be
found by a slug it does not have; `updateEntry` (`entries.go:97`) avoids just that.
No document promises the contrary, so this is no finding: `NodeFtsInSync` says
exactly what is left.

### `GraphWalk`: the traversal of a recall

`Begin` takes the roots that `RecallLog!Search` stands for, `Expand` is one turn
of the loop with the one `SELECT` it makes, `Return` its end; `Link` and `Unlink`
change the graph between turns.  `ever` and `stable` are history: the edges that
existed at some time, and all the time, since the walk began.  Without changes
both are the graph, and `WalkRegular` says that the walk is breadth-first search.

### `Handlers`: the same requests, statement by statement

A create, a claim and a promotion of a candidate as the statements of their
handlers (`CreateProgram`, `ClaimProgram`, `PromoteProgram`), and three handlers
without a transaction: `createView`, `updateView` (read the row, write it back
merged) and the audit export (one `SELECT` per table).  `db` is the committed
database, `work` what the open transaction sees, `conn` who holds the one
connection of the pool.  A statement on the database handle needs a free
connection, one on the transaction needs to hold it (`MayRun`).  A request ends by
`Answer`, by the code's early returns (`Refuse`) or by `Fail` (a statement fails,
the caller goes away, the answer is lost), each with the deferred `Rollback`;
`Crash` ends them all.  Callers send a request again until it is answered; a caller
stands for the requests one client makes of one handler, and `requests` counts those
of all of them.

`OneStepRequests` is `C!Spec`, where `C` is `Curation` with the tables of `db`: each
step of `Handlers` is a step of `Curation` or changes no table.  This is what
justifies the one-step actions of `Curation`; `TopicGraph` has handlers of the same
form.  A handler that gave the handle to one of its statements
inside the transaction would wait for itself, and `RequestsEnd` would fail.

### `Migrations`: start-up

`Open` reads `schema_migrations`, `Skip`, `Execute`, `Record` and `Commit` are the
loop of `ApplyMigrations`, `Listen` what `main` does once `app.New` returned.  Errors
end the process (`ExecuteRefused`, `RecordRefused`, `BusyTimeout`, `ListenRefused`),
`Stop` is a kill or a failing statement anywhere.  The database is abstracted to
the versions recorded, the versions whose statements it shows, the rows and the
indexed rows; of the migrations, 002 empties the index and the `ALTER TABLE` of 003
cannot be repeated, while everything else says `IF NOT EXISTS`.  A file of an
earlier build may have rows that 001 indexed and 002 forgets: they stay unindexed
until they are updated.  No document promises otherwise, so `TouchedIndexed` is
about the rows written by this build.

### `Packet`: scores, order, limit and budget

The part of `recall` between its reads and its log row.  `Read` takes the rows
(entries, roots, nodes found by the walk) as an input with the shape the reads give
them; `SkipRetired`, `SkipOutOfScope` and `Include` are a turn of the two loops,
`Order` the stable sort, `Cut` the limit (`Panic` for a negative one), `Keep` and
`Truncate` a turn of the budget loop.  `Label` and `Score` are `authorityLabel` and
`ScoreItem` with the weights of `scoring-defaults.json`, as integers in thousandths;
what floating point adds below the rounding is left out.  `topic_nodes` has no status
and no confidence column, `recall.go:92` counts a node as active and source_backed and
reads no sources of it (`NodesAssumption`); so the scores of nodes are always positive.
Only then does the decay lower a score, and `NearerFirst` depends on it.  `Power`, the
powers of the decay's numerator and denominator, is a recursive function instead of `^`,
so that proofs can reason about it.

### Configurations

The `MC...` modules only name the sets the `.cfg` files give to the constants;
`MCCuratorQueue` also names the part of the states that is explored (`Bounded`).

| Run | Question | States |
|---|---|---|
| `CurationLog` | Does the log explain every status and every candidate's origin after captures, edits, splits and merges, and does policy strength need a curator? | 509,000 |
| `CurationProposals` | Are proposals decided once and linked to the right event, and is a candidate promoted twice only when reopened, directly or by proposal? | 800,000 |
| `CurationProvenance` | Do merges of merges keep all references up to the entry, and do the full-text tables follow the titles? | 655,000 |
| `CurationStore` | Is every eligible store promoted?  (violated) | |
| `RecallLog` | Are packets logged faithfully, is a number taken beforehand by no one but a caller who chose it, and do recalls end, under interleaving, disconnects and crashes? | 279,000 |
| `RecallActive` | Does recall return active entries only?  (violated) | |
| `CuratorQueue` | Do undecided proposals stay bounded, is each candidate that can be served served in the end, and does every pass end, under failing, repeated and competing passes? | 98,000 |
| `TopicGraph` | Do log and index stay true to the graph although row ids are given again? | 779,000 |
| `GraphWalk` | Does the walk find what is reachable, at its distance, while the graph changes? | 1,267,000 |
| `Handlers` | Do interleaved statements on one connection implement one-step requests, keep what was answered, and end, under failures, crashes and retries? | 101,000 |
| `Migrations` | Can the service start in the end on every file, with nothing half applied or lost from the index, although starts race and stop? | 50,000 |
| `Packet` | Does a packet account for what was read, fit its budget and hold near nodes before far ones? | 128,000 |

**Bounds.**  `Max...` bound the tables, and the actions that would exceed them
are disabled; so the `Curation` and `TopicGraph` runs do stop, and do not check
deadlock; neither do `GraphWalk` and `Packet`, whose one walk or packet is over
when it is done, and `Handlers`, whose requests are used up.  Three
candidates are a split in two or a merge of two; four (`CurationProvenance`) a
merge of a merge.  Three events (`CurationProposals`) are promote, claim,
promote, and two entries let the second promotion succeed; two proposals of one
candidate, of either kind, race there.  Two titles make a stale index visible, two
references a lost one.  Three recalls let a request be overtaken by a finished one
and by one that crashed, and one that chose `recall-2` be logged before two that
count.  Of `CuratorQueue` only the states in `Bounded`
are explored: the reliable curator alone with three candidates, two competing curators
with two, two with one candidate and answers of two proposals that can be posted in
part or late, and the dry run, which is given the ids of the first and the third.  The third candidate is both beyond the limit and
one no answer about which validates, while the second waits behind a first that
comes back after every rejection.  A behaviour that leaves these states for good
is not judged by the liveness properties; the theorems about the module need no
such bound.  Four requests, two at a time (`Handlers`), are a create, a claim and a promotion
beside an export, two overlapping updates of a view, and repetitions of a request that
was not answered.  Two processes and two stops (`Migrations`) race through all four
versions and leave each half done.  Three rows (`Packet`) are a near and a far
node with a third between them or cut off, and budgets of two or three tokens hold
one row, skip a larger one and hold the next.  Five events (`TopicGraph`) are link, unlink, link
under the same id, and two updates.  Four nodes and three edges are enough for a
node that is reached at two distances from two roots, which tells a queue from a
stack, and for cycles; two changes let an edge go before and another come after a
node is read.  Symmetry sets (`Slugs`, `Refs`, `Titles`, nodes) are
used where no property or action tells their members apart, and in no run that
checks liveness.

**Fairness.**  `Answered` needs weak fairness of `Serve(r)`, the statements of one
request.  net/http runs each handler in a goroutine of its own, and a statement
waits for the single connection no longer than other statements and transactions
take.  Callers and crashes have none.  `EventuallyProposed` and `PassesEnd` need a
curator in `Reliable`: somebody runs it again and again and it goes on (weak fairness of
starting and of `Work`), and of passes tried again and again one meets no failure now
and then (strong fairness of `StartSpared`).  Curators out of `Reliable`, and the people
who decide, have none.  `RequestsEnd` needs only that some request in flight is
served: a goroutine that holds the connection, or one to which the pool gives it, goes
on.  `EventuallyServing` needs that a started process goes on and that systemd starts the
service again (`Restart=on-failure`, `scripts/deploy-den-srv.sh:246`); nobody
need start the second process.

### Findings

* `CurationStore`: `contracts/v0/tools.json:62` and `candidates.go:316` promise
  that the store of an eligible caller becomes an active entry at once.  The
  second such store that gives no slug collides on `candidate-<nil>`, is answered
  `errored`, and leaves a pending candidate and a `captured` event behind.
* `RecallActive`: `contracts/v0/tools.json:17` says recall returns active
  entries; `recall.go:11` excludes three statuses, so drafts (the default of
  `createEntry`) and disputed entries are returned.

## 3. Proofs

The theorems of the `...Proofs` modules hold for every value of the constants that
satisfies the named assumptions of the modules they extend.

* `CurationProofs!TypeCorrect`: `Spec => []TypeOK`.  `TypeOK` is inductive as it
  stands because it says that each index has the length of its table; without
  that a re-indexed row could fall outside its index.  The shared statements
  (write and re-index, insert an entry, log) have a lemma each and each group of
  requests one.
* `CurationProofs!DecisionsFinal`: both statements that write a stored proposal
  require it to be undecided and leave the others alone.
* The other theorems of `CurationProofs` use what a request does, whichever it is,
  in one statement (`Effects(event)`, lemma `BoxEffects`): rows are only added or have
  their status, strength and title changed, references are only added, and at most one
  event is logged, which holds exactly the statuses written.
  `IndexesInSync` (`FtsInSync`) and `PolicyByCurator` (`PolicyNeedsCurator`) follow at
  once.  `LogTrue` is the inductive invariant `LogInv`: the log names stored rows only
  (`LogNamesRows`), a promotion's references are its entry's (`PromotionsLogged`), and a
  merge's result has those of its sources (`MergesLogged`).  From it
  `ProvenanceKept` (`ProvenanceSurvives`; of merges and promotions only, as a fragment of a
  split may replace the references), `AuditComplete` (`AuditReplay`) and `OneOrigin`
  (`CandidateOrigin`, which counts captures and births of each candidate).
  `NoSecondPromotion` (`PromotedOnce`) follows from `AuditReplay`: a second promotion
  finds the candidate open, so the last event about it is one after the first
  promotion that says so.  `ProposalsLinked` (`ProposalLinks`) rests on events being
  appended only, so that the one a proposal is linked to is new and stays as it was.
* `RecallLogProofs`: `TypeCorrect`, `RepliesAreLogged` (`ReadBack`),
  `ChoicesAloneBlock` (`OnlyChoiceBlocks`) and `PacketsFinal` (`PacketsAreFinal`)
  from one inductive invariant `Inv`, for any ids callers choose, numbers of the
  service's included.  `OnlyChoiceBlocks` alone is not inductive: `Inv` adds that a row
  whose caller chose no id is not numbered above its position, that a request about
  to insert is not numbered above the next position, that a chosen id is the one
  logged, and that the request of a row is past `Receive`, so that what it asked for
  stays (`NumbersBehind`).  `ReadBack` needs that the row of a request between
  its two statements is its own and still without packet (`RowKept`).
* `CuratorQueueProofs`: `TypeCorrect` and `OpenProposalsBounded` (`OpenBound`).
  `OpenBound` is not inductive: a pass could post one more for an item it holds.
  `Inv` adds that an item still to be asked about has had no proposal of this pass
  since the queue was read but late ones (`TodoFresh`), and that what is posted and
  what is left of the answer being posted are together within the bound
  (`PostingBounded`).  The bound is per pass: two passes that read the queue before
  either posts both propose, and the theorem holds for any number of them.
* `TopicGraphProofs`: `TypeCorrect`, `EventsNameTheirEdge` (`EdgeIdsCurrent`) and
  `NodesAreFound` (`NodeFtsInSync`).  The second rests on `ON DELETE SET NULL`: an
  event loses its id in the step that deletes its edge, before the id is given
  again.  The third needs that no step changes action, node or after of an event
  (`EventsKept`).  `GraphFromLog` (`GraphReplay`) is shown for edges and titles apart:
  erasing an id leaves before and after of the event, an event appended later can only
  end an edge's life or start from a title where the last one left it.
* `GraphWalkProofs`: `TypeCorrect`, `WalkSound` (`FoundByEdge`) and `WalkComplete`
  (`NothingMissed`), for any finite set of nodes and any changes.  `NothingMissed`
  needs the invariant of breadth-first search: the frontier is ordered by depth
  and nothing visited is more than a level below its head (`Ordered`), and a
  visited node either waits or its stable edges lead to nodes at most a level
  deeper (`Expanded`).  `WalkExact` (`WalkRegular`) says the same by paths: what
  paths of at most `limit` stable edges reach is visited, no deeper than they are long, and
  what is visited is reached by a path, as long as its depth, of edges that were there.
  It needs inductions on that length (`ReachGrows`, `FoundReached`, `StayedFound`), and
  that the recursive definition of what n edges reach has a solution (`ReachLevels`).
  The library's induction theorem takes an operator, so `Induction` is said of sets
  here and proved from `NatLessThanWellFounded` and `WFMin`: a set of numbers that is
  not empty has a least member.

* `MigrationsProofs`: `TypeCorrect`, `SchemaPrefix` (`SchemaIsPrefix`) and
  `WrittenRowsIndexed` (`TouchedIndexed`), for any number of processes, versions and
  rows.  The invariant says that what a process believes to be applied was recorded
  when it started, and so still is, and what the open transaction adds to the file at
  each stage.  Rows written stay indexed because whoever runs 002 once more finds its
  record made and rolls back.

* `PacketProofs`, for any rows, requests, limits and budgets: `TypeCorrect`,
  `PacketAccounts` (`Accounted`), `PacketFits` (`FirstFit`) and `NearerIsFirst`
  (`NearerFirst`).  `AccountInv` follows the rows through the stages: until the limit cuts
  them they are split into included, skipped and not looked at (`Split`), then the
  included into kept, truncated and not looked at (`Fit`), and no row is counted twice.
  `FirstFit` follows from an invariant that `left` is what the recursion `room` gives at
  the present position.  For `NearerFirst`, a level of depth takes at least seven
  twentieths of a score (`DeeperIsLess`, by induction on the depth), no difference of
  relations is as large (`Weights`), rounding does not turn a comparison round
  (`RoundedGrows`), and where rounding makes two scores equal the stable sort leaves the
  nearer first, because the walk found it first (`NearerBefore`).  `NearInv` carries that
  through the sort, the cut and the budget loop.
* `HandlersProofs`, for any callers, any interleaving of their statements, failures and
  crashes.  `TxInv` says that an open transaction has written exactly what the
  statements before its present one write to the committed tables, that nobody else
  changed those meanwhile, and that without a transaction `work` is empty;
  `TypeCorrect` follows.  A commit is then one request of `Curation`, and every other step
  changes no table: `Refinement` (`OneStepRequests`).  The bounds of the two modules
  meet because each stored row is of a request that was counted (`CountInv`).
  `StoredForGood` (`AnsweredIsStored`): a request past its commit has its rows
  (`AnswerInv`), and a creator has stored fewer candidates than it made requests while one may
  still commit (`TryInv`).  `UpdatesAreKept` (`UpdatesKept`): the row an update has read
  kept what was written before it was read (`ViewInv`).  `ExportsAreExplained`
  (`ExportExplained`): the committed log explains the committed rows at any time
  (`LogFacts`), and what an export has read is explained by what it read since and the
  tables it is still to read (`Explained`), as the tables only grow.

Every safety invariant and action property of the passing runs is stated by a theorem.
Only model-checked: liveness under fairness (`Answered`, `EventuallyProposed`,
`PassesEnd`, `RequestsEnd`, `EventuallyServing`), which is outside the proof system.

## 4. Not modelled

Floating point below the thousandth, prompts and model answers (inputs of the
curator), JSON decoding, HTTP status codes, the read-only reports, contract
loading, the Hermes adapter and the deployment script.  `attachSourceRef` adds
rows to `source_refs` and touches nothing else; no property depends on their
absence.

What a reader may miss because the code does so and no document says otherwise:
candidates behind the first `--limit` rows of the queue wait while those are
claimed or undecided; a candidate whose answers never validate keeps later ones
waiting; a rejected or deferred candidate is proposed again by the next pass;
a caller that chose the packet id `recall-<n>` of the next number keeps every recall that
counts from being logged until another row is; a fragment of a split that gives
references does not inherit its source's; source references of a deleted edge would attach to the edge that is given its id;
of two overlapping updates of a view one is lost; rows older than 002 are found by no
search until they are updated; a `linked_projects` row is discovered by every
project; rows cut by the limit are not among the skipped, and root matches and edges
name rows that limit or budget left out; warnings are about entries only.

## 5. Plan

Modelled so far: all of the above.  Left, in order of what it protects:

1. The *event-sourced store*, an abstract specification: a log and the statuses it
   implies, which `Curation` implements under the mapping that `AuditReplay`
   describes.
2. Split, merge and proposal application statement by statement in `Handlers`.
3. Runtime context and the scopes of entries and candidates.

Proofs left: those the modules above will need, foremost that `Curation` implements the
event-sourced store, for which `AuditComplete` is the mapping's invariant; and that a
split, a merge and an applied proposal, statement by statement, are one step of `Curation`.
