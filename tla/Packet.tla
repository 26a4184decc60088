------------------------------- MODULE Packet -------------------------------
(***************************************************************************)
(* What a recall does with the rows its searches and its walk gave: the    *)
(* score and authority label of each, what is skipped and why, the order,  *)
(* and the packet cut to the limit and fitted into the token budget.       *)
(* RecallLog has the log row written for it, GraphWalk the walk.           *)
(***************************************************************************)
EXTENDS Integers, Sequences, FiniteSets, SequencesExt

CONSTANTS
  Rows,          \* rows of memory_entries and topic_nodes
  Scopes,        \* pairs of a scope kind and id
  Projects,      \* the scopes of kind project
  Global,        \* kind global, no id
  Requests,      \* requests, with the token_budget_hint of the view they name
  DefaultBudget, \* 3000
  Overhead,      \* tokens kept free for headings: 24
  MaxRows        \* bound on the rows a recall reads

ASSUME ScopesAssumption == Projects \subseteq Scopes /\ Global \in Scopes \ Projects
ASSUME BudgetAssumption == DefaultBudget \in Nat \ {0} /\ Overhead \in Nat

\* scoring-defaults.json
RootMatch == [authoritative |-> 100, discovered_evidence |-> 45 - 18]
ClaimStrength == [observation |-> 0, assessment |-> 8, recommendation |-> 16, policy |-> 30]
EntryStatus == [active |-> 20, draft |-> 0, disputed |-> -15]
Confidence == [unverified |-> -8, inferred |-> -4, source_backed |-> 10, verified |-> 18]
SourceValidation == [unverified |-> -4, verified |-> 12, broken |-> -45, stale |-> -20]
EdgeRelation ==
  [prerequisite |-> 16, implementation_detail |-> 12, operational_runbook |-> 14,
   failure_mode |-> 13, warning |-> 14, evidence_for |-> 8, contradicted_by |-> 10,
   supersedes |-> 12, historical_context |-> -4, related_concept |-> 2, example |-> 3,
   review_risk |-> 15, source_trace |-> 5, owned_by_project |-> 6,
   contextual_assessment |-> 7]
NoRelation == "" \* of roots and entries

ExcludedStatuses == {"superseded", "deprecated", "archived"}
Policies == {"score_desc", "roots_then_edges"}

\* An entry, with the verification statuses of its sources, or a node, with the
\* relation and depth at which the walk found it.  topic_nodes has no status and no
\* confidence: a node counts as active and source_backed, and its sources are not read
\* (recall.go:92).  tokens estimates its
\* title, slug and summary, the two blanks between them included.
RowData ==
  [kind: {"memory_entry", "topic_node"}, status: ExcludedStatuses \cup DOMAIN EntryStatus,
   claim: DOMAIN ClaimStrength, confidence: DOMAIN Confidence,
   sources: Seq(DOMAIN SourceValidation), authority: Scopes, home: Scopes,
   discovery: {"explicit_only", "same_project", "linked_projects", "global_discoverable"},
   relation: DOMAIN EdgeRelation \cup {NoRelation}, depth: Nat, tokens: Nat \ {0}]

RequestData == [scope: Scopes, limit: Int, asked: Int, hint: Int, policy: Policies]

ASSUME DataAssumption == Rows \subseteq RowData /\ Requests \subseteq RequestData
ASSUME NodesAssumption ==
  \A r \in Rows : r.kind = "topic_node" =>
    r.status = "active" /\ r.confidence = "source_backed" /\ r.sources = <<>>

VARIABLES
  stage,    \* of the handler: "idle", "scoring", "ordered", "fitting", "sent", "panicked"
  request,  \* the request served
  rows,     \* entries, roots and found nodes, in the order they are looked at
  next,     \* the position looked at
  included, \* includedNodes, as positions of rows
  kept,     \* those the token budget keeps
  skipped,  \* [item, reason], in order
  warned,   \* the entries warnings name
  left      \* remaining

vars == <<stage, request, rows, next, included, kept, skipped, warned, left>>

Items == DOMAIN rows
Elements(s) == {s[i] : i \in DOMAIN s}

Init ==
  /\ stage = "idle"
  /\ request \in Requests
  /\ rows = <<>>
  /\ next = 1
  /\ included = <<>>
  /\ kept = <<>>
  /\ skipped = <<>>
  /\ warned = {}
  /\ left = 0

-----------------------------------------------------------------------------
(* Scoring.                                                                *)

AuthorityMatches(r) == r.authority = request.scope

IsGlobalAuthority(r) == r.authority = Global

IsDiscoverable(r) ==
  \/ r.discovery = "global_discoverable"
  \/ r.discovery = "same_project" /\ request.scope \in Projects /\ r.home = request.scope
  \/ r.discovery = "linked_projects" /\ request.scope \in Projects

Label(r) ==
  CASE AuthorityMatches(r) \/ IsGlobalAuthority(r) -> "authoritative"
    [] ~(AuthorityMatches(r) \/ IsGlobalAuthority(r)) /\ IsDiscoverable(r) -> "discovered_evidence"
    [] OTHER -> "out_of_scope"

Sum(s) == FoldLeft(LAMBDA total, x : total + x, 0, s)

\* p / q to the nearest integer
Rounded(p, q) == (2 * p + q) \div (2 * q)

\* The mean, or what an unverified source counts; in thousandths.
SourceScore(r) ==
  IF r.sources = <<>> THEN 1000 * SourceValidation["unverified"]
  ELSE Rounded(1000 * Sum([i \in DOMAIN r.sources |-> SourceValidation[r.sources[i]]]),
               Len(r.sources))

Related(r) == IF r.relation = NoRelation THEN 0 ELSE EdgeRelation[r.relation]

\* Mutant: the decay is not raised to the depth.
DecayedOnce(x, depth) == IF depth = 0 THEN x ELSE Rounded(x * 13, 20)

\* The powers of b.
Power(b) == LET p[n \in Nat] == IF n = 0 THEN 1 ELSE b * p[n - 1] IN p

\* edge_traversal_decay is 0.65 for each level of depth.
Decayed(x, depth) == Rounded(x * Power(13)[depth], Power(20)[depth])

\* The score, in thousandths, of a row in scope.
Score(r) ==
  Decayed(1000 * (RootMatch[Label(r)] + ClaimStrength[r.claim] + EntryStatus[r.status]
                    + Confidence[r.confidence] + Related(r))
            + SourceScore(r),
          r.depth)

-----------------------------------------------------------------------------
(* The handler.                                                            *)

\* Entries come first, then the roots, then what the walk found from them, breadth
\* first.
Place(r) == IF r.kind = "memory_entry" THEN 0 ELSE r.depth + 1

\* LIMIT of a negative number is none; the view's root is put before the roots found.
Readable(rs) ==
  /\ \A i, j \in DOMAIN rs : i < j => Place(rs[i]) <= Place(rs[j])
  /\ \A i \in DOMAIN rs : rs[i].depth > 0 => \E j \in DOMAIN rs : Place(rs[j]) = rs[i].depth
  /\ request.limit >= 0 =>
       /\ Cardinality({i \in DOMAIN rs : Place(rs[i]) = 0}) <= request.limit
       /\ Cardinality({i \in DOMAIN rs : Place(rs[i]) = 1}) <= request.limit + 1

Read(rs) ==
  /\ stage = "idle" /\ Readable(rs)
  /\ rows' = rs
  /\ stage' = "scoring"
  /\ UNCHANGED <<request, next, included, kept, skipped, warned, left>>

Retired(r) == r.kind = "memory_entry" /\ r.status \in ExcludedStatuses

Scored == stage = "scoring" /\ next \in Items

\* excludedEntryStatuses, before the entry's label is asked for
SkipRetired ==
  /\ Scored /\ Retired(rows[next])
  /\ skipped' = Append(skipped, [item |-> next, reason |-> "status"])
  /\ next' = next + 1
  /\ UNCHANGED <<stage, request, rows, included, kept, warned, left>>

SkipOutOfScope ==
  /\ Scored /\ ~Retired(rows[next]) /\ Label(rows[next]) = "out_of_scope"
  /\ skipped' = Append(skipped, [item |-> next, reason |-> "out_of_scope"])
  /\ next' = next + 1
  /\ UNCHANGED <<stage, request, rows, included, kept, warned, left>>

\* Only of entries does a warning say that they are no authority here.
Include ==
  /\ Scored /\ ~Retired(rows[next]) /\ Label(rows[next]) # "out_of_scope"
  /\ included' = Append(included, next)
  /\ warned' = IF rows[next].kind = "memory_entry" /\ Label(rows[next]) = "discovered_evidence"
               THEN warned \cup {next} ELSE warned
  /\ next' = next + 1
  /\ UNCHANGED <<stage, request, rows, kept, skipped, left>>

\* applyNodeOrdering: the less function, and the order read for what it leaves equal.
Before(i, j) ==
  LET key(k) == IF request.policy = "roots_then_edges" THEN rows[k].depth ELSE -Score(rows[k])
  IN \/ key(i) < key(j)
     \/ key(i) = key(j) /\ i < j

InOrder(s) == \A i, j \in DOMAIN s : i < j => ~Before(s[j], s[i])

Order ==
  /\ stage = "scoring" /\ next \notin Items
  /\ included' \in {s \in [DOMAIN included -> Elements(included)] :
                      Elements(s) = Elements(included) /\ InOrder(s)}
  /\ stage' = "ordered"
  /\ UNCHANGED <<request, rows, next, kept, skipped, warned, left>>

\* Mutant: what is not positive is not replaced.
AsRequested == IF request.asked # 0 THEN request.asked ELSE request.hint

\* The view's hint has the default 3000 when it has none.
RequestedBudget ==
  LET budget == IF request.asked # 0 THEN request.asked ELSE request.hint
  IN IF budget <= 0 THEN DefaultBudget ELSE budget

\* take
Cut ==
  /\ stage = "ordered" /\ request.limit >= 0
  /\ included' = SubSeq(included, 1, IF request.limit < Len(included) THEN request.limit
                                   ELSE Len(included))
  /\ left' = RequestedBudget - Overhead
  /\ next' = 1
  /\ stage' = "fitting"
  /\ UNCHANGED <<request, rows, kept, skipped, warned>>

\* The slice bound is negative: the request ends without an answer or a log row.
Panic ==
  /\ stage = "ordered" /\ request.limit < 0
  /\ stage' = "panicked"
  /\ UNCHANGED <<request, rows, next, included, kept, skipped, warned, left>>

Fitted == stage = "fitting" /\ next \in DOMAIN included

\* Mutant: remaining is not reduced.
Untouched(tokens) == left

Reduced(tokens) == left - tokens

\* The loop of applyPacketBudget; what it does when nothing is left at the start is
\* what its loop would do.
Keep ==
  /\ Fitted /\ rows[included[next]].tokens <= left
  /\ kept' = Append(kept, included[next])
  /\ left' = Reduced(rows[included[next]].tokens)
  /\ next' = next + 1
  /\ UNCHANGED <<stage, request, rows, included, skipped, warned>>

\* Mutant: the first row that does not fit ends the loop.
LeaveLoop == Len(included) + 1

Continue == next + 1

Truncate ==
  /\ Fitted /\ rows[included[next]].tokens > left
  /\ skipped' = Append(skipped, [item |-> included[next], reason |-> "token_budget_truncated"])
  /\ next' = Continue
  /\ UNCHANGED <<stage, request, rows, included, kept, warned, left>>

Send ==
  /\ stage = "fitting" /\ next \notin DOMAIN included
  /\ stage' = "sent"
  /\ UNCHANGED <<request, rows, next, included, kept, skipped, warned, left>>

Next ==
  \/ \E rs \in BoundedSeq(Rows, MaxRows) : Read(rs)
  \/ SkipRetired \/ SkipOutOfScope \/ Include
  \/ Order \/ Cut \/ Panic
  \/ Keep \/ Truncate \/ Send

Spec == Init /\ [][Next]_vars

-----------------------------------------------------------------------------
(* Properties.                                                             *)

Reasons == {"status", "out_of_scope", "token_budget_truncated"}

\* The variables have their types; a budget that is not positive is never fitted to.
TypeOK ==
  /\ stage \in {"idle", "scoring", "ordered", "fitting", "sent", "panicked"}
  /\ request \in Requests
  /\ rows \in Seq(Rows)
  /\ next \in Nat \ {0}
  /\ included \in Seq(Items)
  /\ kept \in Seq(Elements(included))
  /\ skipped \in Seq([item: Items, reason: Reasons])
  /\ warned \subseteq Items
  /\ left \in {n \in Int : n >= -Overhead}

Skipped == {s.item : s \in Elements(skipped)}
Truncated == {s.item : s \in {s \in Elements(skipped) : s.reason = "token_budget_truncated"}}
Absent == Items \ (Elements(kept) \cup Skipped)

\* A packet accounts for every row that was read: it holds it, or names it once
\* with one reason among the skipped, or the limit was reached by rows of which
\* each is held or truncated.  Nothing is held that is also skipped.
Accounted ==
  stage = "sent" =>
    /\ Elements(kept) \cap Skipped = {}
    /\ Cardinality(Skipped) = Len(skipped) /\ Cardinality(Elements(kept)) = Len(kept)
    /\ Absent # {} => Len(kept) + Cardinality(Truncated) = request.limit
    /\ warned \cap Skipped \subseteq Truncated

\* What the packet's row of rank n takes of the budget.
TokensAt(n) == IF included[n] \in Elements(kept) THEN rows[included[n]].tokens ELSE 0

\* The packet's rows fit in the token budget, less the overhead, and a row is left
\* out for the budget exactly when it does not fit in what the rows ranked before
\* it left: a large row does not push out the smaller ones behind it.
FirstFit ==
  stage = "sent" =>
    LET room[n \in 0..Len(included)] ==
          IF n = 0 THEN RequestedBudget - Overhead ELSE room[n - 1] - TokensAt(n)
    IN \A n \in DOMAIN included :
         (included[n] \in Elements(kept)) <=> (rows[included[n]].tokens <= room[n - 1])

\* Under either policy a node comes before every node of the same authority and
\* claim strength that the walk found deeper, whatever the relations on the way,
\* and the limit does not cut it off for that one: no relation's weight makes up
\* for a level of decay, and the decay always lowers a score.
NearerFirst ==
  stage = "sent" =>
    LET alike(i, j) == /\ rows[i].kind = "topic_node" /\ rows[j].kind = "topic_node"
                       /\ Label(rows[i]) = Label(rows[j]) /\ rows[i].claim = rows[j].claim
    IN \A i \in Items \ Skipped, n \in DOMAIN kept :
         (alike(i, kept[n]) /\ rows[i].depth < rows[kept[n]].depth) =>
           \E m \in 1..(n - 1) : kept[m] = i

=============================================================================
