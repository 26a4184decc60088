---------------------------- MODULE CuratorQueue ----------------------------
(***************************************************************************)
(* Curator passes and the queue they work from.  A pass is one run of the  *)
(* curator program: it reads GET /api/curation/queue, which lists          *)
(* candidates and matches proposals in two statements, asks its proposer   *)
(* about each item that needs a proposal and posts the answers.  Passes    *)
(* run beside each other and beside the people who decide proposals; a     *)
(* pass ends at its first error, and a POST it gave up may still be served.*)
(***************************************************************************)
EXTENDS Naturals, FiniteSets

CONSTANTS
  Passes,        \* curator programs, each run again and again
  DryRuns,       \* the ones run with --dry-run
  Reliable,      \* the ones that keep being run and sometimes succeed
  NumCandidates, \* rows of memory_candidates, by id
  CandidateIds,  \* --candidate-ids of each pass; none means all
  Limit,         \* --limit
  MaxPerAnswer,  \* proposals in one answer of a proposer
  Unproposable,  \* candidates whose answers never validate
  MaxLate        \* bound on abandoned POSTs of one candidate by one pass

Candidates == 1..NumCandidates
Statuses == {"pending", "claimed", "closed"}
Stages == {"idle", "listing", "matching", "proposing", "posting"}

ASSUME CountsAssumption == NumCandidates \in Nat /\ MaxPerAnswer \in Nat
ASSUME ReliableAssumption == Reliable \subseteq Passes \ DryRuns
ASSUME FilterAssumption == CandidateIds \in [Passes -> SUBSET (Nat \ {0})]

VARIABLES
  status, \* memory_candidates.status; "closed" is any final one
  open,   \* proposed or needs_human proposals of a candidate, by pass
  sent,   \* abandoned POSTs the service has not served or dropped yet
  late,   \* abandoned POSTs it served after all
  pc,     \* where each pass is
  listed, \* the pending candidates among the rows its queue request read
  todo,   \* its queue items that still need a proposal
  item,   \* the candidate whose answer it posts
  left,   \* the proposals of that answer still to post
  spared  \* the passes that are to meet no failure until they end (prophecy)

vars == <<status, open, sent, late, pc, listed, todo, item, left, spared>>
passVars == <<pc, listed, todo, item, left, spared>>
tables == <<status, open, sent, late>>

None == [c \in Candidates |-> [p \in Passes |-> 0]]

Init ==
  /\ status \in [Candidates -> {"pending", "claimed"}]
  /\ open = None
  /\ sent = None
  /\ late = None
  /\ pc = [p \in Passes |-> "idle"]
  /\ listed = [p \in Passes |-> {}]
  /\ todo = [p \in Passes |-> {}]
  /\ item = [p \in Passes |-> 0]
  /\ left = [p \in Passes |-> 0]
  /\ spared = {}

-----------------------------------------------------------------------------
(* The queue request.                                                      *)

Begin(p) ==
  /\ pc[p] = "idle"
  /\ pc' = [pc EXCEPT ![p] = "listing"]
  /\ UNCHANGED <<tables, listed, todo, item, left>>

Start(p) == Begin(p) /\ UNCHANGED spared

\* A pass that will meet no failure; only Fail and Abandon look at spared.
StartSpared(p) ==
  /\ p \in Reliable
  /\ Begin(p)
  /\ spared' = spared \cup {p}

Queued == {c \in Candidates : status[c] \in {"pending", "claimed"}}

\* SELECT ... WHERE status IN ('pending','claimed') ORDER BY id LIMIT
QueueHead == {c \in Queued : Cardinality({d \in Queued : d < c}) < Limit}

\* A claimed row takes a place of the limit and is then skipped by the pass.
ListCandidates(p) ==
  /\ pc[p] = "listing"
  /\ listed' = [listed EXCEPT ![p] = {c \in QueueHead : status[c] = "pending"}]
  /\ pc' = [pc EXCEPT ![p] = "matching"]
  /\ UNCHANGED <<tables, todo, item, left, spared>>

\* Mutant: proposals are not looked at.
AlwaysNeedsProposal(c) == TRUE

\* queueStateForCandidate: no undecided proposal names the candidate.
NeedsProposal(c) == \A p \in Passes : open[c][p] = 0

\* The pass was given no ids, or this one.
Selected(p, c) == CandidateIds[p] = {} \/ c \in CandidateIds[p]

\* The answer of the queue request, without the items the pass skips.
MatchProposals(p) ==
  /\ pc[p] = "matching"
  /\ todo' = [todo EXCEPT ![p] = {c \in listed[p] : NeedsProposal(c) /\ Selected(p, c)}]
  /\ listed' = [listed EXCEPT ![p] = {}]
  /\ pc' = [pc EXCEPT ![p] = "proposing"]
  /\ UNCHANGED <<tables, item, left, spared>>

-----------------------------------------------------------------------------
(* Proposing and posting.                                                  *)

\* Mutant: the items are taken in descending order.
GreatestItem(p, c) == c \in todo[p] /\ \A d \in todo[p] : d <= c

NextItem(p, c) == c \in todo[p] /\ \A d \in todo[p] : c <= d

Ask(p, c) ==
  /\ pc[p] = "proposing" /\ NextItem(p, c)
  /\ c \notin Unproposable /\ p \notin DryRuns
  /\ \E n \in 1..MaxPerAnswer : left' = [left EXCEPT ![p] = n]
  /\ item' = [item EXCEPT ![p] = c]
  /\ pc' = [pc EXCEPT ![p] = "posting"]
  /\ UNCHANGED <<tables, listed, todo, spared>>

\* A dry run prints the answer.
AskDry(p, c) ==
  /\ pc[p] = "proposing" /\ NextItem(p, c)
  /\ c \notin Unproposable /\ p \in DryRuns
  /\ todo' = [todo EXCEPT ![p] = @ \ {c}]
  /\ UNCHANGED <<tables, pc, listed, item, left, spared>>

Ended(p) ==
  /\ pc' = [pc EXCEPT ![p] = "idle"]
  /\ listed' = [listed EXCEPT ![p] = {}]
  /\ todo' = [todo EXCEPT ![p] = {}]
  /\ item' = [item EXCEPT ![p] = 0]
  /\ left' = [left EXCEPT ![p] = 0]
  /\ spared' = spared \ {p}

\* Mutant: the pass asks again about an answer it could not use.
AskedAgain(p) == UNCHANGED passVars

AfterRefusal(p) == Ended(p)

\* An answer that is empty, malformed or out of scope ends the pass.
AskRefused(p) ==
  /\ pc[p] = "proposing" /\ \E c \in Unproposable : NextItem(p, c)
  /\ AfterRefusal(p)
  /\ UNCHANGED tables

\* Mutant: one proposal too many.
AllPosted(p) == left[p] = 0

LastToPost(p) == left[p] = 1

\* The service stores what it is sent, whatever the candidate's status and
\* proposals are by now.
Post(p, c) ==
  /\ pc[p] = "posting" /\ item[p] = c
  /\ open' = [open EXCEPT ![c][p] = @ + 1]
  /\ left' = [left EXCEPT ![p] = @ - 1]
  /\ IF LastToPost(p)
     THEN /\ todo' = [todo EXCEPT ![p] = @ \ {c}]
          /\ item' = [item EXCEPT ![p] = 0]
          /\ pc' = [pc EXCEPT ![p] = "proposing"]
     ELSE UNCHANGED <<todo, item, pc>>
  /\ UNCHANGED <<status, sent, late, listed, spared>>

Finish(p) ==
  /\ pc[p] = "proposing" /\ todo[p] = {}
  /\ Ended(p)
  /\ UNCHANGED tables

\* An HTTP error, a timeout or a crash: the request, if there was one, had no
\* effect and will have none.
Fail(p) ==
  /\ pc[p] # "idle" /\ p \notin spared
  /\ Ended(p)
  /\ UNCHANGED tables

\* The pass gives up a POST that is still on its way.
Abandon(p, c) ==
  /\ pc[p] = "posting" /\ item[p] = c /\ p \notin spared
  /\ sent[c][p] + late[c][p] < MaxLate
  /\ sent' = [sent EXCEPT ![c][p] = @ + 1]
  /\ Ended(p)
  /\ UNCHANGED <<status, open, late>>

\* The service serves an abandoned POST ...
PostLate(p, c) ==
  /\ sent[c][p] > 0
  /\ sent' = [sent EXCEPT ![c][p] = @ - 1]
  /\ open' = [open EXCEPT ![c][p] = @ + 1]
  /\ late' = [late EXCEPT ![c][p] = @ + 1]
  /\ UNCHANGED <<status, passVars>>

\* ... or sees its context cancelled first.
DropLate(p, c) ==
  /\ sent[c][p] > 0
  /\ sent' = [sent EXCEPT ![c][p] = @ - 1]
  /\ UNCHANGED <<status, open, late, passVars>>

-----------------------------------------------------------------------------
(* The people who decide.                                                  *)

\* Apply, of a promotion or a rejection.
Apply(p, c) ==
  /\ open[c][p] > 0
  /\ open' = [open EXCEPT ![c][p] = @ - 1]
  /\ status' = [status EXCEPT ![c] = "closed"]
  /\ UNCHANGED <<sent, late, passVars>>

\* Reject or defer the proposal: the candidate stays as it is.
Mark(p, c) ==
  /\ open[c][p] > 0
  /\ open' = [open EXCEPT ![c][p] = @ - 1]
  /\ UNCHANGED <<status, sent, late, passVars>>

\* Claim, reject, promote, split, merge or PATCH of the candidate itself.
SetStatus(c, s) ==
  /\ status[c] # s
  /\ status' = [status EXCEPT ![c] = s]
  /\ UNCHANGED <<open, sent, late, passVars>>

-----------------------------------------------------------------------------

Work(p) ==
  \/ ListCandidates(p)
  \/ MatchProposals(p)
  \/ AskRefused(p)
  \/ Finish(p)
  \/ \E c \in Candidates : Ask(p, c) \/ AskDry(p, c) \/ Post(p, c)

Next ==
  \/ \E p \in Passes : Start(p) \/ StartSpared(p) \/ Work(p) \/ Fail(p)
  \/ \E p \in Passes, c \in Candidates :
       Abandon(p, c) \/ PostLate(p, c) \/ DropLate(p, c) \/ Apply(p, c) \/ Mark(p, c)
  \/ \E c \in Candidates, s \in Statuses : SetStatus(c, s)

Spec == Init /\ [][Next]_vars

\* Somebody keeps running the reliable curators, their passes go on when they can,
\* and of passes tried again and again one meets no failure now and then.  Nothing
\* is assumed of the other passes or of the people who decide.
FairSpec ==
  /\ Spec
  /\ \A p \in Reliable :
       /\ WF_vars(Start(p) \/ StartSpared(p)) /\ WF_vars(Work(p))
       /\ SF_vars(StartSpared(p))

-----------------------------------------------------------------------------
(* Properties.                                                             *)

Counts == [Candidates -> [Passes -> Nat]]

TypeOK ==
  /\ status \in [Candidates -> Statuses]
  /\ open \in Counts
  /\ sent \in Counts
  /\ late \in Counts
  /\ pc \in [Passes -> Stages]
  /\ listed \in [Passes -> SUBSET Candidates]
  /\ todo \in [Passes -> SUBSET Candidates]
  /\ item \in [Passes -> Candidates \cup {0}]
  /\ left \in [Passes -> Nat]
  /\ spared \subseteq Reliable

\* However often a pass is run, in whatever order it interleaves with others and
\* with decisions, its undecided proposals of one candidate never exceed one
\* answer, but for POSTs it had given up and that were served after all.  Nothing
\* in the schema says so: it rests on the queue (queueStateForCandidate).
OpenBound ==
  \A c \in Candidates, p \in Passes : open[c][p] <= MaxPerAnswer + late[c][p]

\* If a reliable curator takes it, a pending candidate that is within the limit and
\* behind no candidate of that curator which the proposer cannot answer is proposed
\* for, or stops being pending, although passes fail, other passes compete and earlier
\* candidates come back to the queue whenever their proposals are rejected.
EventuallyProposed ==
  \A c \in Candidates :
    (\E p \in Reliable :
       /\ Selected(p, c) /\ c <= Limit
       /\ \A u \in Unproposable : Selected(p, u) => c < u) =>
    (status[c] = "pending" ~> (~NeedsProposal(c) \/ status[c] # "pending"))

\* A pass ends, whatever its proposer answers and whatever others do.
PassesEnd == \A p \in Reliable : pc[p] # "idle" ~> pc[p] = "idle"

=============================================================================
