------------------------- MODULE CuratorQueueProofs -------------------------
(***************************************************************************)
(* Proofs about CuratorQueue: types, and the bound on undecided proposals. *)
(***************************************************************************)
EXTENDS CuratorQueue, TLAPS

\* An item a pass has still to ask about had no undecided proposal when the pass
\* read the queue: the pass has posted none since, so all it has are late ones.
TodoFresh ==
  \A p \in Passes : \A c \in todo[p] : item[p] = c \/ open[c][p] <= late[c][p]

\* While it posts an answer, what it has posted and has still to post is within
\* the bound.
PostingBounded ==
  \A p \in Passes :
    pc[p] = "posting" =>
      /\ item[p] \in todo[p]
      /\ left[p] > 0
      /\ open[item[p]][p] + left[p] <= MaxPerAnswer + late[item[p]][p]

\* No item is being posted outside that stage, and no items are left between passes.
StageOK ==
  \A p \in Passes :
    /\ pc[p] # "posting" => item[p] = 0
    /\ pc[p] \in {"idle", "listing", "matching"} => todo[p] = {}

Inv == TypeOK /\ OpenBound /\ TodoFresh /\ PostingBounded /\ StageOK

\* Every initial state satisfies the invariant.
LEMMA InitInv == Init => Inv
<1> SUFFICES ASSUME Init PROVE Inv
  OBVIOUS
<1>1. TypeOK
  BY DEF Init, TypeOK, None, Counts, Statuses, Stages
<1>2. OpenBound /\ TodoFresh /\ PostingBounded /\ StageOK
  BY CountsAssumption DEF Init, None, OpenBound, TodoFresh, PostingBounded, StageOK, Candidates
<1> QED
  BY <1>1, <1>2 DEF Inv

\* The steps of a queue request and of a dry run: the tables stay, and items enter
\* todo only without undecided proposals.
LEMMA ReadingKeepsInv ==
  ASSUME Inv, NEW p \in Passes,
         Start(p) \/ StartSpared(p) \/ ListCandidates(p) \/ MatchProposals(p)
           \/ \E c \in Candidates : AskDry(p, c)
  PROVE Inv'
<1> USE DEF tables, Inv
<1>1. TypeOK'
  <2>1. CASE Start(p) \/ StartSpared(p) \/ \E c \in Candidates : AskDry(p, c)
    BY <2>1 DEF Start, StartSpared, Begin, AskDry, TypeOK, Stages
  <2>2. CASE ListCandidates(p)
    <3>1. {c \in QueueHead : status[c] = "pending"} \in SUBSET Candidates
      BY DEF QueueHead, Queued
    <3> QED
      BY <2>2, <3>1 DEF ListCandidates, TypeOK, Stages
  <2>3. CASE MatchProposals(p)
    <3>1. {c \in listed[p] : NeedsProposal(c) /\ Selected(p, c)} \in SUBSET Candidates
      BY DEF TypeOK
    <3> QED
      BY <2>3, <3>1 DEF MatchProposals, TypeOK, Stages
  <2> QED
    BY <2>1, <2>2, <2>3
<1>2. OpenBound'
  BY DEF Start, StartSpared, Begin, ListCandidates, MatchProposals, AskDry, OpenBound
<1>3. TodoFresh'
  BY DEF Start, StartSpared, Begin, ListCandidates, MatchProposals, AskDry, TodoFresh, NeedsProposal, TypeOK, Counts
<1>4. PostingBounded'
  BY DEF Start, StartSpared, Begin, ListCandidates, MatchProposals, AskDry, PostingBounded, TypeOK, Stages
<1>5. StageOK'
  BY DEF Start, StartSpared, Begin, ListCandidates, MatchProposals, AskDry, StageOK, TypeOK, Stages
<1> QED
  BY <1>1, <1>2, <1>3, <1>4, <1>5

\* Ending a pass clears what it holds.
LEMMA EndingKeepsInv ==
  ASSUME Inv, NEW p \in Passes, Ended(p), UNCHANGED <<status, open, late>>,
         sent' \in Counts
  PROVE Inv'
<1> USE DEF Ended, Inv
<1>1. TypeOK'
  BY DEF TypeOK, Stages
<1>2. OpenBound'
  BY DEF OpenBound
<1>3. TodoFresh'
  BY DEF TodoFresh, TypeOK
<1>4. PostingBounded'
  BY DEF PostingBounded, TypeOK, Stages
<1>5. StageOK'
  BY DEF StageOK, TypeOK, Stages
<1> QED
  BY <1>1, <1>2, <1>3, <1>4, <1>5

\* An answer has at most MaxPerAnswer proposals.
LEMMA AskKeepsInv ==
  ASSUME Inv, NEW p \in Passes, NEW c \in Candidates, Ask(p, c)
  PROVE Inv'
<1> USE DEF Ask, tables, Inv
<1>1. TypeOK'
  BY CountsAssumption DEF TypeOK, Stages
<1>2. OpenBound'
  BY DEF OpenBound
<1>3. TodoFresh'
  BY DEF TodoFresh, TypeOK, StageOK, Candidates
<1>4. PostingBounded'
  <2>1. open[c][p] <= late[c][p]
    BY CountsAssumption DEF TodoFresh, StageOK, NextItem, Candidates
  <2>2. open[c][p] \in Nat /\ late[c][p] \in Nat
    BY DEF TypeOK, Counts
  <2>3. left'[p] \in 1..MaxPerAnswer /\ item'[p] = c /\ c \in todo'[p]
    BY DEF TypeOK, NextItem
  <2>4. ASSUME NEW q \in Passes, q # p
        PROVE pc'[q] = pc[q] /\ item'[q] = item[q] /\ left'[q] = left[q] /\ todo'[q] = todo[q]
    BY <2>4 DEF TypeOK
  <2> QED
    BY <2>1, <2>2, <2>3, <2>4, CountsAssumption DEF PostingBounded
<1>5. StageOK'
  BY DEF StageOK, TypeOK
<1> QED
  BY <1>1, <1>2, <1>3, <1>4, <1>5

\* One proposal of an answer is stored: what is posted and left adds up as before.
LEMMA PostKeepsInv ==
  ASSUME Inv, NEW p \in Passes, NEW c \in Candidates, Post(p, c)
  PROVE Inv'
<1> USE DEF Post, LastToPost, Inv
<1>1. /\ open[c][p] \in Nat /\ late[c][p] \in Nat /\ left[p] \in Nat /\ left[p] > 0
      /\ open[c][p] + left[p] <= MaxPerAnswer + late[c][p]
      /\ c \in todo[p]
  BY DEF PostingBounded, TypeOK, Counts
<1>2. /\ open'[c][p] = open[c][p] + 1
      /\ left'[p] = left[p] - 1
      /\ \A d \in Candidates, q \in Passes :
           d # c \/ q # p => open'[d][q] = open[d][q]
      /\ \A q \in Passes : q # p => left'[q] = left[q] /\ pc'[q] = pc[q]
                                    /\ item'[q] = item[q] /\ todo'[q] = todo[q]
  BY DEF TypeOK, Counts
<1>3. TypeOK'
  <2>1. open' \in Counts
    BY DEF TypeOK, Counts
  <2>2. left' \in [Passes -> Nat]
    BY <1>1 DEF TypeOK
  <2> QED
    BY <2>1, <2>2 DEF TypeOK, Stages
<1>4. OpenBound'
  BY <1>1, <1>2, CountsAssumption DEF OpenBound
<1>5. TodoFresh'
  BY <1>2 DEF TodoFresh, TypeOK, Candidates
<1>6. PostingBounded'
  <2>1. ASSUME pc'[p] = "posting"
        PROVE /\ item'[p] = c /\ c \in todo'[p]
              /\ left'[p] > 0
              /\ open'[c][p] + left'[p] <= MaxPerAnswer + late'[c][p]
    BY <1>1, <1>2, <2>1, CountsAssumption DEF TypeOK
  <2>2. ASSUME NEW q \in Passes, q # p, pc'[q] = "posting"
        PROVE /\ item'[q] \in todo'[q]
              /\ left'[q] > 0
              /\ open'[item'[q]][q] + left'[q] <= MaxPerAnswer + late'[item'[q]][q]
    <3>1. item[q] \in todo[q] /\ item[q] \in Candidates
      BY <1>2, <2>2 DEF PostingBounded, TypeOK
    <3> QED
      BY <1>2, <2>2, <3>1 DEF PostingBounded
  <2> QED
    BY <2>1, <2>2 DEF PostingBounded
<1>7. StageOK'
  BY <1>2 DEF StageOK, TypeOK
<1> QED
  BY <1>3, <1>4, <1>5, <1>6, <1>7

\* Late requests, decisions and other curation: no pass moves, no count of late
\* POSTs falls, and undecided proposals only grow with it.
LEMMA OthersKeepInv ==
  ASSUME Inv, NEW p \in Passes, NEW c \in Candidates, UNCHANGED passVars,
         PostLate(p, c) \/ DropLate(p, c) \/ Apply(p, c) \/ Mark(p, c)
           \/ \E s \in Statuses : SetStatus(c, s)
  PROVE Inv'
<1> USE DEF passVars, Inv
<1> DEFINE Grown == \A d \in Candidates, q \in Passes :
             /\ open[d][q] \in Nat /\ late[d][q] \in Nat
             /\ open'[d][q] \in Nat /\ late'[d][q] \in Nat
             /\ open'[d][q] - open[d][q] <= late'[d][q] - late[d][q]
           Moved == /\ status' \in [Candidates -> Statuses]
                    /\ open' \in Counts /\ sent' \in Counts /\ late' \in Counts
<1>a. open[c][p] \in Nat /\ sent[c][p] \in Nat /\ late[c][p] \in Nat
  BY DEF TypeOK, Counts
<1>b. ASSUME PostLate(p, c) PROVE Moved /\ Grown
  <2>1. Moved
    BY <1>a, <1>b DEF PostLate, TypeOK, Counts
  <2>2. Grown
    BY <1>a, <1>b, <2>1 DEF PostLate, TypeOK, Counts
  <2> QED
    BY <2>1, <2>2
<1>c. ASSUME Apply(p, c) \/ Mark(p, c) PROVE Moved /\ Grown
  <2>1. open[c][p] - 1 \in Nat /\ open' = [open EXCEPT ![c][p] = @ - 1]
    BY <1>a, <1>c DEF Apply, Mark
  <2>2. Moved
    BY <1>c, <2>1 DEF Apply, Mark, TypeOK, Counts, Statuses
  <2>3. Grown
    BY <1>c, <2>1, <2>2 DEF Apply, Mark, TypeOK, Counts
  <2> QED
    BY <2>2, <2>3
<1>d. ASSUME DropLate(p, c) \/ \E s \in Statuses : SetStatus(c, s) PROVE Moved /\ Grown
  <2>1. UNCHANGED <<open, late>>
    BY <1>d DEF DropLate, SetStatus
  <2>2. sent' \in Counts
    <3>1. CASE DropLate(p, c)
      <4>1. sent[c][p] - 1 \in Nat /\ sent' = [sent EXCEPT ![c][p] = @ - 1]
        BY <1>a, <3>1 DEF DropLate
      <4> QED
        BY <4>1 DEF TypeOK, Counts
    <3>2. CASE \E s \in Statuses : SetStatus(c, s)
      BY <3>2 DEF SetStatus, TypeOK
    <3> QED
      BY <1>d, <3>1, <3>2
  <2>3. status' \in [Candidates -> Statuses]
    BY <1>d DEF DropLate, SetStatus, TypeOK
  <2> QED
    BY <2>1, <2>2, <2>3 DEF TypeOK, Counts
<1>1. TypeOK'
  BY <1>b, <1>c, <1>d DEF TypeOK
<1>2. Grown
  BY <1>b, <1>c, <1>d
<1> HIDE DEF Grown
<1>3. OpenBound'
  BY <1>2, CountsAssumption DEF OpenBound, Grown
<1>4. TodoFresh'
  BY <1>2 DEF TodoFresh, TypeOK, Grown
<1>5. PostingBounded'
  BY <1>2, CountsAssumption DEF PostingBounded, TypeOK, Grown
<1>6. StageOK'
  BY DEF StageOK
<1> QED
  BY <1>1, <1>3, <1>4, <1>5, <1>6

\* Every step preserves the invariant.
LEMMA NextInv == Inv /\ [Next]_vars => Inv'
<1> SUFFICES ASSUME Inv, [Next]_vars PROVE Inv'
  OBVIOUS
<1>1. ASSUME NEW p \in Passes, Start(p) \/ StartSpared(p) \/ Work(p) \/ Fail(p) PROVE Inv'
  <2>1. CASE Start(p) \/ StartSpared(p) \/ ListCandidates(p) \/ MatchProposals(p)
               \/ \E c \in Candidates : AskDry(p, c)
    BY <2>1, ReadingKeepsInv
  <2>2. CASE AskRefused(p) \/ Finish(p) \/ Fail(p)
    BY <2>2, EndingKeepsInv DEF AskRefused, AfterRefusal, Finish, Fail, tables, Inv, TypeOK
  <2>3. CASE \E c \in Candidates : Ask(p, c)
    BY <2>3, AskKeepsInv
  <2>4. CASE \E c \in Candidates : Post(p, c)
    BY <2>4, PostKeepsInv
  <2> QED
    BY <1>1, <2>1, <2>2, <2>3, <2>4 DEF Work
<1>2. ASSUME NEW p \in Passes, NEW c \in Candidates, Abandon(p, c) PROVE Inv'
  <2>1. sent' \in Counts
    BY <1>2 DEF Abandon, Inv, TypeOK, Counts
  <2> QED
    BY <1>2, <2>1, EndingKeepsInv DEF Abandon
<1>3. ASSUME NEW p \in Passes, NEW c \in Candidates,
             PostLate(p, c) \/ DropLate(p, c) \/ Apply(p, c) \/ Mark(p, c)
      PROVE Inv'
  BY <1>3, OthersKeepInv DEF PostLate, DropLate, Apply, Mark, passVars
<1>4. ASSUME NEW c \in Candidates, NEW s \in Statuses, SetStatus(c, s) PROVE Inv'
  BY <1>4 DEF SetStatus, passVars, Inv, TypeOK, OpenBound, TodoFresh, PostingBounded, StageOK
<1>5. CASE UNCHANGED vars
  BY <1>5 DEF vars, Inv, TypeOK, OpenBound, TodoFresh, PostingBounded, StageOK
<1> QED
  BY <1>1, <1>2, <1>3, <1>4, <1>5 DEF Next

\* The invariant holds in every reachable state.
LEMMA SpecInv == Spec => []Inv
BY InitInv, NextInv, PTL DEF Spec

\* The variables keep their types.
THEOREM TypeCorrect == Spec => []TypeOK
<1>1. Inv => TypeOK
  BY DEF Inv
<1> QED
  BY <1>1, SpecInv, PTL

\* For any number of passes and candidates, the undecided proposals of a pass for
\* a candidate stay within one answer and its late POSTs.
THEOREM OpenProposalsBounded == Spec => []OpenBound
<1>1. Inv => OpenBound
  BY DEF Inv
<1> QED
  BY <1>1, SpecInv, PTL

=============================================================================
