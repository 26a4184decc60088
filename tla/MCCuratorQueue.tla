--------------------------- MODULE MCCuratorQueue ---------------------------
(* Values for the constants of CuratorQueue, and the part of its states    *)
(* that is explored.                                                       *)
EXTENDS CuratorQueue

CONSTANTS p1, p2, p3

OnePass == {p1}
ThreePasses == {p1, p2, p3}
DryPass == {p3}
Last == {NumCandidates}

\* The dry run is given ids, the other passes take every item.
Filters == [p \in Passes |-> IF p \in DryRuns THEN {1, NumCandidates} ELSE {}]

\* The candidates that are not claimed, or that a pass still has to do with.
Live == {c \in Candidates :
           \/ status[c] # "claimed"
           \/ \E p \in Passes : open[c][p] > 0 \/ c \in listed[p] \cup todo[p]}

\* A pass that is not running and left nothing behind.
Absent(p) == pc[p] = "idle" /\ \A c \in Candidates : open[c][p] = 0 /\ sent[c][p] = 0

\* Each answer has one proposal and no POST is abandoned.
OneEach ==
  /\ \A p \in Passes : left[p] <= 1
  /\ \A c \in Candidates, p \in Passes :
       open[c][p] <= 1 /\ sent[c][p] = 0 /\ late[c][p] = 0

\* The reliable curator alone with all candidates; two curators and two candidates;
\* two curators and one candidate, with several proposals to an answer and abandoned
\* POSTs; the dry run, which changes no table.  A behaviour that leaves them for good
\* is not judged.
Alone == OneEach /\ Absent(p2) /\ Absent(p3)
Pair == OneEach /\ Absent(p3) /\ Live \subseteq {1, 2}
Rivals == Absent(p3) /\ Live \subseteq {1}
Dry == OneEach /\ Absent(p1) /\ Absent(p2)
Bounded == Alone \/ Pair \/ Rivals \/ Dry

=============================================================================
