---------------------------- MODULE MCRecallLog -----------------------------
(* Values for the constants of RecallLog, shared by its TLC configurations. *)
EXTENDS RecallLog

CONSTANTS q1, q2, q3, e1, x

TwoRequests == {q1, q2}
ThreeRequests == {q1, q2, q3}
OneRequest == {q1}
OneEntry == {e1}
OneCallerId == {x}

\* An id of the caller's own, and a number not counted yet.
CallerChoices == {x, AutoId(2)}

=============================================================================
