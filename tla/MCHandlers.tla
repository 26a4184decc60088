----------------------------- MODULE MCHandlers -----------------------------
(* Values for the constants of Handlers.                                   *)
EXTENDS Handlers

CONSTANTS c1, k1, p1, o1, u1, u2, x1, none

ACreator == {c1}
AClaimer == {k1}
APromoter == {p1}
AnOpener == {o1}
TwoUpdaters == {u1, u2}
AnAuditor == {x1}

=============================================================================
