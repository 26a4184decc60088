---------------------------- MODULE MCGraphWalk -----------------------------
(* Values for the constants of GraphWalk.                                  *)
EXTENDS GraphWalk, TLC

CONSTANTS a, b, c, d, r1

FourNodes == {a, b, c, d}
OneRelation == {r1}
FourSymmetry == Permutations(FourNodes)

=============================================================================
