---------------------------- MODULE MCTopicGraph ----------------------------
(* Values for the constants of TopicGraph.                                 *)
EXTENDS TopicGraph, TLC

CONSTANTS s1, s2, t1, t2, r1, r2

TwoSlugs == {s1, s2}
TwoTitles == {t1, t2}
TwoRelations == {r1, r2}
GraphSymmetry == Permutations(TwoSlugs) \cup Permutations(TwoTitles)
                   \cup Permutations(TwoRelations)

=============================================================================
