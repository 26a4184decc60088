----------------------------- MODULE MCCuration -----------------------------
(* Values for the constants of Curation, shared by its TLC configurations.  *)
EXTENDS Curation, TLC

CONSTANTS s1, s2, r1, r2, t1, t2

NoSlugs == {}
OneSlug == {s1}
TwoSlugs == {s1, s2}
OneRef == {r1}
TwoRefs == {r1, r2}
EachRef == {{r1}, {r2}}
ARef == {{r1}}
SlugSymmetry == Permutations(TwoSlugs)
OneTitle == {t1}
TwoTitles == {t1, t2}
RefTitleSymmetry == Permutations(TwoRefs) \cup Permutations(TwoTitles)

=============================================================================
