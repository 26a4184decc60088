\* Two nodes, edges of two relations that are deleted and linked again under
\* reused ids.  It stops when the tables are full.
SPECIFICATION Spec
CONSTANTS
  s1 = s1
  s2 = s2
  t1 = t1
  t2 = t2
  r1 = r1
  r2 = r2
  Slugs <- TwoSlugs
  Titles <- TwoTitles
  Relations <- TwoRelations
  MaxNodes = 2
  MaxEdgeId = 2
  MaxEvents = 5
  NoRow = NoRow
SYMMETRY GraphSymmetry
INVARIANTS TypeOK EdgeIdsCurrent GraphReplay NodeFtsInSync
CHECK_DEADLOCK FALSE
