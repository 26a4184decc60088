\* Four candidates: a merge of a merge.  Two references and two titles.  It stops when
\* the tables are full.
SPECIFICATION Spec
CONSTANTS
  s1 = s1
  s2 = s2
  r1 = r1
  r2 = r2
  t1 = t1
  t2 = t2
  Slugs <- OneSlug
  NoSlug = NoSlug
  Titles <- TwoTitles
  Refs <- TwoRefs
  RefLists <- EachRef
  StrengthInputs = {"observation"}
  PatchInputs = {"pending"}
  EntryStatusInputs = {"active"}
  KindInputs = {}
  ColumnInputs = {"valid"}
  MaxFragments = 0
  MaxCandidates = 4
  MaxEntries = 1
  MaxCaptures = 2
  MaxEvents = 3
  MaxProposals = 0
INVARIANTS ProvenanceSurvives FtsInSync
SYMMETRY RefTitleSymmetry
CHECK_DEADLOCK FALSE
