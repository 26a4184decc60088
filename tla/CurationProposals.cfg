\* Two proposals of one candidate, of either kind, with two entries for a second
\* promotion.  It stops when the tables are full.
SPECIFICATION Spec
CONSTANTS
  s1 = s1
  s2 = s2
  r1 = r1
  r2 = r2
  t1 = t1
  t2 = t2
  Slugs <- TwoSlugs
  NoSlug = NoSlug
  Titles <- OneTitle
  Refs <- OneRef
  RefLists <- ARef
  StrengthInputs = {"observation"}
  PatchInputs = {"pending", "promoted"}
  EntryStatusInputs = {}
  KindInputs = {"promote_candidate", "reject_candidate"}
  ColumnInputs = {"valid"}
  MaxFragments = 0
  MaxCandidates = 1
  MaxEntries = 2
  MaxCaptures = 1
  MaxEvents = 3
  MaxProposals = 2
INVARIANTS PromotedOnce ProposalLinks
PROPERTY DecisionsAreFinal
SYMMETRY SlugSymmetry
CHECK_DEADLOCK FALSE
