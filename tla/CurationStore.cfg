\* Captures that give no slug.  It stops when the tables are full.
SPECIFICATION Spec
CONSTANTS
  s1 = s1
  s2 = s2
  r1 = r1
  r2 = r2
  t1 = t1
  t2 = t2
  Slugs <- NoSlugs
  NoSlug = NoSlug
  Titles <- OneTitle
  Refs <- OneRef
  RefLists <- ARef
  StrengthInputs = {"observation"}
  PatchInputs = {}
  EntryStatusInputs = {}
  KindInputs = {}
  ColumnInputs = {"valid"}
  MaxFragments = 0
  MaxCandidates = 2
  MaxEntries = 2
  MaxCaptures = 3
  MaxEvents = 2
  MaxProposals = 0
INVARIANT StoreAutoPromotes
CHECK_DEADLOCK FALSE
