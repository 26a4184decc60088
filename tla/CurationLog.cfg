\* Three candidates that are captured, edited, split in two, merged and promoted, with
\* policy strengths and refused writes.  It stops when the tables are full.
SPECIFICATION Spec
CONSTANTS
  s1 = s1
  s2 = s2
  r1 = r1
  r2 = r2
  t1 = t1
  t2 = t2
  Slugs <- OneSlug
  NoSlug = NoSlug
  Titles <- OneTitle
  Refs <- OneRef
  RefLists <- ARef
  StrengthInputs = {"observation", "policy"}
  PatchInputs = {"pending", "superseded"}
  EntryStatusInputs = {"active", "archived"}
  KindInputs = {}
  ColumnInputs = {"valid", "refused"}
  MaxFragments = 2
  MaxCandidates = 3
  MaxEntries = 1
  MaxCaptures = 2
  MaxEvents = 3
  MaxProposals = 0
INVARIANTS TypeOK AuditReplay CandidateOrigin PolicyNeedsCurator
CHECK_DEADLOCK FALSE
