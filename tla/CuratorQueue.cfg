\* A reliable curator, one that may stop or fail anywhere and a dry run, over three
\* candidates.  The last cannot be proposed for and is out of the limit while the others
\* are queued; an answer has up to two proposals.
SPECIFICATION FairSpec
CONSTANTS
  p1 = p1
  p2 = p2
  p3 = p3
  Passes <- ThreePasses
  DryRuns <- DryPass
  Reliable <- OnePass
  NumCandidates = 3
  CandidateIds <- Filters
  Limit = 2
  MaxPerAnswer = 2
  Unproposable <- Last
  MaxLate = 1
CONSTRAINT Bounded
INVARIANTS TypeOK OpenBound
PROPERTIES EventuallyProposed PassesEnd
