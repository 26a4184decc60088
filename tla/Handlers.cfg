\* A create, a claim, a promotion and an export, and two updates of a view, up to four
\* requests with their repetitions, two at a time.  It stops when they are used up.
SPECIFICATION FairSpec
CONSTANTS
  c1 = c1
  k1 = k1
  p1 = p1
  o1 = o1
  u1 = u1
  u2 = u2
  x1 = x1
  none = none
  Creators <- ACreator
  Claimers <- AClaimer
  Promoters <- APromoter
  Openers <- AnOpener
  Updaters <- TwoUpdaters
  Auditors <- AnAuditor
  Payloads = {{"title"}, {"status"}}
  NoOne <- none
  MaxRequests = 4
  MaxInFlight = 2
INVARIANTS TypeOK AnsweredIsStored UpdatesKept ExportExplained
PROPERTIES OneStepRequests RequestsEnd
CHECK_DEADLOCK FALSE
