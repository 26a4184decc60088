\* Up to three rows of entries, roots and nodes found one and two levels deep, for a
\* project's recall and a global one; budgets that hold none to three of them.  The handler
\* stops when the packet is sent.
SPECIFICATION Spec
CONSTANTS
  global = global
  here = here
  there = there
  Rows <- FewRows
  Scopes <- AllScopes
  Projects <- TwoProjects
  Global = global
  Requests <- SomeRequests
  DefaultBudget = 3000
  Overhead = 24
  MaxRows = 3
INVARIANTS TypeOK Accounted FirstFit NearerFirst
CHECK_DEADLOCK FALSE
