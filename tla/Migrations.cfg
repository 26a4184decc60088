\* The service and a second process on a file of any earlier build, with two stops.
SPECIFICATION FairSpec
CONSTANTS
  p1 = p1
  p2 = p2
  r1 = r1
  r2 = r2
  none = none
  Processes <- TwoProcesses
  Managed <- TheService
  NoProcess <- none
  NumVersions = 4
  Rebuild = 2
  AddColumn = 3
  Rows <- TwoRows
  MaxStops = 2
INVARIANTS TypeOK SchemaIsPrefix TouchedIndexed
PROPERTIES EventuallyServing
