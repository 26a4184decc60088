\* Every graph of four nodes and up to three edges; edges come and go twice while it is
\* walked.  A walk stops when it is done.
SPECIFICATION Spec
CONSTANTS
  a = a
  b = b
  c = c
  d = d
  r1 = r1
  Nodes <- FourNodes
  Relations <- OneRelation
  MaxDepth = 2
  MaxEdges = 3
  MaxChanges = 2
SYMMETRY FourSymmetry
INVARIANTS TypeOK FoundByEdge NothingMissed WalkRegular
CHECK_DEADLOCK FALSE
