\* Three recalls, without an id, with one of the caller's own and with
\* a number of the service's.
SPECIFICATION FairSpec
CONSTANTS
  q1 = q1
  q2 = q2
  q3 = q3
  e1 = e1
  x = x
  Requests <- ThreeRequests
  CallerIds <- CallerChoices
  NoId = NoId
  Entries <- OneEntry
  StatusInputs = {"active", "superseded"}
  NoPacket = NoPacket
INVARIANTS TypeOK ReadBack OnlyChoiceBlocks
PROPERTIES PacketsAreFinal Answered
