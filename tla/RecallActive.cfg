\* One recall and an entry that may be a draft.
SPECIFICATION FairSpec
CONSTANTS
  q1 = q1
  q2 = q2
  q3 = q3
  e1 = e1
  x = x
  Requests <- OneRequest
  CallerIds <- OneCallerId
  NoId = NoId
  Entries <- OneEntry
  StatusInputs = {"draft", "active", "superseded"}
  NoPacket = NoPacket
PROPERTY RecallReturnsActive
