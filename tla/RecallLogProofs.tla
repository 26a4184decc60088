--------------------------- MODULE RecallLogProofs ---------------------------
(***************************************************************************)
(* Proofs about RecallLog: every value of the constants, so any number of  *)
(* requests, caller ids and entries.                                       *)
(***************************************************************************)
EXTENDS RecallLog, TLAPS

\* An id that answers what was asked: the caller's own, or, if it chose none, no
\* number above the given one.
IdFor(choice, id, number) ==
  /\ choice = NoId => \A n \in Nat : id = AutoId(n) => n <= number
  /\ choice # NoId => id = choice

\* No number of the service's own is ahead of the table: a row's is at most its
\* position, and that of a request about to insert at most the position its row may
\* get.  Only requests without a choice are numbered, and what the request of a row
\* asked for is not changed any more.
NumbersBehind ==
  /\ \A r \in Requests : pc[r] = "number" => asked[r] = NoId
  /\ \A r \in Requests : pc[r] = "insert" => IdFor(asked[r], packetId[r], Len(logs) + 1)
  /\ \A i \in DOMAIN logs :
       /\ pc[logs[i].request] # "idle"
       /\ IdFor(asked[logs[i].request], logs[i].id, i)

\* The row a request inserted is still its own, and holds its packet once it replied.
RowKept ==
  \A r \in Requests : pc[r] \in {"update", "replied"} =>
    /\ logId[r] \in DOMAIN logs
    /\ logs[logId[r]].request = r
    /\ logs[logId[r]].id = packetId[r]
    /\ logs[logId[r]].packet =
         IF pc[r] = "update" THEN NoPacket ELSE [nodes |-> found[r], log |-> logId[r]]

\* The inductive invariant.
Inv == TypeOK /\ NumbersBehind /\ RowKept

-----------------------------------------------------------------------------

\* Numbers are told apart by their packet ids.
LEMMA AutoIds ==
  /\ \A n \in Nat : AutoId(n) \in PacketIds /\ AutoId(n) # NoId
  /\ \A m, n \in Nat : AutoId(m) = AutoId(n) => m = n
  BY NoIdAssumption DEF AutoId, PacketIds

\* What appending a row to the log does.
LEMMA RowAppended ==
  ASSUME logs \in Seq(LogRow), NEW row \in LogRow
  PROVE  LET rows == Append(logs, row) IN
         /\ rows \in Seq(LogRow)
         /\ Len(rows) = Len(logs) + 1
         /\ DOMAIN rows = DOMAIN logs \cup {Len(logs) + 1}
         /\ Len(logs) + 1 \notin DOMAIN logs
         /\ \A i \in DOMAIN logs : rows[i] = logs[i]
         /\ rows[Len(logs) + 1] = row
  OBVIOUS

\* What writing a packet into a row does.
LEMMA PacketWritten ==
  ASSUME logs \in Seq(LogRow), NEW i \in DOMAIN logs, NEW packet \in Packet
  PROVE  LET rows == [logs EXCEPT ![i].packet = packet] IN
         /\ rows \in Seq(LogRow)
         /\ Len(rows) = Len(logs)
         /\ DOMAIN rows = DOMAIN logs
         /\ \A j \in DOMAIN logs \ {i} : rows[j] = logs[j]
         /\ rows[i].id = logs[i].id
         /\ rows[i].request = logs[i].request
         /\ rows[i].packet = packet
<1> DEFINE rows == [logs EXCEPT ![i].packet = packet]
           row == [logs[i] EXCEPT !.packet = packet]
<1>1. logs[i] \in LogRow
  OBVIOUS
<1>2. /\ row \in LogRow
      /\ row.id = logs[i].id /\ row.request = logs[i].request /\ row.packet = packet
  BY <1>1 DEF LogRow
<1>3. rows = [logs EXCEPT ![i] = row]
  OBVIOUS
<1> HIDE DEF row
<1>4. QED
  BY <1>2, <1>3

-----------------------------------------------------------------------------

\* The invariant holds at first.
LEMMA InitInv == Init => Inv
<1>1. SUFFICES ASSUME Init PROVE Inv
  OBVIOUS
<1>2. TypeOK
  BY <1>1, StatusAssumption DEF Init, TypeOK, Stages
<1>3. QED
  BY <1>1, <1>2 DEF Init, Inv, NumbersBehind, RowKept

\* Every step of a request but its insert and its update leaves the log alone.
LEMMA SilentStep ==
  ASSUME Inv, NEW r \in Requests,
         \/ \E id \in CallerIds \cup {NoId} : Receive(r, id)
         \/ \E matched \in SUBSET Entries : Search(r, matched)
         \/ Number(r) \/ InsertRefused(r) \/ Disconnect(r)
  PROVE  Inv'
<1> USE DEF Inv
<1>1. ASSUME NEW id \in CallerIds \cup {NoId}, Receive(r, id) PROVE Inv'
  <2>1. TypeOK'
    BY <1>1 DEF TypeOK, Receive, Stages, PacketIds
  <2>2. ASSUME NEW i \in DOMAIN logs PROVE logs[i].request \in Requests \ {r}
    <3>1. logs[i] \in LogRow
      BY DEF TypeOK
    <3>2. QED BY <1>1, <3>1 DEF Receive, NumbersBehind, LogRow
  <2>3. NumbersBehind' /\ RowKept'
    BY <1>1, <2>2 DEF TypeOK, Receive, NumbersBehind, RowKept
  <2>4. QED BY <2>1, <2>3
<1>2. ASSUME NEW matched \in SUBSET Entries, Search(r, matched) PROVE Inv'
  <2>1. TypeOK'
    BY <1>2 DEF TypeOK, Search, Stages, PacketIds
  <2>2. RowKept'
    BY <1>2 DEF TypeOK, Search, RowKept
  <2>3. NumbersBehind'
    BY <1>2 DEF TypeOK, Search, NumbersBehind, IdFor
  <2>4. QED BY <2>1, <2>2, <2>3
<1>3. ASSUME Number(r) PROVE Inv'
  <2>1. PICK n \in Nat : /\ n <= Len(logs) + 1
                         /\ packetId' = [packetId EXCEPT ![r] = AutoId(n)]
    <3>1. PICK id \in CountedIds : packetId' = [packetId EXCEPT ![r] = id]
      BY <1>3 DEF Number
    <3>2. Len(logs) \in Nat
      BY DEF TypeOK
    <3>3. id = AutoId(Len(logs) + 1) \/ id = AutoId(1)
      BY <3>1 DEF CountedIds
    <3>4. Len(logs) + 1 \in Nat /\ 1 \in Nat /\ 1 <= Len(logs) + 1
      BY <3>2
    <3>5. CASE id = AutoId(Len(logs) + 1)
      <4>1. Len(logs) + 1 <= Len(logs) + 1
        BY <3>4
      <4>2. QED BY <3>1, <3>4, <3>5, <4>1, Zenon
    <3>6. CASE id = AutoId(1)
      BY <3>1, <3>4, <3>6, Zenon
    <3>7. QED BY <3>3, <3>5, <3>6
  <2>2. AutoId(n) \in PacketIds /\ AutoId(n) # NoId
    BY AutoIds
  <2>3. TypeOK'
    BY <1>3, <2>1, <2>2 DEF TypeOK, Number, Stages
  <2>4. RowKept'
    BY <1>3, <2>1 DEF TypeOK, Number, RowKept
  <2>5. NumbersBehind'
    BY <1>3, <2>1, AutoIds DEF TypeOK, Number, NumbersBehind, IdFor
  <2>6. QED BY <2>3, <2>4, <2>5
<1>4. ASSUME InsertRefused(r) PROVE Inv'
  <2>1. TypeOK'
    BY <1>4 DEF TypeOK, InsertRefused, Stages, requestVars
  <2>2. NumbersBehind' /\ RowKept'
    BY <1>4 DEF TypeOK, InsertRefused, requestVars, NumbersBehind, RowKept
  <2>3. QED BY <2>1, <2>2
<1>5. ASSUME Disconnect(r) PROVE Inv'
  <2>1. TypeOK'
    BY <1>5 DEF TypeOK, Disconnect, Stages, requestVars
  <2>2. NumbersBehind' /\ RowKept'
    BY <1>5 DEF TypeOK, Disconnect, requestVars, NumbersBehind, RowKept
  <2>3. QED BY <2>1, <2>2
<1>6. QED
  BY <1>1, <1>2, <1>3, <1>4, <1>5

\* An insert appends a row numbered no higher than its position.
LEMMA InsertStep ==
  ASSUME Inv, NEW r \in Requests, Insert(r)
  PROVE  Inv'
<1> DEFINE row == [id |-> packetId[r], request |-> r, packet |-> NoPacket]
<1>1. row \in LogRow /\ row.id = packetId[r] /\ row.request = r /\ row.packet = NoPacket
  BY DEF Inv, TypeOK, Insert, LogRow
<1> HIDE DEF row
<1>2. logs' = Append(logs, row)
  BY DEF Insert, row
<1>3. /\ logs' \in Seq(LogRow) /\ Len(logs') = Len(logs) + 1
      /\ DOMAIN logs' = DOMAIN logs \cup {Len(logs) + 1}
      /\ Len(logs) + 1 \notin DOMAIN logs
      /\ \A i \in DOMAIN logs : logs'[i] = logs[i]
      /\ logs'[Len(logs) + 1] = row
  BY <1>1, <1>2, RowAppended DEF Inv, TypeOK
<1>4. Len(logs) \in Nat
  BY DEF Inv, TypeOK
<1>5. TypeOK'
  BY <1>1, <1>3, <1>4 DEF Inv, TypeOK, Insert, Stages, LastInsertId
<1>7. NumbersBehind'
  BY <1>1, <1>3, <1>4 DEF Inv, TypeOK, Insert, NumbersBehind, IdFor
<1>8. RowKept'
  BY <1>1, <1>3, <1>4 DEF Inv, TypeOK, Insert, RowKept, LastInsertId
<1>9. QED BY <1>5, <1>7, <1>8 DEF Inv

\* An update writes the packet of the request into the request's own row.
LEMMA UpdateStep ==
  ASSUME Inv, NEW r \in Requests, Update(r)
  PROVE  /\ Inv'
         /\ logs[logId[r]].packet = NoPacket
         /\ \A i \in DOMAIN logs \ {logId[r]} : i \in DOMAIN logs' /\ logs'[i] = logs[i]
<1> DEFINE packet == [nodes |-> found[r], log |-> logId[r]]
           k == logId[r]
<1>1. packet \in Packet
  BY DEF Inv, TypeOK, Packet
<1>2. k \in DOMAIN logs /\ logs[k].request = r /\ logs[k].packet = NoPacket
  BY DEF Inv, RowKept, Update
<1>3. logs' = [logs EXCEPT ![k].packet = packet]
  BY DEF Update, UpdatedRow
<1> HIDE DEF packet
<1>4. /\ logs' \in Seq(LogRow) /\ Len(logs') = Len(logs) /\ DOMAIN logs' = DOMAIN logs
      /\ \A j \in DOMAIN logs \ {k} : logs'[j] = logs[j]
      /\ logs'[k].id = logs[k].id /\ logs'[k].request = logs[k].request
      /\ logs'[k].packet = packet
  BY <1>1, <1>2, <1>3, PacketWritten DEF Inv, TypeOK
<1>5. \A i \in DOMAIN logs : logs'[i].id = logs[i].id /\ logs'[i].request = logs[i].request
  BY <1>4
<1>6. TypeOK'
  BY <1>4, <1>5 DEF Inv, TypeOK, Update, Stages, requestVars
<1>8. NumbersBehind'
  BY <1>4, <1>5 DEF Inv, TypeOK, Update, NumbersBehind, requestVars
<1>9. RowKept'
  <2>1. SUFFICES ASSUME NEW q \in Requests, pc'[q] \in {"update", "replied"}
                 PROVE  /\ logId[q] \in DOMAIN logs' /\ logs'[logId[q]].request = q
                        /\ logs'[logId[q]].id = packetId[q]
                        /\ logs'[logId[q]].packet = IF pc'[q] = "update" THEN NoPacket
                             ELSE [nodes |-> found[q], log |-> logId[q]]
    BY DEF RowKept, Update, requestVars
  <2>2. CASE q = r
    BY <1>2, <1>4, <2>2 DEF Inv, TypeOK, Update, RowKept, packet
  <2>3. CASE q # r
    <3>1. pc'[q] = pc[q]
      BY <2>3 DEF Inv, TypeOK, Update
    <3>2. /\ logId[q] \in DOMAIN logs /\ logs[logId[q]].request = q
          /\ logs[logId[q]].id = packetId[q]
          /\ logs[logId[q]].packet = IF pc[q] = "update" THEN NoPacket
               ELSE [nodes |-> found[q], log |-> logId[q]]
      BY <2>1, <3>1 DEF Inv, RowKept
    <3>3. logId[q] # k
      BY <1>2, <2>3, <3>2
    <3>4. logs'[logId[q]] = logs[logId[q]]
      BY <1>4, <3>2, <3>3
    <3>5. QED BY <1>4, <3>1, <3>2, <3>4
  <2>4. QED BY <2>2, <2>3
<1>10. QED BY <1>2, <1>4, <1>6, <1>8, <1>9 DEF Inv

\* The steps that are no request's own: a crash, and a change of an entry.
LEMMA OtherStep ==
  ASSUME Inv, \/ Crash
              \/ \E e \in Entries, s \in StatusInputs : ChangeEntry(e, s)
              \/ UNCHANGED vars
  PROVE  Inv'
<1> USE DEF Inv
<1>1. ASSUME Crash PROVE Inv'
  <2>1. TypeOK'
    BY <1>1 DEF TypeOK, Crash, Stages, InFlight, requestVars
  <2>2. ASSUME NEW i \in DOMAIN logs PROVE logs[i].request \in Requests
    <3>1. logs[i] \in LogRow
      BY DEF TypeOK
    <3>2. QED BY <3>1 DEF LogRow
  <2>3. NumbersBehind'
    BY <1>1, <2>2 DEF TypeOK, Crash, InFlight, requestVars, NumbersBehind
  <2>4. RowKept'
    BY <1>1 DEF TypeOK, Crash, InFlight, requestVars, RowKept
  <2>5. QED BY <2>1, <2>3, <2>4
<1>2. ASSUME NEW e \in Entries, NEW s \in StatusInputs, ChangeEntry(e, s) PROVE Inv'
  <2>1. TypeOK'
    BY <1>2, StatusAssumption DEF TypeOK, ChangeEntry, requestVars
  <2>2. NumbersBehind' /\ RowKept'
    BY <1>2 DEF ChangeEntry, requestVars, NumbersBehind, RowKept
  <2>3. QED BY <2>1, <2>2
<1>3. ASSUME UNCHANGED vars PROVE Inv'
  BY <1>3 DEF vars, TypeOK, NumbersBehind, RowKept
<1>4. QED BY <1>1, <1>2, <1>3

\* Every step keeps the invariant.
LEMMA StepInv == Inv /\ [Next]_vars => Inv'
  BY SilentStep, InsertStep, UpdateStep, OtherStep DEF Next, Serve

\* No step changes a row that has a packet.
LEMMA StepFinal ==
  ASSUME Inv, [Next]_vars, NEW i \in DOMAIN logs, logs[i].packet # NoPacket
  PROVE  i \in DOMAIN logs' /\ logs'[i] = logs[i]
<1>1. CASE \E r \in Requests : Insert(r)
  <2>1. PICK r \in Requests : Insert(r)
    BY <1>1
  <2>2. QED BY <2>1 DEF Inv, TypeOK, Insert
<1>2. CASE \E r \in Requests : Update(r)
  BY <1>2, UpdateStep
<1>3. CASE UNCHANGED logs
  BY <1>3
<1>4. QED
  BY <1>1, <1>2, <1>3 DEF Next, Serve, Receive, Search, Number, InsertRefused, Disconnect,
     Crash, ChangeEntry, vars

\* The invariant implies what the runs check of every state.
LEMMA InvImplies == Inv => ReadBack /\ OnlyChoiceBlocks
<1>1. ASSUME Inv PROVE ReadBack
  BY <1>1 DEF Inv, RowKept, ReadBack
<1>2. ASSUME Inv, NEW i \in DOMAIN logs, logs[i].id = AutoId(Len(logs) + 1),
             asked[logs[i].request] # logs[i].id
      PROVE  FALSE
  <2>1. Len(logs) \in Nat /\ DOMAIN logs = 1..Len(logs)
    BY <1>2 DEF Inv, TypeOK
  <2>2. IdFor(asked[logs[i].request], logs[i].id, i)
    BY <1>2 DEF Inv, NumbersBehind
  <2>3. Len(logs) + 1 <= i
    BY <1>2, <2>1, <2>2 DEF IdFor
  <2>4. QED BY <2>1, <2>3
<1>3. QED BY <1>1, <1>2 DEF OnlyChoiceBlocks

\* The invariant is one of the specification.
LEMMA Invariance == Spec => []Inv
  BY InitInv, StepInv, PTL DEF Spec

\* The variables keep their types, and a request about to write its packet still
\* has the row it inserted (recall.go:130-138).
THEOREM TypeCorrect == Spec => []TypeOK
<1>1. Inv => TypeOK BY DEF Inv
<1>2. QED BY <1>1, Invariance, PTL

\* However many recalls run, are abandoned or crash between the INSERT and the
\* UPDATE, a packet that was returned is the one its log row holds (recall.go:130-143).
THEOREM RepliesAreLogged == Spec => []ReadBack
<1>1. Inv => ReadBack BY InvImplies
<1>2. QED BY <1>1, Invariance, PTL

\* The id the next count gives is taken, if at all, by a row whose caller chose it,
\* whatever ids callers choose (recall.go:118-123).
THEOREM ChoicesAloneBlock == Spec => []OnlyChoiceBlocks
<1>1. Inv => OnlyChoiceBlocks BY InvImplies
<1>2. QED BY <1>1, Invariance, PTL

\* No log row that holds a packet is ever written again (recall.go:138-139).
THEOREM PacketsFinal == Spec => PacketsAreFinal
<1> DEFINE Kept == \A i \in DOMAIN logs : logs[i].packet # NoPacket =>
                     i \in DOMAIN logs' /\ logs'[i] = logs[i]
<1>1. Inv /\ [Next]_vars => [Kept]_logs
  BY StepFinal
<1>2. QED BY <1>1, Invariance, PTL DEF Spec, PacketsAreFinal

=============================================================================
