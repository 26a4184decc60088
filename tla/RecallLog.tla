----------------------------- MODULE RecallLog ------------------------------
(***************************************************************************)
(* POST /api/recall and the recall log.  The handler runs no transaction:  *)
(* it searches, counts the log rows to number its packet, inserts a log    *)
(* row with an empty packet and then writes the packet into the row, each  *)
(* a statement of its own on the one connection, so other requests, a      *)
(* disconnected caller or a crash may come between any two.                *)
(***************************************************************************)
EXTENDS Naturals, Sequences

CONSTANTS
  Requests,     \* recall requests, each served at most once
  CallerIds,    \* packet_ids callers choose, of any form: nothing checks them
  NoId,         \* no packet_id in the payload
  Entries,      \* memory entries
  StatusInputs, \* statuses entries are given while recalls run
  NoPacket      \* packet_json before it is written: '{}'

\* "recall-<n>"
AutoId(n) == <<"recall", n>>
PacketIds == CallerIds \cup ({"recall"} \X Nat)

ASSUME NoIdAssumption == NoId \notin PacketIds

EntryStatuses == {"draft", "active", "disputed", "superseded", "deprecated",
                  "archived"}
ASSUME StatusAssumption == StatusInputs \subseteq EntryStatuses /\ "active" \in StatusInputs

VARIABLES
  status,   \* memory_entries.status
  logs,     \* recall_logs
  pc,       \* where each request is
  asked,    \* the packet_id of its payload, which request_json of its log row keeps
  packetId, \* its packetID
  found,    \* the entries it includes
  logId     \* its logID

vars == <<status, logs, pc, asked, packetId, found, logId>>
requestVars == <<asked, packetId, found, logId>>

\* What is stored in packet_json and returned: the entries, and the log row's id
\* that is only known once the row is there.
Packet == [nodes: SUBSET Entries, log: Nat]
LogRow == [id: PacketIds, request: Requests, packet: Packet \cup {NoPacket}]
Stages == {"idle", "search", "number", "insert", "update", "replied", "failed", "lost"}
InFlight == {"search", "number", "insert", "update"}

ASSUME NoPacketAssumption == NoPacket \notin Packet

Init ==
  /\ status \in [Entries -> StatusInputs]
  /\ logs = <<>>
  /\ pc = [r \in Requests |-> "idle"]
  /\ asked = [r \in Requests |-> NoId]
  /\ packetId = [r \in Requests |-> NoId]
  /\ found = [r \in Requests |-> {}]
  /\ logId = [r \in Requests |-> 0]

Receive(r, id) ==
  /\ pc[r] = "idle"
  /\ pc' = [pc EXCEPT ![r] = "search"]
  /\ asked' = [asked EXCEPT ![r] = id]
  /\ UNCHANGED <<status, logs, packetId, found, logId>>

\* excludedEntryStatuses
Excluded == {"superseded", "deprecated", "archived"}

\* The reads that find, filter and score entries, up to the choice of the packet
\* id; matched is what the query, the scope and the token budget leave.
Search(r, matched) ==
  /\ pc[r] = "search"
  /\ found' = [found EXCEPT ![r] = {e \in matched : status[e] \notin Excluded}]
  /\ packetId' = [packetId EXCEPT ![r] = asked[r]]
  /\ pc' = [pc EXCEPT ![r] = IF asked[r] = NoId THEN "number" ELSE "insert"]
  /\ UNCHANGED <<status, logs, asked, logId>>

\* Mutant: the count is taken one too high.
SkippingIds == {AutoId(Len(logs) + 2)}

\* SELECT COUNT(*), plus one.  The error of a count that fails is dropped and
\* leaves the count 0.
CountedIds == {AutoId(Len(logs) + 1), AutoId(1)}

Number(r) ==
  /\ pc[r] = "number"
  /\ \E id \in CountedIds : packetId' = [packetId EXCEPT ![r] = id]
  /\ pc' = [pc EXCEPT ![r] = "insert"]
  /\ UNCHANGED <<status, logs, asked, found, logId>>

UsedIds == {logs[i].id : i \in DOMAIN logs}

\* Mutant: the number of rows there were before the insert.
RowsBefore == Len(logs)

\* LastInsertId of a row appended to recall_logs.
LastInsertId == Len(logs) + 1

Insert(r) ==
  /\ pc[r] = "insert"
  /\ packetId[r] \notin UsedIds
  /\ logs' = Append(logs, [id |-> packetId[r], request |-> r, packet |-> NoPacket])
  /\ logId' = [logId EXCEPT ![r] = LastInsertId]
  /\ pc' = [pc EXCEPT ![r] = "update"]
  /\ UNCHANGED <<status, asked, packetId, found>>

\* Mutant: the insert is tried again with the same id.
InsertRetried(r) ==
  /\ pc[r] = "insert"
  /\ packetId[r] \in UsedIds
  /\ UNCHANGED vars

\* packet_id is UNIQUE: the request is answered 400, and not tried again.
InsertRefused(r) ==
  /\ pc[r] = "insert"
  /\ packetId[r] \in UsedIds
  /\ pc' = [pc EXCEPT ![r] = "failed"]
  /\ UNCHANGED <<status, logs, requestVars>>

\* Mutant: the row updated is the newest one.
NewestRow(r) == Len(logs)

\* UPDATE ... WHERE id = logID
UpdatedRow(r) == logId[r]

Update(r) ==
  /\ pc[r] = "update"
  /\ logs' = [logs EXCEPT ![UpdatedRow(r)].packet = [nodes |-> found[r], log |-> logId[r]]]
  /\ pc' = [pc EXCEPT ![r] = "replied"]
  /\ UNCHANGED <<status, requestVars>>

\* The caller goes away: the request's context is cancelled, its next write fails.
Disconnect(r) ==
  /\ pc[r] \in InFlight
  /\ pc' = [pc EXCEPT ![r] = "lost"]
  /\ UNCHANGED <<status, logs, requestVars>>

\* The process stops: every request under way is lost, the log stays.
Crash ==
  /\ \E r \in Requests : pc[r] \in InFlight
  /\ pc' = [r \in Requests |-> IF pc[r] \in InFlight THEN "lost" ELSE pc[r]]
  /\ UNCHANGED <<status, logs, requestVars>>

\* Any handler that sets an entry's status.
ChangeEntry(e, s) ==
  /\ status' = [status EXCEPT ![e] = s]
  /\ UNCHANGED <<logs, pc, requestVars>>

Serve(r) ==
  \/ \E matched \in SUBSET Entries : Search(r, matched)
  \/ Number(r)
  \/ Insert(r)
  \/ InsertRefused(r)
  \/ Update(r)

Next ==
  \/ \E r \in Requests :
       \/ \E id \in CallerIds \cup {NoId} : Receive(r, id)
       \/ Serve(r)
       \/ Disconnect(r)
  \/ Crash
  \/ \E e \in Entries, s \in StatusInputs : ChangeEntry(e, s)

Spec == Init /\ [][Next]_vars

\* net/http runs every handler in its own goroutine, and a statement waits for the
\* connection no longer than the other statements and transactions take.
FairSpec == Spec /\ \A r \in Requests : WF_vars(Serve(r))

(***************************************************************************)
(* Properties.                                                             *)
(***************************************************************************)

\* Each variable has its type, and a request about to write its packet has the
\* row it inserted (001_v0_schema.sql:170-183, recall.go:130-138).
TypeOK ==
  /\ status \in [Entries -> EntryStatuses]
  /\ logs \in Seq(LogRow)
  /\ pc \in [Requests -> Stages]
  /\ asked \in [Requests -> CallerIds \cup {NoId}]
  /\ packetId \in [Requests -> PacketIds \cup {NoId}]
  /\ found \in [Requests -> SUBSET Entries]
  /\ logId \in [Requests -> Nat]
  /\ \A r \in Requests : pc[r] = "insert" => packetId[r] # NoId
  /\ \A r \in Requests : pc[r] = "update" =>
       logId[r] \in DOMAIN logs /\ logs[logId[r]].request = r

\* Whatever ran in between, a packet the caller got is the one that
\* GET /api/recall-logs/by-packet/{packet_id} returns (recall.go:130-143).
ReadBack ==
  \A r \in Requests : pc[r] = "replied" =>
    \E i \in DOMAIN logs :
      /\ logs[i].id = packetId[r]
      /\ logs[i].packet = [nodes |-> found[r], log |-> i]

\* A logged packet is never replaced: the log row shows what was recalled then,
\* for the UPDATE names the row by the id its own INSERT returned (recall.go:139).
PacketsAreFinal ==
  [][\A i \in DOMAIN logs : logs[i].packet # NoPacket =>
       i \in DOMAIN logs' /\ logs'[i] = logs[i]]_logs

\* The number the next count gives is taken only by a row whose caller chose that
\* very id; recall.go:118 takes any packet_id, so this does happen, and then every
\* recall that counts is refused until another row is logged.  The rows that the
\* service numbered never get in the way, whatever concurrent, cancelled or crashed
\* recalls and failed counts left behind (recall.go:118-130).
OnlyChoiceBlocks ==
  \A i \in DOMAIN logs :
    logs[i].id = AutoId(Len(logs) + 1) => asked[logs[i].request] = logs[i].id

\* A recall is answered, refused or abandoned in the end: no id it counts or is
\* given keeps it trying (recall.go:130-144).
Answered ==
  \A r \in Requests : pc[r] = "search" ~> pc[r] \in {"replied", "failed", "lost"}

\* What contracts/v0/tools.json says of recall: that it returns active entries.
RecallReturnsActive ==
  [][\A r \in Requests : pc[r] = "search" /\ pc'[r] \in {"number", "insert"} =>
       \A e \in found'[r] : status[e] = "active"]_vars

=============================================================================
