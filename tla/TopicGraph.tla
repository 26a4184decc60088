----------------------------- MODULE TopicGraph -----------------------------
(***************************************************************************)
(* Topic nodes and edges with the curation events about them.  Each action *)
(* is a handler's one transaction; a request the code or the schema        *)
(* refuses rolls back and changes nothing.                                 *)
(***************************************************************************)
EXTENDS Naturals, Sequences, FiniteSets

CONSTANTS
  Slugs,     \* slugs
  Titles,    \* titles, standing for the rest of the indexed text
  Relations, \* relations, each with the hash of its condition
  MaxNodes,  \* bound on topic_nodes
  MaxEdgeId, \* bound on the row ids of topic_edges
  MaxEvents, \* bound on curation_events
  NoRow      \* '{}' for the before or after of an event

VARIABLES
  nodes,   \* topic_nodes
  nodeFts, \* topic_nodes_fts: what is indexed for each row
  edges,   \* topic_edges
  events   \* curation_events of nodes and edges

vars == <<nodes, nodeFts, edges, events>>

\* Row ids of nodes, which are never deleted.
NodeIds == 1..Len(nodes)
NodeRow == [slug : Slugs, title : Titles]
EdgeRow == [id : Nat \ {0}, from : Nat \ {0}, to : Nat \ {0}, relation : Relations]
ASSUME NoRowAssumption == NoRow \notin NodeRow \cup EdgeRow

\* node and edge are the id columns, 0 for NULL.
EventRow == [action : {"relabel", "link", "unlink"}, node : Nat, edge : Nat,
             before : NodeRow \cup EdgeRow \cup {NoRow},
             after : NodeRow \cup EdgeRow \cup {NoRow}]

Init ==
  /\ nodes = <<>>
  /\ nodeFts = <<>>
  /\ edges = {}
  /\ events = <<>>

-----------------------------------------------------------------------------

CreateNode(row) ==
  /\ Len(nodes) < MaxNodes
  /\ \A n \in NodeIds : nodes[n].slug # row.slug
  /\ nodes' = Append(nodes, row)
  /\ nodeFts' = Append(nodeFts, row)
  /\ UNCHANGED <<edges, events>>

\* Mutant: the index row is not rewritten.
KeptFts(n, merged) == nodeFts

\* Mutant: the new index row is added to the old one.
AddedFts(n, merged) == Append(nodeFts, merged)

\* refreshNodeFTS
RefreshedFts(n, merged) == [nodeFts EXCEPT ![n] = merged]

\* merged is the payload over the row.  The index and the log get all of it, the row
\* does not get its slug.
UpdateNode(n, merged) ==
  /\ Len(events) < MaxEvents
  /\ nodes' = [nodes EXCEPT ![n].title = merged.title]
  /\ nodeFts' = RefreshedFts(n, merged)
  /\ events' = Append(events, [action |-> "relabel", node |-> n, edge |-> 0,
                               before |-> nodes[n], after |-> merged])
  /\ UNCHANGED edges

\* INTEGER PRIMARY KEY without AUTOINCREMENT: one more than the largest id in the
\* table, so that the id of the newest edge is given again once it is deleted.
NewEdgeId(id) ==
  /\ \A e \in edges : e.id < id
  /\ id = 1 \/ \E e \in edges : e.id + 1 = id

\* UNIQUE(from_node_id, to_node_id, relation, condition_hash)
Unlinked(m, n, r) == \A e \in edges : <<e.from, e.to, e.relation>> # <<m, n, r>>

CreateEdge(m, n, r) ==
  /\ Len(events) < MaxEvents
  /\ Unlinked(m, n, r)
  /\ \E id \in 1..MaxEdgeId :
       /\ NewEdgeId(id)
       /\ LET e == [id |-> id, from |-> m, to |-> n, relation |-> r]
          IN /\ edges' = edges \cup {e}
             /\ events' = Append(events, [action |-> "link", node |-> 0, edge |-> id,
                                          before |-> NoRow, after |-> e])
  /\ UNCHANGED <<nodes, nodeFts>>

\* Mutant: edge_id without ON DELETE SET NULL.
KeptEdgeId(ev, e) == ev

\* edge_id INTEGER REFERENCES topic_edges(id) ON DELETE SET NULL
ForgetEdge(ev, e) == IF ev.edge = e.id THEN [ev EXCEPT !.edge = 0] ELSE ev

\* Mutant: the row is read for the log after it was deleted.
UnlinkReadLate(e) ==
  [action |-> "unlink", node |-> 0, edge |-> e.id, before |-> NoRow, after |-> NoRow]

UnlinkEvent(e) ==
  [action |-> "unlink", node |-> 0, edge |-> e.id, before |-> e, after |-> NoRow]

\* The event is logged first, with the id of the edge, and then loses it like all
\* the others that name the edge.
DeleteEdge(e) ==
  /\ Len(events) < MaxEvents
  /\ edges' = edges \ {e}
  /\ events' = [k \in 1..(Len(events) + 1) |->
                  ForgetEdge(Append(events, UnlinkEvent(e))[k], e)]
  /\ UNCHANGED <<nodes, nodeFts>>

Next ==
  \/ \E row \in NodeRow : CreateNode(row)
  \/ \E n \in NodeIds, merged \in NodeRow : UpdateNode(n, merged)
  \/ \E m \in NodeIds, n \in NodeIds, r \in Relations : CreateEdge(m, n, r)
  \/ \E e \in edges : DeleteEdge(e)

Spec == Init /\ [][Next]_vars

-----------------------------------------------------------------------------
(* Properties.                                                             *)

TypeOK ==
  /\ nodes \in Seq(NodeRow)
  /\ nodeFts \in Seq(NodeRow)
  /\ Len(nodeFts) = Len(nodes)
  /\ edges \subseteq EdgeRow
  /\ events \in Seq(EventRow)

\* An event that still has an edge id names the very edge it was logged for,
\* although row ids are given again.
EdgeIdsCurrent ==
  \A k \in 1..Len(events) : events[k].edge # 0 =>
    events[k].action = "link" /\ events[k].after \in edges
      /\ events[k].after.id = events[k].edge

\* Events k and j are about the same node.
SameNode(k, j) ==
  events[k].action = "relabel" /\ events[j].action = "relabel"
    /\ events[k].node = events[j].node

\* The before and after of the events, without the ids the schema erases, still
\* tell the graph's history: the present edges are those linked and not unlinked
\* since, and each relabel of a node starts from the title the last one left it.
GraphReplay ==
  /\ edges = {events[k].after : k \in {k \in 1..Len(events) :
                events[k].action = "link"
                  /\ \A j \in k..Len(events) :
                       ~(events[j].action = "unlink" /\ events[j].before = events[k].after)}}
  /\ \A k \in 1..Len(events) : events[k].action = "relabel" =>
       \/ nodes[events[k].node].title = events[k].after.title
       \/ \E j \in (k + 1)..Len(events) :
            SameNode(k, j) /\ events[j].before.title = events[k].after.title

\* A search finds a node by its present title, and by its slug unless an update gave
\* another one: then it finds it by that one, which only the log tells.
NodeFtsInSync ==
  \A n \in NodeIds :
    /\ nodeFts[n].title = nodes[n].title
    /\ nodeFts[n] = nodes[n]
         \/ \E k \in 1..Len(events) :
              /\ events[k].action = "relabel" /\ events[k].node = n
              /\ events[k].after = nodeFts[n]

=============================================================================
