-------------------------- MODULE TopicGraphProofs --------------------------
(***************************************************************************)
(* Proofs about TopicGraph: types, the index, the edge ids of events, and  *)
(* the graph rebuilt from its log.                                         *)
(***************************************************************************)
EXTENDS TopicGraph, TLAPS

\* The events after a step are those before it, in the same places and with the
\* same action, node, before and after.
EventsKept ==
  /\ Len(events) <= Len(events')
  /\ \A k \in 1..Len(events) :
       /\ events'[k].action = events[k].action
       /\ events'[k].node = events[k].node
       /\ events'[k].before = events[k].before
       /\ events'[k].after = events[k].after

\* The index stays in step when neither table changes and the events are kept.
LEMMA FtsKept ==
  ASSUME TypeOK, TypeOK', NodeFtsInSync, EventsKept, UNCHANGED <<nodes, nodeFts>>
  PROVE NodeFtsInSync'
<1> SUFFICES ASSUME NEW n \in 1..Len(nodes)
             PROVE /\ nodeFts[n].title = nodes[n].title
                   /\ nodeFts[n] = nodes[n]
                        \/ \E k \in 1..Len(events') :
                             /\ events'[k].action = "relabel" /\ events'[k].node = n
                             /\ events'[k].after = nodeFts[n]
  BY DEF NodeFtsInSync, NodeIds
<1>1. CASE nodeFts[n] = nodes[n]
  BY <1>1
<1>2. CASE \E k \in 1..Len(events) :
             /\ events[k].action = "relabel" /\ events[k].node = n
             /\ events[k].after = nodeFts[n]
  <2>1. PICK k \in 1..Len(events) : /\ events[k].action = "relabel" /\ events[k].node = n
                                    /\ events[k].after = nodeFts[n]
    BY <1>2
  <2>2. k \in 1..Len(events')
    BY DEF TypeOK, EventsKept
  <2> QED
    BY <2>1, <2>2, <1>2 DEF EventsKept, NodeFtsInSync, NodeIds
<1> QED
  BY <1>1, <1>2 DEF NodeFtsInSync, NodeIds

\* A new node is indexed as it is.
LEMMA CreateNodeStep ==
  ASSUME TypeOK, NodeFtsInSync, NEW row \in NodeRow, CreateNode(row)
  PROVE TypeOK' /\ NodeFtsInSync'
<1>1. /\ nodes' = Append(nodes, row) /\ nodeFts' = Append(nodeFts, row)
      /\ UNCHANGED <<edges, events>>
  BY DEF CreateNode
<1>2. TypeOK'
  BY <1>1 DEF TypeOK
<1>3. NodeFtsInSync'
  BY <1>1 DEF NodeFtsInSync, NodeIds, TypeOK
<1> QED
  BY <1>2, <1>3

\* An update writes the title and the index row together and logs what it indexed.
LEMMA UpdateNodeStep ==
  ASSUME TypeOK, NodeFtsInSync, NEW n \in NodeIds, NEW merged \in NodeRow,
         UpdateNode(n, merged)
  PROVE TypeOK' /\ NodeFtsInSync' /\ EventsKept
<1> DEFINE ev == [action |-> "relabel", node |-> n, edge |-> 0,
                  before |-> nodes[n], after |-> merged]
<1>1. /\ ev \in EventRow
      /\ ev.action = "relabel" /\ ev.node = n /\ ev.after = merged
  BY DEF EventRow, TypeOK, NodeIds
<1>2. /\ nodes' = [nodes EXCEPT ![n].title = merged.title]
      /\ nodeFts' = [nodeFts EXCEPT ![n] = merged]
      /\ events' = Append(events, ev)
      /\ edges' = edges
  BY DEF UpdateNode, RefreshedFts
<1> HIDE DEF ev
<1>3. /\ events' \in Seq(EventRow) /\ Len(events') = Len(events) + 1
      /\ events'[Len(events) + 1] = ev
      /\ \A k \in 1..Len(events) : events'[k] = events[k]
      /\ Len(events) \in Nat
  BY <1>1, <1>2 DEF TypeOK
<1> DEFINE row == [nodes[n] EXCEPT !.title = merged.title]
<1>4. row \in NodeRow /\ row.title = merged.title
  <2>1. nodes[n] \in NodeRow
    BY DEF TypeOK, NodeIds
  <2> QED
    BY <2>1 DEF NodeRow
<1>11. nodes' = [nodes EXCEPT ![n] = row]
  BY <1>2
<1> HIDE DEF row
<1>5. /\ nodes' \in Seq(NodeRow) /\ Len(nodes') = Len(nodes)
      /\ nodes'[n].title = merged.title
      /\ \A m \in NodeIds : m # n => nodes'[m] = nodes[m]
  BY <1>11, <1>4 DEF TypeOK, NodeIds
<1>6. /\ nodeFts' \in Seq(NodeRow) /\ Len(nodeFts') = Len(nodeFts)
      /\ nodeFts'[n] = merged
      /\ \A m \in NodeIds : m # n => nodeFts'[m] = nodeFts[m]
  BY <1>2 DEF TypeOK, NodeIds
<1>7. TypeOK'
  BY <1>2, <1>3, <1>5, <1>6 DEF TypeOK
<1>8. EventsKept
  BY <1>3 DEF EventsKept
<1>9. NodeFtsInSync'
  <2> SUFFICES ASSUME NEW m \in NodeIds
               PROVE /\ nodeFts'[m].title = nodes'[m].title
                     /\ nodeFts'[m] = nodes'[m]
                          \/ \E k \in 1..Len(events') :
                               /\ events'[k].action = "relabel" /\ events'[k].node = m
                               /\ events'[k].after = nodeFts'[m]
    BY <1>5 DEF NodeFtsInSync, NodeIds
  <2>1. CASE m = n
    BY <1>1, <1>3, <1>5, <1>6, <2>1
  <2>2. CASE m # n
    <3>1. nodeFts'[m] = nodeFts[m] /\ nodes'[m] = nodes[m]
      BY <1>5, <1>6, <2>2
    <3>2. 1..Len(events) \subseteq 1..Len(events')
      BY <1>3
    <3> QED
      BY <1>3, <3>1, <3>2 DEF NodeFtsInSync
  <2> QED
    BY <2>1, <2>2
<1> QED
  BY <1>7, <1>8, <1>9

\* The event of a new edge names it by the id it got.
LEMMA CreateEdgeStep ==
  ASSUME TypeOK, NEW m \in NodeIds, NEW n \in NodeIds, NEW r \in Relations,
         CreateEdge(m, n, r)
  PROVE TypeOK' /\ EventsKept /\ (EdgeIdsCurrent => EdgeIdsCurrent')
<1>1. PICK id \in 1..MaxEdgeId :
        LET e == [id |-> id, from |-> m, to |-> n, relation |-> r]
        IN /\ edges' = edges \cup {e}
           /\ events' = Append(events, [action |-> "link", node |-> 0, edge |-> id,
                                        before |-> NoRow, after |-> e])
  BY DEF CreateEdge
<1> DEFINE e == [id |-> id, from |-> m, to |-> n, relation |-> r]
           ev == [action |-> "link", node |-> 0, edge |-> id, before |-> NoRow, after |-> e]
<1>2. e \in EdgeRow /\ e.id = id
  BY DEF EdgeRow, NodeIds, TypeOK
<1>3. ev \in EventRow /\ ev.action = "link" /\ ev.edge = id /\ ev.after = e
  BY <1>2 DEF EventRow
<1>4. edges' = edges \cup {e} /\ events' = Append(events, ev)
  BY <1>1
<1> HIDE DEF e, ev
<1>5. TypeOK'
  BY <1>2, <1>3, <1>4 DEF TypeOK, CreateEdge
<1>6. ASSUME EdgeIdsCurrent PROVE EdgeIdsCurrent'
  BY <1>2, <1>3, <1>4, <1>6 DEF EdgeIdsCurrent, TypeOK
<1>7. EventsKept
  BY <1>3, <1>4 DEF EventsKept, TypeOK
<1> QED
  BY <1>5, <1>6, <1>7

\* Deleting an edge erases its id from every event and leaves the others alone.
LEMMA DeleteEdgeStep ==
  ASSUME TypeOK, NEW e \in edges, DeleteEdge(e)
  PROVE TypeOK' /\ EventsKept /\ (EdgeIdsCurrent => EdgeIdsCurrent')
<1> DEFINE all == Append(events, UnlinkEvent(e))
<1>1. e \in EdgeRow /\ e.id # 0
  BY DEF TypeOK, EdgeRow
<1>2. /\ UnlinkEvent(e) \in EventRow
      /\ UnlinkEvent(e).edge = e.id
  BY <1>1 DEF UnlinkEvent, EventRow, EdgeRow
<1>3. /\ all \in Seq(EventRow) /\ Len(all) = Len(events) + 1
      /\ \A k \in 1..Len(events) : all[k] = events[k]
      /\ all[Len(events) + 1] = UnlinkEvent(e)
  BY <1>2 DEF TypeOK
<1> HIDE DEF all
<1>4. ASSUME NEW ev \in EventRow
      PROVE /\ ForgetEdge(ev, e) \in EventRow
            /\ ForgetEdge(ev, e).edge # e.id
            /\ ForgetEdge(ev, e).edge # 0 => ForgetEdge(ev, e) = ev
            /\ ForgetEdge(ev, e).action = ev.action
            /\ ForgetEdge(ev, e).node = ev.node
            /\ ForgetEdge(ev, e).before = ev.before
            /\ ForgetEdge(ev, e).after = ev.after
  BY <1>1 DEF ForgetEdge, EventRow
<1>5. events' = [k \in 1..(Len(events) + 1) |-> ForgetEdge(all[k], e)]
  BY DEF DeleteEdge, all
<1>6. /\ Len(events') = Len(events) + 1
      /\ events' \in Seq(EventRow)
      /\ \A k \in 1..(Len(events) + 1) : events'[k] = ForgetEdge(all[k], e)
  BY <1>3, <1>4, <1>5 DEF TypeOK
<1>7. TypeOK'
  BY <1>6 DEF TypeOK, DeleteEdge
<1>8. ASSUME EdgeIdsCurrent PROVE EdgeIdsCurrent'
  <2> SUFFICES ASSUME NEW k \in 1..Len(events'), events'[k].edge # 0
               PROVE /\ events'[k].action = "link" /\ events'[k].after \in edges'
                     /\ events'[k].after.id = events'[k].edge
    BY DEF EdgeIdsCurrent
  <2>1. events'[k] = all[k] /\ events'[k].edge # e.id
    BY <1>3, <1>4, <1>6
  <2>2. k \in 1..Len(events) /\ events'[k] = events[k]
    BY <1>2, <1>3, <1>6, <2>1 DEF TypeOK
  <2>3. events[k].action = "link" /\ events[k].after \in edges
          /\ events[k].after.id = events[k].edge
    BY <1>8, <2>2 DEF EdgeIdsCurrent
  <2> QED
    BY <2>1, <2>2, <2>3 DEF DeleteEdge
<1>9. EventsKept
  <2>1. Len(events) \in Nat /\ \A k \in 1..Len(events) : events[k] \in EventRow
    BY DEF TypeOK
  <2> QED
    BY <1>3, <1>4, <1>6, <2>1 DEF EventsKept
<1> QED
  BY <1>7, <1>8, <1>9

\* What all three theorems rest on.
Inv == TypeOK /\ EdgeIdsCurrent /\ NodeFtsInSync

\* The invariant holds initially and is kept by every step.
LEMMA SpecInv == Spec => []Inv
<1>1. Init => Inv
  BY DEF Init, Inv, TypeOK, EdgeIdsCurrent, NodeFtsInSync, NodeIds
<1>2. Inv /\ [Next]_vars => Inv'
  <2> SUFFICES ASSUME Inv, [Next]_vars PROVE Inv'
    OBVIOUS
  <2>1. ASSUME NEW row \in NodeRow, CreateNode(row) PROVE Inv'
    <3>1. TypeOK' /\ NodeFtsInSync'
      BY <2>1, CreateNodeStep DEF Inv
    <3>2. EdgeIdsCurrent'
      BY <2>1 DEF CreateNode, Inv, EdgeIdsCurrent
    <3> QED
      BY <3>1, <3>2 DEF Inv
  <2>2. ASSUME NEW n \in NodeIds, NEW merged \in NodeRow, UpdateNode(n, merged) PROVE Inv'
    <3>1. TypeOK' /\ NodeFtsInSync'
      BY <2>2, UpdateNodeStep DEF Inv
    <3>2. /\ edges' = edges /\ Len(events') = Len(events) + 1
          /\ \A k \in 1..Len(events) : events'[k] = events[k]
          /\ events'[Len(events) + 1].edge = 0
          /\ Len(events) \in Nat
      BY <2>2 DEF UpdateNode, Inv, TypeOK
    <3>3. EdgeIdsCurrent'
      BY <3>2 DEF Inv, EdgeIdsCurrent
    <3> QED
      BY <3>1, <3>3 DEF Inv
  <2>3. ASSUME NEW m \in NodeIds, NEW n \in NodeIds, NEW r \in Relations, CreateEdge(m, n, r)
        PROVE Inv'
    <3>1. TypeOK' /\ EventsKept /\ EdgeIdsCurrent'
      BY <2>3, CreateEdgeStep DEF Inv
    <3>2. NodeFtsInSync'
      BY <2>3, <3>1, FtsKept DEF CreateEdge, Inv
    <3> QED
      BY <3>1, <3>2 DEF Inv
  <2>4. ASSUME NEW e \in edges, DeleteEdge(e) PROVE Inv'
    <3>1. TypeOK' /\ EventsKept /\ EdgeIdsCurrent'
      BY <2>4, DeleteEdgeStep DEF Inv
    <3>2. NodeFtsInSync'
      BY <2>4, <3>1, FtsKept DEF DeleteEdge, Inv
    <3> QED
      BY <3>1, <3>2 DEF Inv
  <2>5. CASE UNCHANGED vars
    BY <2>5 DEF vars, Inv, TypeOK, EdgeIdsCurrent, NodeFtsInSync, NodeIds
  <2> QED
    BY <2>1, <2>2, <2>3, <2>4, <2>5 DEF Next
<1> QED
  BY <1>1, <1>2, PTL DEF Spec

\* The tables hold rows of their types.
THEOREM TypeCorrect == Spec => []TypeOK
<1>1. Inv => TypeOK
  BY DEF Inv
<1> QED
  BY <1>1, SpecInv, PTL

\* However often row ids are given again, an event's edge id is its edge's.
THEOREM EventsNameTheirEdge == Spec => []EdgeIdsCurrent
<1>1. Inv => EdgeIdsCurrent
  BY DEF Inv
<1> QED
  BY <1>1, SpecInv, PTL

\* The index of the nodes has their present titles, and no slug that neither the
\* node nor a logged update of it has.
THEOREM NodesAreFound == Spec => []NodeFtsInSync
<1>1. Inv => NodeFtsInSync
  BY DEF Inv
<1> QED
  BY <1>1, SpecInv, PTL

(***************************************************************************)
(* The graph is what its log tells.                                        *)
(***************************************************************************)

\* Event k linked an edge that no event unlinked since.
Live(k) ==
  /\ events[k].action = "link"
  /\ \A j \in k..Len(events) :
       ~(events[j].action = "unlink" /\ events[j].before = events[k].after)

EdgesReplay == edges = {events[k].after : k \in {k \in 1..Len(events) : Live(k)}}

\* The title event k gave its node is its present one, or where a later one starts.
TitleReplay(k) ==
  \/ nodes[events[k].node].title = events[k].after.title
  \/ \E j \in (k + 1)..Len(events) :
       SameNode(k, j) /\ events[j].before.title = events[k].after.title

TitlesReplay ==
  \A k \in 1..Len(events) : events[k].action = "relabel" =>
    events[k].node \in NodeIds /\ TitleReplay(k)

\* A step that logs no link and no unlink, and writes no edge.
LEMMA EdgesReplayKept ==
  ASSUME TypeOK, TypeOK', EventsKept, EdgesReplay, UNCHANGED edges,
         \A k \in 1..Len(events') : k \notin 1..Len(events) => events'[k].action = "relabel"
  PROVE  EdgesReplay'
<1>1. Len(events) \in Nat /\ Len(events') \in Nat /\ Len(events) <= Len(events')
  BY DEF TypeOK, EventsKept
<1>2. \A k \in 1..Len(events) : Live(k)' <=> Live(k)
  BY <1>1 DEF Live, EventsKept
<1>3. \A k \in 1..Len(events') : Live(k)' => k \in 1..Len(events)
  BY <1>1 DEF Live
<1>4. {events'[k].after : k \in {k \in 1..Len(events') : Live(k)'}}
        = {events[k].after : k \in {k \in 1..Len(events) : Live(k)}}
  BY <1>1, <1>2, <1>3 DEF EventsKept
<1> QED
  BY <1>4 DEF EdgesReplay

\* A step that logs no relabel and writes no title.
LEMMA TitlesReplayKept ==
  ASSUME TypeOK, TypeOK', EventsKept, TitlesReplay, NodeIds \subseteq NodeIds',
         \A n \in NodeIds : nodes'[n] = nodes[n],
         \A k \in 1..Len(events') : k \notin 1..Len(events) => events'[k].action # "relabel"
  PROVE  TitlesReplay'
<1>1. Len(events) \in Nat /\ Len(events') \in Nat /\ Len(events) <= Len(events')
  BY DEF TypeOK, EventsKept
<1>2. SUFFICES ASSUME NEW k \in 1..Len(events'), events'[k].action = "relabel"
               PROVE  events'[k].node \in NodeIds' /\ TitleReplay(k)'
  BY DEF TitlesReplay
<1>3. k \in 1..Len(events) /\ events[k].action = "relabel"
  BY <1>2 DEF EventsKept
<1>4. events[k].node \in NodeIds /\ TitleReplay(k)
  BY <1>3 DEF TitlesReplay
<1>5. \A j \in (k + 1)..Len(events) : SameNode(k, j) => SameNode(k, j)'
  BY <1>1, <1>3 DEF SameNode, EventsKept
<1>6. \A j \in (k + 1)..Len(events) : j \in 1..Len(events) /\ j \in (k + 1)..Len(events')
  BY <1>1, <1>3
<1> QED
  BY <1>3, <1>4, <1>5, <1>6 DEF TitleReplay, EventsKept

\* An update logs the title it found and the one it wrote.
LEMMA UpdateNodeReplay ==
  ASSUME TypeOK, TypeOK', NodeFtsInSync, EdgesReplay, TitlesReplay,
         NEW n \in NodeIds, NEW merged \in NodeRow, UpdateNode(n, merged)
  PROVE  EdgesReplay' /\ TitlesReplay'
<1>0. PICK last \in Nat : last = Len(events) + 1
  BY DEF TypeOK
<1> USE <1>0
<1>1. EventsKept
  BY UpdateNodeStep
<1>2. /\ Len(events') = last /\ Len(events) \in Nat /\ NodeIds' = NodeIds
      /\ events'[last].action = "relabel" /\ events'[last].node = n
      /\ events'[last].before = nodes[n] /\ events'[last].after = merged
      /\ UNCHANGED edges
  BY DEF UpdateNode, TypeOK, NodeIds
<1>3. \A m \in NodeIds :
        nodes'[m].title = IF m = n THEN merged.title ELSE nodes[m].title
  <2>1. \A m \in NodeIds : nodes[m] \in NodeRow
    BY DEF TypeOK, NodeIds
  <2> QED
    BY <2>1 DEF UpdateNode, NodeRow, TypeOK, NodeIds
<1>4. EdgesReplay'
  <2>1. \A k \in 1..Len(events') : k \notin 1..Len(events) => events'[k].action = "relabel"
    BY <1>2
  <2> QED
    BY <1>1, <1>2, <2>1, EdgesReplayKept
<1>5. TitlesReplay'
  <2>1. SUFFICES ASSUME NEW k \in 1..Len(events'), events'[k].action = "relabel"
                 PROVE  events'[k].node \in NodeIds' /\ TitleReplay(k)'
    BY DEF TitlesReplay
  <2>2. CASE k = last
    BY <1>2, <1>3, <2>2 DEF TitleReplay
  <2>3. CASE k # last
    <3>1. /\ k \in 1..Len(events) /\ events[k].action = "relabel"
          /\ events'[k].node = events[k].node /\ events'[k].after = events[k].after
      BY <1>1, <1>2, <2>1, <2>3 DEF EventsKept
    <3>2. events[k].node \in NodeIds /\ TitleReplay(k)
      BY <3>1 DEF TitlesReplay
    <3>3. ASSUME NEW j \in (k + 1)..Len(events), SameNode(k, j),
                 events[j].before.title = events[k].after.title
          PROVE  TitleReplay(k)'
      <4>1. j \in 1..Len(events) /\ j \in (k + 1)..Len(events')
        BY <1>2, <3>1, <3>3
      <4>2. /\ events'[j].before = events[j].before /\ events'[j].node = events[j].node
            /\ events'[j].action = events[j].action
        BY <1>1, <4>1 DEF EventsKept
      <4>3. SameNode(k, j)'
        BY <2>1, <3>1, <3>3, <4>2 DEF SameNode
      <4> QED
        BY <3>1, <3>3, <4>1, <4>2, <4>3 DEF TitleReplay
    <3>4. CASE nodes[events[k].node].title = events[k].after.title /\ events[k].node = n
      <4>1. last \in (k + 1)..Len(events')
        BY <1>2, <3>1
      <4>2. SameNode(k, last)' /\ events'[last].before.title = events'[k].after.title
        BY <1>2, <2>1, <3>1, <3>4 DEF SameNode
      <4> QED
        BY <1>2, <3>1, <3>2, <4>1, <4>2 DEF TitleReplay
    <3>5. CASE nodes[events[k].node].title = events[k].after.title /\ events[k].node # n
      BY <1>2, <1>3, <3>1, <3>2, <3>5 DEF TitleReplay
    <3>6. TitleReplay(k)'
      BY <3>2, <3>3, <3>4, <3>5 DEF TitleReplay
    <3> QED
      BY <1>2, <3>1, <3>2, <3>6
  <2> QED
    BY <2>2, <2>3
<1> QED
  BY <1>4, <1>5

\* An edge is linked by the event logged with it.
LEMMA CreateEdgeReplay ==
  ASSUME TypeOK, TypeOK', EdgesReplay, TitlesReplay,
         NEW m \in NodeIds, NEW n \in NodeIds, NEW r \in Relations, CreateEdge(m, n, r)
  PROVE  EdgesReplay' /\ TitlesReplay'
<1>0. PICK last \in Nat : last = Len(events) + 1
  BY DEF TypeOK
<1> USE <1>0
<1>1. EventsKept
  BY CreateEdgeStep
<1>2. PICK e : /\ edges' = edges \cup {e} /\ Len(events') = last /\ Len(events) \in Nat
               /\ events'[last].action = "link" /\ events'[last].after = e
               /\ UNCHANGED nodes
  <2>1. PICK id \in 1..MaxEdgeId :
          LET e == [id |-> id, from |-> m, to |-> n, relation |-> r]
          IN /\ edges' = edges \cup {e}
             /\ events' = Append(events, [action |-> "link", node |-> 0, edge |-> id,
                                          before |-> NoRow, after |-> e])
    BY DEF CreateEdge
  <2> DEFINE d == [id |-> id, from |-> m, to |-> n, relation |-> r]
             ev == [action |-> "link", node |-> 0, edge |-> id, before |-> NoRow, after |-> d]
  <2>2. ev.action = "link" /\ ev.after = d
    OBVIOUS
  <2>3. edges' = edges \cup {d} /\ events' = Append(events, ev)
    BY <2>1
  <2>4. UNCHANGED nodes
    BY DEF CreateEdge
  <2> HIDE DEF d, ev
  <2>5. Len(events') = last /\ events'[last] = ev /\ Len(events) \in Nat
    BY <2>3 DEF TypeOK
  <2> QED
    BY <2>2, <2>3, <2>4, <2>5
<1>3. Live(last)'
  BY <1>2 DEF Live
<1>4. \A k \in 1..Len(events) : Live(k)' <=> Live(k)
  <2>1. SUFFICES ASSUME NEW k \in 1..Len(events) PROVE Live(k)' <=> Live(k)
    OBVIOUS
  <2>2. \A j \in k..Len(events') : j \in k..Len(events) \/ j = last
    BY <1>2, <2>1
  <2>3. k..Len(events) \subseteq 1..Len(events) /\ k..Len(events) \subseteq k..Len(events')
    BY <1>2, <2>1
  <2>4. events'[last].action # "unlink"
    BY <1>2
  <2>5. events'[k].action = events[k].action /\ events'[k].after = events[k].after
    BY <1>1, <2>1 DEF EventsKept
  <2>6. \A j \in k..Len(events) :
          events'[j].action = events[j].action /\ events'[j].before = events[j].before
    BY <1>1, <2>3 DEF EventsKept
  <2> QED
    BY <2>2, <2>3, <2>4, <2>5, <2>6 DEF Live
<1>5. EdgesReplay'
  <2>1. \A k \in 1..Len(events') : k \in 1..Len(events) \/ k = last
    BY <1>2
  <2>2. last \in 1..Len(events') /\ 1..Len(events) \subseteq 1..Len(events')
    BY <1>2
  <2>3. {events'[k].after : k \in {k \in 1..Len(events') : Live(k)'}}
          = {events[k].after : k \in {k \in 1..Len(events) : Live(k)}} \cup {e}
    BY <1>1, <1>2, <1>3, <1>4, <2>1, <2>2 DEF EventsKept
  <2> QED
    BY <1>2, <2>3 DEF EdgesReplay
<1>6. TitlesReplay'
  <2>1. \A k \in 1..Len(events') : k \notin 1..Len(events) => events'[k].action # "relabel"
    BY <1>2
  <2> QED
    BY <1>1, <1>2, <2>1, TitlesReplayKept DEF NodeIds
<1> QED
  BY <1>5, <1>6

\* An edge is unlinked by the event logged with it.
LEMMA DeleteEdgeReplay ==
  ASSUME TypeOK, TypeOK', EdgesReplay, TitlesReplay, NEW e \in edges, DeleteEdge(e)
  PROVE  EdgesReplay' /\ TitlesReplay'
<1>0. PICK last \in Nat : last = Len(events) + 1
  BY DEF TypeOK
<1> USE <1>0
<1>1. EventsKept
  BY DeleteEdgeStep
<1>2. /\ edges' = edges \ {e} /\ Len(events') = last /\ Len(events) \in Nat
      /\ events'[last].action = "unlink" /\ events'[last].before = e
      /\ UNCHANGED nodes
  <2>1. /\ Append(events, UnlinkEvent(e))[last] = UnlinkEvent(e) /\ Len(events) \in Nat
        /\ DOMAIN events' = 1..last
        /\ events'[last] = ForgetEdge(UnlinkEvent(e), e)
    BY DEF DeleteEdge, TypeOK
  <2>2. ForgetEdge(UnlinkEvent(e), e).action = "unlink"
          /\ ForgetEdge(UnlinkEvent(e), e).before = e
    BY DEF ForgetEdge, UnlinkEvent
  <2>3. Len(events') = last
    BY <2>1 DEF TypeOK
  <2> QED
    BY <2>1, <2>2, <2>3 DEF DeleteEdge
<1>3. \A k \in 1..Len(events) : Live(k)' <=> Live(k) /\ events[k].after # e
  <2>1. SUFFICES ASSUME NEW k \in 1..Len(events)
                 PROVE  Live(k)' <=> Live(k) /\ events[k].after # e
    OBVIOUS
  <2>2. k..Len(events') = k..Len(events) \cup {last} /\ k..Len(events) \subseteq 1..Len(events)
    BY <1>2
  <2> QED
    BY <1>1, <1>2, <2>2 DEF Live, EventsKept
<1>4. EdgesReplay'
  <2>1. \A k \in 1..Len(events') : Live(k)' => k \in 1..Len(events)
    BY <1>2 DEF Live
  <2>2. 1..Len(events) \subseteq 1..Len(events')
    BY <1>2
  <2>3. {events'[k].after : k \in {k \in 1..Len(events') : Live(k)'}}
          = {events[k].after : k \in {k \in 1..Len(events) : Live(k)}} \ {e}
    BY <1>1, <1>3, <2>1, <2>2 DEF EventsKept
  <2> QED
    BY <1>2, <2>3 DEF EdgesReplay
<1>5. TitlesReplay'
  <2>1. \A k \in 1..Len(events') : k \notin 1..Len(events) => events'[k].action # "relabel"
    BY <1>2
  <2> QED
    BY <1>1, <1>2, <2>1, TitlesReplayKept DEF NodeIds
<1> QED
  BY <1>4, <1>5

\* The edges are those the log linked and did not unlink since, and each title a log
\* row gave a node is its present one or where a later row of that node starts, however
\* often edge ids are erased from the log and given again.
THEOREM GraphFromLog == Spec => []GraphReplay
<1>1. Init => EdgesReplay /\ TitlesReplay
  BY DEF Init, EdgesReplay, TitlesReplay
<1>2. ASSUME Inv, Inv', EdgesReplay, TitlesReplay, [Next]_vars
      PROVE  EdgesReplay' /\ TitlesReplay'
  <2>1. ASSUME NEW row \in NodeRow, CreateNode(row) PROVE EdgesReplay' /\ TitlesReplay'
    <3>1. /\ UNCHANGED <<edges, events>> /\ EventsKept
          /\ NodeIds \subseteq NodeIds' /\ \A n \in NodeIds : nodes'[n] = nodes[n]
      BY <1>2, <2>1 DEF CreateNode, EventsKept, Inv, TypeOK, NodeIds
    <3> QED
      BY <1>2, <3>1, EdgesReplayKept, TitlesReplayKept DEF Inv
  <2>2. CASE UNCHANGED vars
    <3>1. UNCHANGED <<edges, events, nodes>> /\ EventsKept
      BY <1>2, <2>2 DEF vars, EventsKept, Inv, TypeOK
    <3> QED
      BY <1>2, <3>1, EdgesReplayKept, TitlesReplayKept DEF Inv, NodeIds
  <2> QED
    BY <1>2, <2>1, <2>2, UpdateNodeReplay, CreateEdgeReplay, DeleteEdgeReplay
    DEF Next, Inv
<1>3. EdgesReplay /\ TitlesReplay => GraphReplay
  BY DEF EdgesReplay, TitlesReplay, TitleReplay, GraphReplay, Live
<1> QED
  BY <1>1, <1>2, <1>3, SpecInv, PTL DEF Spec

=============================================================================
