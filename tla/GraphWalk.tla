----------------------------- MODULE GraphWalk ------------------------------
(***************************************************************************)
(* The breadth-first walk a recall makes over the topic graph              *)
(* (traverseTopicEdges).  Each node's edges are read by a statement of its *)
(* own, outside any transaction, so edges come and go while it walks.      *)
(***************************************************************************)
EXTENDS Naturals, Sequences, FiniteSets

CONSTANTS
  Nodes,      \* topic nodes
  Relations,  \* relations of edges
  MaxDepth,   \* largest max_depth a caller gives
  MaxEdges,   \* bound on the edges of the graph
  MaxChanges  \* bound on the edges linked and unlinked during the walk

ASSUME NodesAssumption == IsFiniteSet(Nodes)

\* An edge whose status is not active is never read by a walk and left out; the
\* status of an edge does not change.
EdgeRow == [from : Nodes, to : Nodes, relation : Relations]

VARIABLES
  edges,    \* the active rows of topic_edges
  pc,       \* "idle", "walking" or "done"
  limit,    \* maxDepth
  follow,   \* the relations that include and exclude let through
  roots,    \* the nodes the walk starts from
  frontier, \* nodes to expand, in order
  depth,    \* visited, with the depth each node was found at
  ever,     \* edges that existed at some time since the walk began
  stable,   \* edges that existed all the time since
  changes   \* how often the graph changed since

vars == <<edges, pc, limit, follow, roots, frontier, depth, ever, stable, changes>>
walkVars == <<pc, limit, follow, roots, frontier, depth>>

Visited == DOMAIN depth

\* Any order of S: that of the search, or of the ORDER BY of the walk.
Orders(S) == {o \in [1..Cardinality(S) -> S] : \A s \in S : \E i \in DOMAIN o : o[i] = s}

Init ==
  /\ edges \in {E \in SUBSET EdgeRow : Cardinality(E) <= MaxEdges}
  /\ pc = "idle"
  /\ limit = 0
  /\ follow = {}
  /\ roots = {}
  /\ frontier = <<>>
  /\ depth = <<>>
  /\ ever = {}
  /\ stable = {}
  /\ changes = 0

-----------------------------------------------------------------------------

\* The search and the view give the roots; with no depth left nothing is read.
Begin(S, R, d) ==
  /\ pc = "idle"
  /\ limit' = d
  /\ follow' = R
  /\ roots' = S
  /\ \E o \in Orders(S) : frontier' = o
  /\ depth' = [n \in S |-> 0]
  /\ pc' = IF d <= 0 THEN "done" ELSE "walking"
  /\ ever' = edges
  /\ stable' = edges
  /\ UNCHANGED <<edges, changes>>

Children(n) == {e.to : e \in {e \in edges : e.from = n /\ e.relation \in follow}}

\* Mutant: the frontier is a stack.
Pushed(o) == o \o Tail(frontier)

Enqueued(o) == Tail(frontier) \o o

\* Mutant: one level too deep.
WithinLimit(n) == depth[n] <= limit

\* Mutant: one level short.
BelowLimit(n) == depth[n] + 1 < limit

MayExpand(n) == depth[n] < limit

\* Mutant: a node is not marked when it is found.
Unmarked(new) == Visited

Marked(new) == Visited \cup new

\* One SELECT of the first frontier item's edges; the nodes they lead to are
\* taken in the order of the rows, each the first time it is seen.
Expand ==
  /\ pc = "walking" /\ frontier # <<>>
  /\ LET n == Head(frontier)
         new == IF MayExpand(n) THEN Children(n) \ Visited ELSE {}
     IN /\ \E o \in Orders(new) : frontier' = Enqueued(o)
        /\ depth' = [m \in Marked(new) |-> IF m \in Visited THEN depth[m] ELSE depth[n] + 1]
  /\ UNCHANGED <<edges, pc, limit, follow, roots, ever, stable, changes>>

Return ==
  /\ pc = "walking" /\ frontier = <<>>
  /\ pc' = "done"
  /\ UNCHANGED <<edges, limit, follow, roots, frontier, depth, ever, stable, changes>>

\* createEdge, of an edge that is active
Link(e) ==
  /\ pc = "walking"
  /\ e \notin edges /\ Cardinality(edges) < MaxEdges /\ changes < MaxChanges
  /\ edges' = edges \cup {e}
  /\ ever' = ever \cup {e}
  /\ changes' = changes + 1
  /\ UNCHANGED <<stable, walkVars>>

\* deleteEdge
Unlink(e) ==
  /\ pc = "walking"
  /\ e \in edges /\ changes < MaxChanges
  /\ edges' = edges \ {e}
  /\ stable' = stable \ {e}
  /\ changes' = changes + 1
  /\ UNCHANGED <<ever, walkVars>>

Next ==
  \/ \E S \in SUBSET Nodes, R \in SUBSET Relations, d \in 0..MaxDepth : Begin(S, R, d)
  \/ Expand
  \/ Return
  \/ \E e \in EdgeRow : Link(e) \/ Unlink(e)

Spec == Init /\ [][Next]_vars

-----------------------------------------------------------------------------
(* Properties.                                                             *)

\* What d steps along edges of E reach from the roots.
Reach(E) ==
  LET reach[d \in Nat] ==
        IF d = 0 THEN roots
        ELSE reach[d - 1] \cup
               {e.to : e \in {e \in E : e.from \in reach[d - 1] /\ e.relation \in follow}}
  IN reach

TypeOK ==
  /\ edges \subseteq EdgeRow
  /\ pc \in {"idle", "walking", "done"}
  /\ limit \in Nat
  /\ follow \subseteq Relations
  /\ roots \subseteq Nodes
  /\ Visited \subseteq Nodes
  /\ depth \in [Visited -> Nat]
  /\ frontier \in Seq(Visited)
  /\ ever \subseteq EdgeRow
  /\ stable \subseteq edges
  /\ changes \in Nat

\* Every visited node but the roots was found along an edge, present at some time
\* during the walk, from a node visited one level before; none is deeper than the
\* limit.
FoundByEdge ==
  \A n \in Visited :
    /\ depth[n] <= limit
    /\ n \notin roots =>
         \E e \in ever : /\ e.to = n /\ e.relation \in follow
                         /\ e.from \in Visited /\ depth[e.from] + 1 = depth[n]

\* An edge that is there during the whole walk is not missed: when the walk is
\* done, it leads from no visited node above the limit to a node that was not
\* visited or was found more than a level deeper.
NothingMissed ==
  pc = "done" =>
    \A e \in stable :
      (e.relation \in follow /\ e.from \in Visited /\ depth[e.from] < limit) =>
        e.to \in Visited /\ depth[e.to] <= depth[e.from] + 1

\* The same by paths.  What can be reached within the limit along edges that stay
\* is found, what cannot be reached along any edge there was is not, and no node
\* is recorded nearer or further than that.  Without changes the walk is exact.
WalkRegular ==
  pc = "done" =>
    /\ Reach(stable)[limit] \subseteq Visited
    /\ Visited \subseteq Reach(ever)[limit]
    /\ \A n \in Visited : n \in Reach(ever)[depth[n]]
    /\ \A d \in 0..limit : \A n \in Reach(stable)[d] : depth[n] <= d

=============================================================================
