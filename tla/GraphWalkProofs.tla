-------------------------- MODULE GraphWalkProofs ---------------------------
(***************************************************************************)
(* Proofs about GraphWalk: for any graph, any changes of it during the     *)
(* walk and any order of the rows, the walk finds what it should.          *)
(***************************************************************************)
EXTENDS GraphWalk, FiniteSetTheorems, WellFoundedInduction, TLAPS

Queued(n) == \E i \in 1..Len(frontier) : frontier[i] = n

\* The edges of n that stayed lead to nodes visited at most a level deeper.
Closed(n) ==
  \A e \in stable :
    (e.relation \in follow /\ e.from = n /\ depth[n] < limit) =>
      e.to \in Visited /\ depth[e.to] <= depth[n] + 1

\* The frontier is in order of depth, and nothing is visited more than a level
\* below its head: what makes the walk breadth first.
Ordered ==
  /\ \A i, j \in 1..Len(frontier) : i < j => depth[frontier[i]] <= depth[frontier[j]]
  /\ frontier # <<>> => \A n \in Visited : depth[n] <= depth[frontier[1]] + 1

\* A visited node that is not waiting has been expanded.
Expanded == \A n \in Visited : Queued(n) \/ Closed(n)

\* What the stages of the walk say of its variables.
StageOK ==
  /\ pc = "idle" => Visited = {} /\ frontier = <<>>
  /\ pc # "idle" => roots \subseteq Visited
  /\ pc = "walking" => edges \subseteq ever
  /\ pc = "done" => frontier = <<>> \/ limit = 0

Inv == TypeOK /\ StageOK /\ FoundByEdge /\ Ordered /\ Expanded

\* An order of a set of nodes is a sequence that holds each of them.
LEMMA OrderIsSeq ==
  ASSUME NEW S \in SUBSET Nodes, NEW o \in Orders(S)
  PROVE /\ o \in Seq(S)
        /\ \A s \in S : \E i \in 1..Len(o) : o[i] = s
        /\ \A i \in 1..Len(o) : o[i] \in S
<1>1. Cardinality(S) \in Nat
  BY NodesAssumption, FS_Subset, FS_CardinalityType
<1> QED
  BY <1>1 DEF Orders

\* Nothing is visited before the walk begins.
LEMMA InitInv == Init => Inv
BY DEF Init, Inv, TypeOK, StageOK, FoundByEdge, Ordered, Expanded, Visited

\* The roots are visited at depth 0 and wait in some order.
LEMMA BeginKeepsInv ==
  ASSUME Inv, NEW S \in SUBSET Nodes, NEW R \in SUBSET Relations, NEW d \in 0..MaxDepth,
         Begin(S, R, d)
  PROVE Inv'
<1>1. PICK o \in Orders(S) : frontier' = o
  BY DEF Begin
<1>2. /\ o \in Seq(S)
      /\ \A s \in S : \E i \in 1..Len(o) : o[i] = s
      /\ \A i \in 1..Len(o) : o[i] \in S
  BY OrderIsSeq
<1>3. /\ Visited' = S
      /\ \A n \in S : depth'[n] = 0
      /\ depth' \in [S -> Nat]
      /\ limit' = d /\ d \in Nat
  BY DEF Begin, Visited
<1>4. TypeOK'
  BY <1>1, <1>2, <1>3 DEF Begin, Inv, TypeOK
<1>5. StageOK'
  BY <1>3 DEF Begin, StageOK
<1>6. FoundByEdge'
  BY <1>3 DEF Begin, FoundByEdge
<1>7. Ordered'
  BY <1>1, <1>2, <1>3 DEF Ordered
<1>8. Expanded'
  BY <1>1, <1>2, <1>3 DEF Expanded, Queued
<1> QED
  BY <1>4, <1>5, <1>6, <1>7, <1>8 DEF Inv

\* What a step of the walk does to the frontier and the depths.
LEMMA ExpandFacts ==
  ASSUME Inv, Expand
  PROVE \E new \in SUBSET Nodes, o \in Seq(Nodes) :
          /\ new = (IF MayExpand(frontier[1]) THEN Children(frontier[1]) \ Visited ELSE {})
          /\ \A i \in 1..Len(o) : o[i] \in new
          /\ \A m \in new : \E i \in 1..Len(o) : o[i] = m
          /\ Visited' = Visited \cup new
          /\ depth' \in [Visited \cup new -> Nat]
          /\ \A m \in Visited : depth'[m] = depth[m]
          /\ \A m \in new : depth'[m] = depth[frontier[1]] + 1
          /\ frontier' \in Seq(Visited \cup new)
          /\ Len(frontier) > 0 /\ frontier[1] \in Visited
          /\ Len(frontier') = Len(frontier) - 1 + Len(o)
          /\ \A i \in 1..(Len(frontier) - 1) : frontier'[i] = frontier[i + 1]
          /\ \A i \in 1..Len(o) : frontier'[Len(frontier) - 1 + i] = o[i]
<1> DEFINE n == frontier[1]
           new == IF MayExpand(n) THEN Children(n) \ Visited ELSE {}
<1>1. /\ frontier \in Seq(Visited) /\ frontier # <<>> /\ Len(frontier) > 0
      /\ n \in Visited /\ Head(frontier) = n
      /\ depth \in [Visited -> Nat] /\ depth[n] \in Nat
  BY DEF Expand, Inv, TypeOK
<1>2. new \in SUBSET Nodes /\ new \cap Visited = {}
  BY DEF Children, Inv, TypeOK, EdgeRow
<1>3. PICK o \in Orders(new) : frontier' = Tail(frontier) \o o
  BY <1>1 DEF Expand, Enqueued
<1>4. /\ o \in Seq(new)
      /\ \A s \in new : \E i \in 1..Len(o) : o[i] = s
      /\ \A i \in 1..Len(o) : o[i] \in new
  BY <1>2, OrderIsSeq
<1>5. depth' = [m \in Visited \cup new |-> IF m \in Visited THEN depth[m] ELSE depth[n] + 1]
  BY <1>1 DEF Expand, Marked
<1> HIDE DEF new
<1>6. /\ Visited' = Visited \cup new
      /\ depth' \in [Visited \cup new -> Nat]
      /\ \A m \in Visited : depth'[m] = depth[m]
      /\ \A m \in new : depth'[m] = depth[n] + 1
  BY <1>1, <1>2, <1>5 DEF Visited
<1>7. /\ Tail(frontier) \in Seq(Visited) /\ Len(Tail(frontier)) = Len(frontier) - 1
      /\ \A i \in 1..(Len(frontier) - 1) : Tail(frontier)[i] = frontier[i + 1]
  BY <1>1
<1>8. /\ Len(frontier') = Len(frontier) - 1 + Len(o)
      /\ \A i \in 1..(Len(frontier) - 1) : frontier'[i] = frontier[i + 1]
      /\ \A i \in 1..Len(o) : frontier'[Len(frontier) - 1 + i] = o[i]
  BY <1>1, <1>3, <1>4, <1>7
<1>9. frontier' \in Seq(Visited \cup new)
  <2>1. Tail(frontier) \in Seq(Visited \cup new) /\ o \in Seq(Visited \cup new)
    BY <1>4, <1>7
  <2> QED
    BY <1>3, <2>1
<1>10. o \in Seq(Nodes) /\ new \in SUBSET Nodes /\ new = (IF MayExpand(n) THEN Children(n) \ Visited ELSE {})
  BY <1>2, <1>4 DEF new
<1> USE <1>10
<1> WITNESS new \in SUBSET Nodes, o \in Seq(Nodes)
<1> QED
  BY <1>1, <1>4, <1>6, <1>8, <1>9, <1>10

\* A step of the walk: the new nodes are the deepest, and the head is expanded.
LEMMA ExpandKeepsInv ==
  ASSUME Inv, Expand
  PROVE Inv'
<1> DEFINE n == frontier[1]
<1>1. PICK new \in SUBSET Nodes, o \in Seq(Nodes) :
          /\ new = (IF MayExpand(n) THEN Children(n) \ Visited ELSE {})
          /\ \A i \in 1..Len(o) : o[i] \in new
          /\ \A m \in new : \E i \in 1..Len(o) : o[i] = m
          /\ Visited' = Visited \cup new
          /\ depth' \in [Visited \cup new -> Nat]
          /\ \A m \in Visited : depth'[m] = depth[m]
          /\ \A m \in new : depth'[m] = depth[n] + 1
          /\ frontier' \in Seq(Visited \cup new)
          /\ Len(frontier) > 0 /\ n \in Visited
          /\ Len(frontier') = Len(frontier) - 1 + Len(o)
          /\ \A i \in 1..(Len(frontier) - 1) : frontier'[i] = frontier[i + 1]
          /\ \A i \in 1..Len(o) : frontier'[Len(frontier) - 1 + i] = o[i]
  BY ExpandFacts
<1>2. UNCHANGED <<edges, pc, limit, follow, roots, ever, stable, changes>> /\ pc = "walking"
  BY DEF Expand
<1>3. /\ depth \in [Visited -> Nat] /\ depth[n] \in Nat /\ limit \in Nat
      /\ Len(frontier) \in Nat /\ Len(o) \in Nat
      /\ \A i \in 1..Len(frontier) : frontier[i] \in Visited
      /\ \A m \in Visited : depth[m] \in Nat /\ depth[m] <= depth[n] + 1
  BY <1>1 DEF Inv, TypeOK, Ordered
<1>4. TypeOK'
  BY <1>1, <1>2 DEF Inv, TypeOK
<1>5. StageOK'
  BY <1>1, <1>2 DEF Inv, StageOK
<1>6. FoundByEdge'
  <2> SUFFICES ASSUME NEW m \in Visited \cup new
               PROVE /\ depth'[m] <= limit
                     /\ m \notin roots =>
                          \E e \in ever : /\ e.to = m /\ e.relation \in follow
                                          /\ e.from \in Visited' /\ depth'[e.from] + 1 = depth'[m]
    BY <1>1, <1>2 DEF FoundByEdge
  <2>1. CASE m \in Visited
    <3>1. depth'[m] = depth[m] /\ depth[m] <= limit
      BY <1>1, <2>1 DEF Inv, FoundByEdge
    <3>2. ASSUME m \notin roots
          PROVE \E e \in ever : /\ e.to = m /\ e.relation \in follow
                                /\ e.from \in Visited' /\ depth'[e.from] + 1 = depth'[m]
      <4>1. PICK e \in ever : /\ e.to = m /\ e.relation \in follow
                             /\ e.from \in Visited /\ depth[e.from] + 1 = depth[m]
        BY <2>1, <3>2 DEF Inv, FoundByEdge
      <4>2. e.from \in Visited' /\ depth'[e.from] + 1 = depth'[m]
        BY <1>1, <3>1, <4>1
      <4> QED
        BY <4>1, <4>2
    <3> QED
      BY <3>1, <3>2
  <2>2. CASE m \in new
    <3>1. depth[n] < limit /\ m \in Children(n)
      BY <1>1, <2>2 DEF MayExpand
    <3>2. PICK e \in edges : e.to = m /\ e.from = n /\ e.relation \in follow
      BY <3>1 DEF Children
    <3>3. e \in ever
      BY <1>2 DEF Inv, StageOK
    <3> QED
      BY <1>1, <1>3, <2>2, <3>1, <3>2, <3>3
  <2> QED
    BY <2>1, <2>2
<1>9. \A i, j \in 1..Len(frontier) : i < j => depth[frontier[i]] <= depth[frontier[j]]
  BY DEF Inv, Ordered
<1>7. Ordered'
  <2>1. ASSUME NEW i \in 1..Len(frontier')
        PROVE \/ i \in 1..(Len(frontier) - 1) /\ frontier'[i] = frontier[i + 1]
                   /\ i + 1 \in 1..Len(frontier)
                   /\ depth'[frontier'[i]] = depth[frontier[i + 1]]
              \/ i > Len(frontier) - 1 /\ depth'[frontier'[i]] = depth[n] + 1
    <3>1. CASE i \in 1..(Len(frontier) - 1)
      BY <1>1, <1>3, <3>1
    <3>2. CASE i > Len(frontier) - 1
      <4>1. i - (Len(frontier) - 1) \in 1..Len(o)
        BY <1>1, <1>3, <3>2
      <4>2. frontier'[i] = o[i - (Len(frontier) - 1)]
        BY <1>1, <1>3, <4>1
      <4> QED
        BY <1>1, <3>2, <4>1, <4>2
    <3> QED
      BY <1>3, <3>1, <3>2
  <2>2. ASSUME NEW i \in 1..Len(frontier'), NEW j \in 1..Len(frontier'), i < j
        PROVE depth'[frontier'[i]] <= depth'[frontier'[j]]
    <3>1. CASE j > Len(frontier) - 1
      <4>1. depth'[frontier'[j]] = depth[n] + 1
        BY <1>3, <2>1, <3>1
      <4>2. CASE i > Len(frontier) - 1
        <5>1. depth'[frontier'[i]] = depth[n] + 1
          BY <1>3, <2>1, <4>2
        <5> QED
          BY <1>3, <4>1, <5>1
      <4>3. CASE ~(i > Len(frontier) - 1)
        <5>1. i + 1 \in 1..Len(frontier) /\ depth'[frontier'[i]] = depth[frontier[i + 1]]
          BY <1>3, <2>1, <4>3
        <5>2. frontier[i + 1] \in Visited
          BY <1>3, <5>1
        <5> QED
          BY <1>3, <4>1, <5>1, <5>2
      <4> QED
        BY <4>2, <4>3
    <3>2. CASE ~(j > Len(frontier) - 1)
      <4>1. /\ i + 1 \in 1..Len(frontier) /\ j + 1 \in 1..Len(frontier) /\ i + 1 < j + 1
            /\ depth'[frontier'[i]] = depth[frontier[i + 1]]
            /\ depth'[frontier'[j]] = depth[frontier[j + 1]]
        BY <1>3, <2>1, <2>2, <3>2
      <4>2. depth[frontier[i + 1]] <= depth[frontier[j + 1]]
        BY <4>1, <1>9
      <4> QED
        BY <4>1, <4>2
    <3> QED
      BY <3>1, <3>2
  <2>3. ASSUME frontier' # <<>>, NEW m \in Visited'
        PROVE depth'[m] <= depth'[frontier'[1]] + 1
    <3>1. 1 \in 1..Len(frontier')
      BY <1>1, <2>3
    <3>2. depth'[frontier'[1]] \in Nat /\ depth[n] <= depth'[frontier'[1]]
      <4>1. CASE 1 > Len(frontier) - 1
        BY <1>3, <2>1, <3>1, <4>1
      <4>2. CASE ~(1 > Len(frontier) - 1)
        <5>1. 2 \in 1..Len(frontier) /\ depth'[frontier'[1]] = depth[frontier[2]]
          BY <1>3, <2>1, <3>1, <4>2
        <5>2. 1 \in 1..Len(frontier) /\ 1 < 2
          BY <1>3, <5>1
        <5>3. depth[frontier[1]] <= depth[frontier[2]]
          BY <5>1, <5>2, <1>9
        <5> QED
          BY <1>3, <5>1, <5>3
      <4> QED
        BY <4>1, <4>2
    <3>3. depth'[m] \in Nat /\ depth'[m] <= depth[n] + 1
      BY <1>1, <1>3, <2>3
    <3> QED
      BY <1>3, <3>2, <3>3
  <2> QED
    BY <2>2, <2>3 DEF Ordered
<1>8. Expanded'
  <2> SUFFICES ASSUME NEW m \in Visited \cup new PROVE Queued(m)' \/ Closed(m)'
    BY <1>1 DEF Expanded
  <2>1. CASE m \in new
    <3>1. PICK i \in 1..Len(o) : o[i] = m
      BY <1>1, <2>1
    <3>2. Len(frontier) - 1 + i \in 1..Len(frontier') /\ frontier'[Len(frontier) - 1 + i] = m
      BY <1>1, <1>3, <3>1
    <3> QED
      BY <3>2 DEF Queued
  <2>2. CASE m \in Visited /\ \E i \in 2..Len(frontier) : frontier[i] = m
    <3>1. PICK i \in 2..Len(frontier) : frontier[i] = m
      BY <2>2
    <3>2. i - 1 \in 1..(Len(frontier) - 1) /\ (i - 1) + 1 = i
      BY <1>3
    <3>3. i - 1 \in 1..Len(frontier') /\ frontier'[i - 1] = m
      BY <1>1, <1>3, <3>1, <3>2
    <3> QED
      BY <3>3 DEF Queued
  <2>3. CASE m \in Visited /\ m = n
    <3> SUFFICES ASSUME NEW e \in stable, e.relation \in follow, e.from = n, depth[n] < limit
                 PROVE e.to \in Visited' /\ depth'[e.to] <= depth'[n] + 1
      BY <1>2, <2>3, <1>1 DEF Closed
    <3>1. e.to \in Visited \cup new
      BY <1>1 DEF Children, MayExpand, Inv, TypeOK
    <3> QED
      BY <1>1, <1>3, <3>1
  <2>4. CASE m \in Visited /\ Closed(m)
    BY <1>1, <1>2, <2>4 DEF Closed
  <2> QED
    <3>1. m \in Visited => Closed(m) \/ Queued(m)
      BY DEF Inv, Expanded
    <3>2. Queued(m) => m = n \/ \E i \in 2..Len(frontier) : frontier[i] = m
      BY <1>3 DEF Queued
    <3> QED
      BY <2>1, <2>2, <2>3, <2>4, <3>1, <3>2
<1> QED
  BY <1>4, <1>5, <1>6, <1>7, <1>8 DEF Inv

\* Edges that come and go leave the walk's own variables alone; those that stay
\* only become fewer, those that were there only more.
LEMMA ChangeKeepsInv ==
  ASSUME Inv, NEW e \in EdgeRow, Link(e) \/ Unlink(e)
  PROVE Inv'
<1>1. /\ UNCHANGED <<pc, limit, follow, roots, frontier, depth>>
      /\ stable' \subseteq stable /\ ever \subseteq ever' /\ stable' \subseteq edges'
      /\ Visited' = Visited
  BY DEF Link, Unlink, walkVars, Visited, Inv, TypeOK
<1>2. TypeOK'
  BY <1>1 DEF Link, Unlink, Inv, TypeOK
<1>3. StageOK'
  BY <1>1 DEF Link, Unlink, Inv, StageOK
<1>4. FoundByEdge'
  BY <1>1 DEF Inv, FoundByEdge
<1>5. Ordered'
  BY <1>1 DEF Inv, Ordered
<1>6. Expanded'
  BY <1>1 DEF Inv, Expanded, Queued, Closed
<1> QED
  BY <1>2, <1>3, <1>4, <1>5, <1>6 DEF Inv

\* The invariant holds in every reachable state.
LEMMA SpecInv == Spec => []Inv
<1>1. Inv /\ [Next]_vars => Inv'
  <2> SUFFICES ASSUME Inv, [Next]_vars PROVE Inv'
    OBVIOUS
  <2>1. CASE \E S \in SUBSET Nodes, R \in SUBSET Relations, d \in 0..MaxDepth : Begin(S, R, d)
    BY <2>1, BeginKeepsInv
  <2>2. CASE Expand
    BY <2>2, ExpandKeepsInv
  <2>3. CASE Return
    BY <2>3 DEF Return, Inv, TypeOK, StageOK, FoundByEdge, Ordered, Expanded, Queued, Closed, Visited
  <2>4. CASE \E e \in EdgeRow : Link(e) \/ Unlink(e)
    BY <2>4, ChangeKeepsInv
  <2>5. CASE UNCHANGED vars
    BY <2>5 DEF vars, Inv, TypeOK, StageOK, FoundByEdge, Ordered, Expanded, Queued, Closed, Visited
  <2> QED
    BY <2>1, <2>2, <2>3, <2>4, <2>5 DEF Next
<1> QED
  BY <1>1, InitInv, PTL DEF Spec

\* The variables keep their types; the frontier holds visited nodes only.
THEOREM TypeCorrect == Spec => []TypeOK
<1>1. Inv => TypeOK
  BY DEF Inv
<1> QED
  BY <1>1, SpecInv, PTL

\* Nothing is found that no edge led to, or deeper than asked for.
THEOREM WalkSound == Spec => []FoundByEdge
<1>1. Inv => FoundByEdge
  BY DEF Inv
<1> QED
  BY <1>1, SpecInv, PTL

\* No edge that stayed is missed, whatever changed around it.
THEOREM WalkComplete == Spec => []NothingMissed
<1>1. Inv => NothingMissed
  <2> SUFFICES ASSUME Inv, pc = "done", NEW e \in stable, e.relation \in follow,
                      e.from \in Visited, depth[e.from] < limit
               PROVE e.to \in Visited /\ depth[e.to] <= depth[e.from] + 1
    BY DEF NothingMissed
  <2>1. frontier = <<>>
    BY DEF Inv, StageOK, TypeOK
  <2>2. Closed(e.from)
    BY <2>1 DEF Inv, Expanded, Queued
  <2> QED
    BY <2>2 DEF Closed
<1> QED
  BY <1>1, SpecInv, PTL

-----------------------------------------------------------------------------
(* Induction on numbers, said of sets.                                     *)

Smaller == {ss \in Nat \X Nat : ss[1] < ss[2]}

\* Numbers do not descend for ever.
LEMMA SmallerWellFounded == IsWellFoundedOn(Smaller, Nat)
BY NatLessThanWellFounded DEF OpToRel, Smaller

\* A set of numbers that is not empty has a least one.
LEMMA LeastNumber ==
  ASSUME NEW T, T \subseteq Nat, T # {}
  PROVE  \E m \in T : \A n \in T : m <= n
<1>1. \A a, b \in Nat : a < b => <<a, b>> \in Smaller
  BY DEF Smaller
<1>2. PICK m \in T : \A n \in T : ~(<<n, m>> \in Smaller)
  BY SmallerWellFounded, WFMin
<1>3. \A n \in T : ~(n < m)
  BY <1>1, <1>2
<1> QED
  BY <1>2, <1>3

\* A set that holds 0 and with each number the next holds all.
LEMMA Induction ==
  ASSUME NEW S, 0 \in S, \A n \in Nat : n \in S => n + 1 \in S
  PROVE  Nat \subseteq S
<1> SUFFICES ASSUME Nat \ S # {} PROVE FALSE
  OBVIOUS
<1>1. PICK m \in Nat \ S : \A n \in Nat \ S : m <= n
  BY LeastNumber
<1>2. m # 0 /\ m - 1 \in Nat
  BY <1>1
<1>3. m - 1 \in S
  BY <1>1, <1>2
<1>4. m \in S
  BY <1>2, <1>3
<1> QED
  BY <1>4

-----------------------------------------------------------------------------
(* The recursion of Reach has a solution, and the sets it gives.           *)

Wider(E, X) == X \cup {e.to : e \in {e \in E : e.from \in X /\ e.relation \in follow}}

Level(E, g, d) == IF d = 0 THEN roots ELSE Wider(E, g[d - 1])

\* The first levels only.
Prefix(E, g, n) == \A d \in 0..n : g[d] = Level(E, g, d)

\* Two prefixes agree where both are defined.
LEMMA PrefixesAgree ==
  ASSUME NEW E, NEW n \in Nat, NEW m \in Nat, n <= m, NEW g, NEW h,
         Prefix(E, g, n), Prefix(E, h, m)
  PROVE  g[n] = h[n]
<1> DEFINE S == {d \in Nat : d <= n => g[d] = h[d]}
<1>1. \A d \in 0..n : g[d] = Level(E, g, d) /\ h[d] = Level(E, h, d)
  BY DEF Prefix
<1>2. 0 \in S
  BY <1>1 DEF Level
<1>3. ASSUME NEW d \in Nat, d \in S
      PROVE  d + 1 \in S
  <2> SUFFICES ASSUME d + 1 <= n PROVE g[d + 1] = h[d + 1]
    OBVIOUS
  <2>1. g[d] = h[d] /\ d + 1 \in 0..n /\ d + 1 # 0 /\ (d + 1) - 1 = d
    BY <1>3
  <2>2. g[d + 1] = Wider(E, g[d]) /\ h[d + 1] = Wider(E, h[d])
    BY <1>1, <2>1 DEF Level
  <2> QED
    BY <2>1, <2>2
<1> HIDE DEF S
<1>4. Nat \subseteq S
  BY <1>2, <1>3, Induction
<1> QED
  BY <1>4 DEF S

\* There is a prefix of every length.
LEMMA PrefixExists ==
  ASSUME NEW E, NEW n \in Nat
  PROVE  \E g : Prefix(E, g, n)
<1> DEFINE S == {d \in Nat : \E g : Prefix(E, g, d)}
<1>1. 0 \in S
  <2> DEFINE g == [d \in {0} |-> roots]
  <2>1. Prefix(E, g, 0)
    BY DEF Prefix, Level
  <2> QED
    BY <2>1
<1>2. ASSUME NEW d \in Nat, d \in S
      PROVE  d + 1 \in S
  <2>1. PICK g : Prefix(E, g, d)
    BY <1>2
  <2> DEFINE h == [k \in 0..(d + 1) |-> IF k <= d THEN g[k] ELSE Wider(E, g[d])]
  <2>2. \A k \in 0..d : g[k] = Level(E, g, k)
    BY <2>1 DEF Prefix
  <2>3. ASSUME NEW k \in 0..(d + 1)
        PROVE  h[k] = Level(E, h, k)
    <3>1. CASE k <= d
      <4>1. h[k] = Level(E, g, k)
        BY <2>2, <3>1
      <4>2. k # 0 => k - 1 \in 0..(d + 1) /\ k - 1 <= d
        BY <3>1
      <4>3. k # 0 => h[k - 1] = g[k - 1]
        BY <4>2
      <4> QED
        BY <4>1, <4>3 DEF Level
    <3>2. CASE k = d + 1
      <4>1. k # 0 /\ k - 1 = d /\ ~(k <= d) /\ d \in 0..(d + 1)
        BY <3>2
      <4>2. h[k] = Wider(E, g[d]) /\ h[d] = g[d]
        BY <4>1
      <4> QED
        BY <4>1, <4>2 DEF Level
    <3> QED
      BY <3>1, <3>2
  <2> HIDE DEF h
  <2> QED
    BY <2>3 DEF Prefix
<1> HIDE DEF S
<1>3. Nat \subseteq S
  BY <1>1, <1>2, Induction
<1> QED
  BY <1>3 DEF S

\* What d steps reach is what d - 1 steps reach and one edge further.
LEMMA ReachLevels ==
  ASSUME NEW E
  PROVE  /\ Reach(E)[0] = roots
         /\ \A d \in Nat : Reach(E)[d + 1] = Wider(E, Reach(E)[d])
<1> DEFINE Whole(g) == g = [d \in Nat |-> Level(E, g, d)]
           p(n) == CHOOSE g : Prefix(E, g, n)
           f == [n \in Nat |-> p(n)[n]]
<1>1. \A n \in Nat : Prefix(E, p(n), n)
  BY PrefixExists
<1>2. ASSUME NEW n \in Nat
      PROVE  f[n] = Level(E, f, n)
  <2>1. f[n] = p(n)[n] /\ p(n)[n] = Level(E, p(n), n)
    <3>1. Prefix(E, p(n), n) /\ n \in 0..n
      BY <1>1
    <3> QED
      BY <3>1 DEF Prefix
  <2>2. CASE n = 0
    BY <2>1, <2>2 DEF Level
  <2>3. CASE n # 0
    <3>1. n - 1 \in Nat /\ n - 1 <= n
      BY <2>3
    <3>2. Prefix(E, p(n - 1), n - 1) /\ Prefix(E, p(n), n)
      BY <1>1, <3>1
    <3>3. f[n - 1] = p(n)[n - 1]
      <4>1. f[n - 1] = p(n - 1)[n - 1]
        BY <3>1
      <4> HIDE DEF p
      <4> QED
        BY <3>1, <3>2, <4>1, PrefixesAgree
    <3> HIDE DEF f, p
    <3> QED
      BY <2>1, <2>3, <3>3 DEF Level
  <2> QED
    BY <2>2, <2>3
<1>3. Whole(f)
  <2> HIDE DEF p
  <2>1. f = [n \in Nat |-> f[n]]
    OBVIOUS
  <2> HIDE DEF f
  <2> QED
    BY <1>2, <2>1
<1>4. Reach(E) = CHOOSE g : Whole(g)
  BY DEF Reach, Level, Wider
<1> HIDE DEF f
<1>5. Whole(Reach(E))
  BY <1>3, <1>4
<1> DEFINE r == Reach(E)
<1> HIDE DEF r
<1>6. \A d \in Nat : r[d] = Level(E, r, d)
  BY <1>5 DEF r
<1>7. r[0] = roots
  BY <1>6 DEF Level
<1>8. ASSUME NEW d \in Nat
      PROVE  r[d + 1] = Wider(E, r[d])
  <2>1. d + 1 \in Nat /\ d + 1 # 0 /\ (d + 1) - 1 = d
    OBVIOUS
  <2> QED
    BY <1>6, <2>1 DEF Level
<1> QED
  BY <1>7, <1>8 DEF r

\* More steps reach no less.
LEMMA ReachGrows ==
  ASSUME NEW E, NEW a \in Nat, NEW b \in Nat, a <= b
  PROVE  Reach(E)[a] \subseteq Reach(E)[b]
<1> DEFINE r == Reach(E)
           S == {d \in Nat : a <= d => r[a] \subseteq r[d]}
<1>1. \A d \in Nat : r[d] \subseteq r[d + 1]
  BY ReachLevels DEF Wider
<1> HIDE DEF r
<1>2. 0 \in S
  <2>1. a <= 0 => a = 0
    OBVIOUS
  <2> QED
    BY <2>1
<1>3. ASSUME NEW d \in Nat, d \in S
      PROVE  d + 1 \in S
  <2>1. a <= d + 1 => a <= d \/ a = d + 1
    OBVIOUS
  <2>2. r[d] \subseteq r[d + 1]
    BY <1>1
  <2> QED
    BY <1>3, <2>1, <2>2
<1> HIDE DEF S
<1>4. Nat \subseteq S
  BY <1>2, <1>3, Induction
<1> QED
  BY <1>4 DEF S, r

-----------------------------------------------------------------------------
(* The walk by paths.                                                      *)

RootsKept == \A n \in roots : n \in Visited /\ depth[n] = 0

\* A root stays at depth 0.
LEMMA RootsStay == Spec => []RootsKept
<1>1. Init => RootsKept
  BY DEF Init, RootsKept
<1>2. ASSUME RootsKept, [Next]_vars PROVE RootsKept'
  <2>1. CASE \E S \in SUBSET Nodes, R \in SUBSET Relations, d \in 0..MaxDepth : Begin(S, R, d)
    BY <2>1 DEF Begin, RootsKept, Visited
  <2>2. CASE Expand
    <3> DEFINE n == Head(frontier)
               new == IF MayExpand(n) THEN Children(n) \ Visited ELSE {}
    <3>1. /\ roots' = roots
          /\ depth' = [m \in Marked(new) |-> IF m \in Visited THEN depth[m] ELSE depth[n] + 1]
      BY <2>2 DEF Expand
    <3> HIDE DEF n, new
    <3>2. \A m \in Visited : m \in Visited' /\ depth'[m] = depth[m]
      BY <3>1 DEF Marked, Visited
    <3> QED
      BY <1>2, <3>1, <3>2 DEF RootsKept
  <2>3. CASE Return \/ \E e \in EdgeRow : Link(e) \/ Unlink(e)
    BY <1>2, <2>3 DEF Return, Link, Unlink, walkVars, RootsKept, Visited
  <2>4. CASE UNCHANGED vars
    BY <1>2, <2>4 DEF vars, RootsKept, Visited
  <2> QED
    BY <1>2, <2>1, <2>2, <2>3, <2>4 DEF Next
<1> QED
  BY <1>1, <1>2, PTL DEF Spec

\* A node found at depth d is d edges, of those that existed, from a root.
LEMMA FoundReached ==
  ASSUME Inv, RootsKept
  PROVE  \A n \in Visited : n \in Reach(ever)[depth[n]]
<1> DEFINE r == Reach(ever)
           S == {d \in Nat : \A n \in Visited : depth[n] = d => n \in r[d]}
<1>1. r[0] = roots /\ \A d \in Nat : r[d + 1] = Wider(ever, r[d])
  BY ReachLevels
<1> HIDE DEF r
<1>2. \A n \in Visited : depth[n] \in Nat
  BY DEF Inv, TypeOK
<1>3. 0 \in S
  <2> SUFFICES ASSUME NEW n \in Visited, depth[n] = 0 PROVE n \in roots
    BY <1>1
  <2>1. \A d \in Nat : d + 1 # 0
    OBVIOUS
  <2> QED
    BY <1>2, <2>1 DEF Inv, FoundByEdge
<1>4. ASSUME NEW d \in Nat, d \in S
      PROVE  d + 1 \in S
  <2> SUFFICES ASSUME NEW n \in Visited, depth[n] = d + 1 PROVE n \in r[d + 1]
    OBVIOUS
  <2>1. n \notin roots
    BY DEF RootsKept
  <2>2. PICK e \in ever : /\ e.to = n /\ e.relation \in follow
                          /\ e.from \in Visited /\ depth[e.from] + 1 = depth[n]
    BY <2>1 DEF Inv, FoundByEdge
  <2>3. depth[e.from] = d
    BY <1>2, <2>2
  <2>4. e.from \in r[d]
    BY <1>4, <2>2, <2>3
  <2> QED
    BY <1>1, <2>2, <2>4 DEF Wider
<1> HIDE DEF S
<1>5. Nat \subseteq S
  BY <1>3, <1>4, Induction
<1> QED
  BY <1>2, <1>5 DEF S, r

\* What d edges that stayed reach from a root is found, at d at most.
LEMMA StayedFound ==
  ASSUME Inv, RootsKept, NothingMissed, pc = "done"
  PROVE  \A d \in 0..limit : \A n \in Reach(stable)[d] : n \in Visited /\ depth[n] <= d
<1> DEFINE r == Reach(stable)
           S == {d \in Nat : d <= limit => \A n \in r[d] : n \in Visited /\ depth[n] <= d}
<1>1. r[0] = roots /\ \A d \in Nat : r[d + 1] = Wider(stable, r[d])
  BY ReachLevels
<1> HIDE DEF r
<1>2. limit \in Nat /\ \A n \in Visited : depth[n] \in Nat
  BY DEF Inv, TypeOK
<1>3. 0 \in S
  BY <1>1 DEF RootsKept
<1>4. ASSUME NEW d \in Nat, d \in S
      PROVE  d + 1 \in S
  <2> SUFFICES ASSUME d + 1 <= limit, NEW n \in r[d + 1]
               PROVE  n \in Visited /\ depth[n] <= d + 1
    OBVIOUS
  <2>1. d <= limit /\ d < limit
    BY <1>2
  <2>2. \A m \in r[d] : m \in Visited /\ depth[m] <= d /\ depth[m] \in Nat
    BY <1>2, <1>4, <2>1
  <2>3. CASE n \in r[d]
    BY <2>2, <2>3
  <2>4. CASE n \notin r[d]
    <3>1. PICK e \in stable : e.to = n /\ e.from \in r[d] /\ e.relation \in follow
      BY <1>1, <2>4 DEF Wider
    <3>2. e.from \in Visited /\ depth[e.from] < limit /\ depth[e.from] <= d
      BY <1>2, <2>1, <2>2, <3>1
    <3>3. n \in Visited /\ depth[n] <= depth[e.from] + 1
      BY <3>1, <3>2 DEF NothingMissed
    <3> QED
      BY <1>2, <3>2, <3>3
  <2> QED
    BY <2>3, <2>4
<1> HIDE DEF S
<1>5. Nat \subseteq S
  BY <1>3, <1>4, Induction
<1> QED
  BY <1>2, <1>5 DEF S, r

\* The walk finds what stays reachable within its limit, each node no further than that
\* path is long, and nothing but what edges that existed reach in as many steps
\* (recall_helpers.go:38): without changes, exactly the nodes within the limit, each at
\* its distance.
THEOREM WalkExact == Spec => []WalkRegular
<1>1. Inv /\ RootsKept /\ NothingMissed => WalkRegular
  <2> SUFFICES ASSUME Inv, RootsKept, NothingMissed, pc = "done" PROVE WalkRegular
    BY DEF WalkRegular
  <2>1. \A n \in Visited : n \in Reach(ever)[depth[n]]
    BY FoundReached
  <2>2. \A d \in 0..limit : \A n \in Reach(stable)[d] : n \in Visited /\ depth[n] <= d
    BY StayedFound
  <2>3. limit \in Nat /\ \A n \in Visited : depth[n] \in Nat /\ depth[n] <= limit
    BY DEF Inv, TypeOK, FoundByEdge
  <2>4. Reach(stable)[limit] \subseteq Visited
    BY <2>2, <2>3
  <2>5. Visited \subseteq Reach(ever)[limit]
    BY <2>1, <2>3, ReachGrows
  <2> QED
    BY <2>1, <2>2, <2>4, <2>5 DEF WalkRegular
<1> QED
  BY <1>1, SpecInv, RootsStay, WalkComplete, PTL

=============================================================================
