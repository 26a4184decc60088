---------------------------- MODULE PacketProofs ----------------------------
(***************************************************************************)
(* Proofs about Packet: types, the account a packet gives of every row     *)
(* that was read, and the fit into the token budget.                       *)
(***************************************************************************)
EXTENDS Packet, FiniteSetTheorems, WellFoundedInduction, TLAPS

Truncation == "token_budget_truncated"

\* Rows skipped before the budget was looked at.
Early == {s.item : s \in {s \in Elements(skipped) : s.reason # Truncation}}

\* The included rows the budget loop has passed.
Passed == {included[i] : i \in 1..(next - 1)}

\* No row is included twice.
Distinct == \A i, j \in DOMAIN included : included[i] = included[j] => i = j

\* No row is skipped twice or kept twice.
Counted ==
  /\ IsFiniteSet(Skipped) /\ Cardinality(Skipped) = Len(skipped)
  /\ IsFiniteSet(Elements(kept)) /\ Cardinality(Elements(kept)) = Len(kept)
  /\ IsFiniteSet(Truncated)

\* Until the limit cuts them, the rows are split into the included, the skipped and
\* those not looked at.
Split ==
  /\ stage \notin {"fitting", "sent"} => kept = <<>> /\ Truncated = {}
  /\ stage = "idle" => included = <<>> /\ skipped = <<>> /\ warned = {} /\ next = 1
  /\ stage = "scoring" =>
       /\ next <= Len(rows) + 1
       /\ Elements(included) \cup Early = 1..(next - 1) /\ warned \subseteq Elements(included)
  /\ stage \in {"ordered", "panicked"} => Elements(included) \cup Early = Items

\* Then the included rows are split into the kept, the truncated and those not looked
\* at; all others are skipped, unless the limit was reached.
Fit ==
  /\ stage \in {"fitting", "sent"} =>
       /\ next <= Len(included) + 1
       /\ Elements(kept) \cup Truncated = Passed /\ Elements(kept) \cap Truncated = {}
       /\ Len(kept) + Cardinality(Truncated) = next - 1
       /\ Elements(included) \cup Early = Items \/ Len(included) = request.limit
  /\ stage = "sent" => next = Len(included) + 1

\* What is included or warned about is not skipped before the budget is looked at.
Apart == Elements(included) \cap Early = {} /\ warned \cap Early = {}

AccountInv == TypeOK /\ Distinct /\ Counted /\ Apart /\ Split /\ Fit


-----------------------------------------------------------------------------
(* Sequences as sets.                                                      *)

\* A sequence's elements after one is appended.
LEMMA ElementsAppend ==
  \A S, s, x : s \in Seq(S) /\ x \in S =>
    /\ Elements(Append(s, x)) = Elements(s) \cup {x}
    /\ Append(s, x) \in Seq(S) /\ Len(Append(s, x)) = Len(s) + 1
<1> SUFFICES ASSUME NEW S, NEW s \in Seq(S), NEW x \in S
             PROVE  /\ Elements(Append(s, x)) = Elements(s) \cup {x}
                    /\ Append(s, x) \in Seq(S) /\ Len(Append(s, x)) = Len(s) + 1
  OBVIOUS
<1> DEFINE t == Append(s, x)
<1>1. /\ DOMAIN s = 1..Len(s) /\ Len(s) \in Nat
      /\ DOMAIN t = 1..(Len(s) + 1) /\ t[Len(s) + 1] = x
      /\ t \in Seq(S) /\ Len(t) = Len(s) + 1 /\ \A i \in 1..Len(s) : t[i] = s[i]
  OBVIOUS
<1> HIDE DEF t
<1>2. \A i \in DOMAIN t : i \in DOMAIN s \/ i = Len(s) + 1
  BY <1>1
<1>3. \A i \in DOMAIN s : i \in DOMAIN t
  BY <1>1
<1>4. Len(s) + 1 \in DOMAIN t
  BY <1>1
<1>5. Elements(t) = Elements(s) \cup {x}
  BY <1>1, <1>2, <1>3, <1>4 DEF Elements
<1> QED
  BY <1>1, <1>5 DEF t

\* A function over the first n numbers is a sequence.
LEMMA FunctionIsSequence ==
  ASSUME NEW S, NEW n \in Nat, NEW s \in [1..n -> S]
  PROVE  s \in Seq(S) /\ Len(s) = n
OBVIOUS

\* A row skipped is skipped for its reason and no other is.
LEMMA SkippedAppend ==
  ASSUME TypeOK, NEW i \in Items, NEW r \in Reasons,
         skipped' = Append(skipped, [item |-> i, reason |-> r])
  PROVE  /\ Skipped' = Skipped \cup {i} /\ Len(skipped') = Len(skipped) + 1
         /\ r = Truncation => Truncated' = Truncated \cup {i} /\ Early' = Early
         /\ r # Truncation => Truncated' = Truncated /\ Early' = Early \cup {i}
<1> DEFINE s == [item |-> i, reason |-> r]
<1>1. s \in [item: Items, reason: Reasons] /\ s.item = i /\ s.reason = r
  OBVIOUS
<1>2. skipped' = Append(skipped, s)
  OBVIOUS
<1> HIDE DEF s
<1>3. skipped \in Seq([item: Items, reason: Reasons])
  BY DEF TypeOK
<1>4. Elements(skipped') = Elements(skipped) \cup {s} /\ Len(skipped') = Len(skipped) + 1
  <2> DEFINE S == [item: Items, reason: Reasons]
  <2>1. s \in S /\ skipped \in Seq(S)
    BY <1>1, <1>3
  <2> HIDE DEF S
  <2> QED
    BY <1>2, <2>1, ElementsAppend
<1>5. Skipped' = Skipped \cup {i}
  BY <1>1, <1>4 DEF Skipped
<1>6. r = Truncation => Truncated' = Truncated \cup {i} /\ Early' = Early
  BY <1>1, <1>4 DEF Truncated, Early, Truncation
<1>7. r # Truncation => Truncated' = Truncated /\ Early' = Early \cup {i}
  BY <1>1, <1>4 DEF Truncated, Early, Truncation
<1> QED
  BY <1>4, <1>5, <1>6, <1>7

\* The skipped rows are those skipped before the budget and those it truncated.
LEMMA SkippedParts == Skipped = Early \cup Truncated
BY DEF Skipped, Early, Truncated, Truncation

\* A row is added to the account of the skipped.
LEMMA SkippedCounted ==
  ASSUME Counted, NEW i, i \notin Skipped, Skipped' = Skipped \cup {i},
         Len(skipped') = Len(skipped) + 1, UNCHANGED kept,
         Truncated' = Truncated \/ Truncated' = Truncated \cup {i}
  PROVE  Counted'
<1>1. IsFiniteSet(Skipped') /\ Cardinality(Skipped') = Cardinality(Skipped) + 1
  BY FS_AddElement DEF Counted
<1>2. IsFiniteSet(Truncated')
  BY FS_AddElement DEF Counted
<1>3. Elements(kept)' = Elements(kept)
  BY DEF Elements
<1> QED
  BY <1>1, <1>2, <1>3 DEF Counted

-----------------------------------------------------------------------------
(* Types.                                                                  *)

\* Every number of tokens and every budget is an integer.
LEMMA DataTypes ==
  ASSUME TypeOK
  PROVE  /\ \A r \in Rows : r.tokens \in Nat /\ r.tokens > 0
         /\ request.limit \in Int
         /\ RequestedBudget \in Int /\ RequestedBudget > 0
<1>1. \A r \in Rows : r.tokens \in Nat \ {0}
  BY DataAssumption DEF RowData
<1>2. request.limit \in Int /\ request.asked \in Int /\ request.hint \in Int
  BY DataAssumption DEF TypeOK, RequestData
<1>3. RequestedBudget \in Int /\ RequestedBudget > 0
  BY <1>2, BudgetAssumption DEF RequestedBudget
<1> QED
  BY <1>1, <1>2, <1>3

\* A sequence of rows the searches and the walk gave.
LEMMA RowsRead ==
  ASSUME NEW rs \in BoundedSeq(Rows, MaxRows)
  PROVE  rs \in Seq(Rows)
<1>1. PICK m \in 0..MaxRows : rs \in [1..m -> Rows]
  BY DEF BoundedSeq, SeqOf
<1> QED
  BY <1>1

\* The variables keep their types at every step.
LEMMA TypeStep ==
  ASSUME AccountInv, [Next]_vars
  PROVE  TypeOK'
<1> USE DEF Items
<1>1. TypeOK
  BY DEF AccountInv
<1>0. /\ rows \in Seq(Rows) /\ next \in Nat \ {0} /\ included \in Seq(Items)
      /\ kept \in Seq(Elements(included)) /\ warned \subseteq Items
      /\ skipped \in Seq([item: Items, reason: Reasons])
      /\ left \in Int /\ left >= -Overhead /\ Overhead \in Nat
  BY <1>1, BudgetAssumption DEF TypeOK
<1>2. ASSUME NEW rs \in BoundedSeq(Rows, MaxRows), Read(rs) PROVE TypeOK'
  <2>1. /\ included = <<>> /\ kept = <<>> /\ skipped = <<>> /\ warned = {} /\ next = 1
        /\ rows' = rs /\ stage' = "scoring"
        /\ UNCHANGED <<request, next, included, kept, skipped, warned, left>>
    BY <1>2 DEF Read, AccountInv, Split
  <2> QED
    BY <1>1, <1>2, <2>1, RowsRead DEF TypeOK
<1>3. CASE SkipRetired
  BY <1>1, <1>3 DEF SkipRetired, Scored, TypeOK, Reasons, Elements
<1>4. CASE SkipOutOfScope
  BY <1>1, <1>4 DEF SkipOutOfScope, Scored, TypeOK, Reasons, Elements
<1>5. CASE Include
  <2>1. kept = <<>> /\ included' = Append(included, next) /\ next \in Items
    BY <1>5 DEF Include, Scored, AccountInv, Split
  <2>2. included' \in Seq(Items) /\ kept' \in Seq(Elements(included'))
    BY <1>0, <1>5, <2>1 DEF Include
  <2>3. warned' \subseteq Items
    BY <1>0, <1>5, <2>1 DEF Include
  <2> QED
    BY <1>1, <1>0, <1>5, <2>2, <2>3 DEF TypeOK, Include, Scored
<1>6. CASE Order
  <2>1. kept = <<>> /\ included' \in [DOMAIN included -> Elements(included)]
    BY <1>6 DEF Order, AccountInv, Split
  <2>2. Elements(included) \subseteq Items /\ DOMAIN included = 1..Len(included)
    BY <1>0 DEF Elements
  <2>3. included' \in [1..Len(included) -> Items] /\ Len(included) \in Nat
    BY <1>0, <2>1, <2>2
  <2>4. included' \in Seq(Items)
    BY <2>3, FunctionIsSequence
  <2> QED
    BY <1>1, <1>6, <2>1, <2>4 DEF TypeOK, Order
<1>7. CASE Cut
  <2>1. kept = <<>>
    BY <1>7 DEF Cut, AccountInv, Split
  <2>2. included' \in Seq(Items)
    BY <1>0, <1>1, <1>7, DataTypes DEF Cut
  <2>3. left' \in Int /\ left' >= -Overhead
    BY <1>0, <1>1, <1>7, DataTypes DEF Cut
  <2> QED
    BY <1>1, <1>7, <2>1, <2>2, <2>3 DEF TypeOK, Cut
<1>8. CASE Panic
  BY <1>1, <1>8 DEF Panic, TypeOK, Elements
<1>9. CASE Keep
  <2>1. included[next] \in Elements(included) /\ included[next] \in Items
    BY <1>0, <1>9 DEF Keep, Fitted, Elements
  <2>2. rows[included[next]].tokens \in Nat
    BY <1>0, <1>1, <2>1, DataTypes
  <2>3. kept' \in Seq(Elements(included))
    <3>1. kept' = Append(kept, included[next]) /\ kept \in Seq(Elements(included))
      BY <1>0, <1>9 DEF Keep
    <3>2. Append(kept, included[next]) \in Seq(Elements(included))
      BY <2>1, <3>1
    <3> QED
      BY <3>1, <3>2
  <2>4. left' \in Int /\ left' >= -Overhead
    <3> DEFINE tokens == rows[included[next]].tokens
    <3>1. left' = left - tokens /\ tokens <= left /\ tokens \in Nat
      BY <1>9, <2>2 DEF Keep, Reduced
    <3>2. left \in Int /\ Overhead \in Nat
      BY <1>0
    <3> HIDE DEF tokens
    <3> QED
      BY <3>1, <3>2
  <2>5. UNCHANGED <<stage, request, rows, included, skipped, warned>> /\ next' = next + 1
    BY <1>9 DEF Keep
  <2> QED
    BY <1>0, <1>1, <2>3, <2>4, <2>5 DEF TypeOK, Elements
<1>10. CASE Truncate
  <2>1. included[next] \in Items
    BY <1>0, <1>10 DEF Truncate, Fitted
  <2>2. skipped' \in Seq([item: Items, reason: Reasons])
    BY <1>0, <1>10, <2>1 DEF Truncate, Reasons
  <2> QED
    BY <1>1, <1>10, <2>2 DEF TypeOK, Truncate, Continue, Elements
<1>11. CASE Send
  BY <1>1, <1>11 DEF Send, TypeOK, Elements
<1>12. CASE UNCHANGED vars
  BY <1>1, <1>12 DEF vars, TypeOK, Elements
<1> QED
  BY <1>2, <1>3, <1>4, <1>5, <1>6, <1>7, <1>8, <1>9, <1>10, <1>11, <1>12 DEF Next

-----------------------------------------------------------------------------
(* The account of every row.                                               *)

\* No row has been read.
LEMMA AccountInit == Init => AccountInv
<1> SUFFICES ASSUME Init PROVE AccountInv
  OBVIOUS
<1>1. Elements(<<>>) = {}
  BY DEF Elements
<1>2. Skipped = {} /\ Truncated = {} /\ Early = {}
  BY <1>1 DEF Init, Skipped, Truncated, Early
<1>3. TypeOK
  BY BudgetAssumption DEF Init, TypeOK
<1>4. Counted
  BY <1>1, <1>2, FS_EmptySet DEF Init, Counted
<1> QED
  BY <1>1, <1>2, <1>3, <1>4 DEF Init, AccountInv, Distinct, Apart, Split, Fit

\* Nothing is in an account that a step leaves alone.
LEMMA AccountKept ==
  ASSUME UNCHANGED <<skipped, kept>>
  PROVE  /\ Skipped' = Skipped /\ Truncated' = Truncated /\ Early' = Early
         /\ Elements(kept)' = Elements(kept) /\ (Counted => Counted')
<1>1. Skipped' = Skipped /\ Truncated' = Truncated /\ Early' = Early
  BY DEF Skipped, Truncated, Early, Elements
<1> QED
  BY <1>1 DEF Elements, Counted

\* The rows are read once, before any is looked at.
LEMMA ReadAccount ==
  ASSUME AccountInv, TypeOK', NEW rs, Read(rs)
  PROVE  AccountInv'
<1>1. /\ included = <<>> /\ kept = <<>> /\ skipped = <<>> /\ warned = {} /\ next = 1
      /\ Truncated = {} /\ stage' = "scoring"
      /\ UNCHANGED <<request, next, included, kept, skipped, warned, left>>
  BY DEF Read, AccountInv, Split
<1>2. /\ Skipped' = Skipped /\ Truncated' = Truncated /\ Early' = Early /\ Counted'
      /\ Early = {}
  BY <1>1, AccountKept DEF AccountInv, Early, Elements
<1>3. Elements(included') = {} /\ 1..(next' - 1) = {} /\ Len(rows') \in Nat
  BY <1>1 DEF Elements, TypeOK
<1>4. Distinct' /\ Apart'
  BY <1>1, <1>2 DEF Distinct, Apart, Elements
<1>5. Split' /\ Fit'
  BY <1>1, <1>2, <1>3 DEF Split, Fit
<1> QED
  BY <1>2, <1>4, <1>5 DEF AccountInv

\* The row looked at is skipped, with a reason that is not the budget.
LEMMA SkipAccount ==
  ASSUME AccountInv, TypeOK', SkipRetired \/ SkipOutOfScope
  PROVE  AccountInv'
<1>1. PICK r \in Reasons \ {Truncation} :
        skipped' = Append(skipped, [item |-> next, reason |-> r])
  BY DEF SkipRetired, SkipOutOfScope, Reasons, Truncation
<1>2. /\ stage = "scoring" /\ next \in Items /\ next' = next + 1
      /\ UNCHANGED <<stage, request, rows, included, kept, warned, left>>
  BY DEF SkipRetired, SkipOutOfScope, Scored
<1>3. /\ TypeOK /\ Distinct /\ Counted /\ Apart /\ Truncated = {} /\ kept = <<>>
      /\ next <= Len(rows) + 1 /\ Elements(included) \cup Early = 1..(next - 1)
      /\ warned \subseteq Elements(included)
  BY <1>2 DEF AccountInv, Split
<1>4. next \in 1..Len(rows) /\ Len(rows) \in Nat
  BY <1>2, <1>3 DEF TypeOK, Items
<1>5. /\ Skipped' = Skipped \cup {next} /\ Len(skipped') = Len(skipped) + 1
      /\ Truncated' = Truncated /\ Early' = Early \cup {next}
  BY <1>1, <1>2, <1>3, SkippedAppend
<1>6. next \notin 1..(next - 1) /\ 1..(next' - 1) = 1..(next - 1) \cup {next}
  BY <1>2, <1>4
<1>7. Skipped = Early
  BY <1>3, SkippedParts
<1>8. Counted'
  BY <1>2, <1>3, <1>5, <1>6, <1>7, SkippedCounted
<1>9. Elements(included)' = Elements(included)
  BY <1>2 DEF Elements
<1>11. Distinct'
  BY <1>2, <1>3 DEF Distinct
<1>12. Apart'
  BY <1>2, <1>3, <1>5, <1>6, <1>9 DEF Apart
<1>13. Split' /\ Fit'
  BY <1>2, <1>3, <1>4, <1>5, <1>6, <1>9 DEF Split, Fit
<1> QED
  BY <1>8, <1>11, <1>12, <1>13 DEF AccountInv

\* The row looked at is included.
LEMMA IncludeAccount ==
  ASSUME AccountInv, TypeOK', Include
  PROVE  AccountInv'
<1>1. /\ stage = "scoring" /\ next \in Items /\ next' = next + 1
      /\ included' = Append(included, next) /\ warned' \subseteq warned \cup {next}
      /\ UNCHANGED <<stage, request, rows, kept, skipped, left>>
  BY DEF Include, Scored
<1>2. /\ TypeOK /\ Distinct /\ Counted /\ Apart /\ Truncated = {} /\ kept = <<>>
      /\ next <= Len(rows) + 1 /\ Elements(included) \cup Early = 1..(next - 1)
      /\ warned \subseteq Elements(included)
  BY <1>1 DEF AccountInv, Split
<1>3. next \in 1..Len(rows) /\ Len(rows) \in Nat /\ included \in Seq(Items)
  BY <1>1, <1>2 DEF TypeOK, Items
<1>4. /\ Skipped' = Skipped /\ Truncated' = Truncated /\ Early' = Early /\ Counted'
  BY <1>1, <1>2, AccountKept
<1>5. Elements(included)' = Elements(included) \cup {next}
  BY <1>1, <1>3, ElementsAppend
<1>6. next \notin 1..(next - 1) /\ 1..(next' - 1) = 1..(next - 1) \cup {next}
  BY <1>1, <1>3
<1>7. Distinct'
  <2>1. /\ Len(included) \in Nat /\ DOMAIN included' = 1..(Len(included) + 1)
        /\ DOMAIN included = 1..Len(included) /\ included'[Len(included) + 1] = next
        /\ \A i \in 1..Len(included) : included'[i] = included[i]
    BY <1>1, <1>3
  <2>2. \A i \in 1..Len(included) : included[i] # next
    BY <1>2, <1>6, <2>1 DEF Elements
  <2>3. \A i \in DOMAIN included' : i \in DOMAIN included \/ i = Len(included) + 1
    BY <2>1
  <2> QED
    BY <1>2, <2>1, <2>2, <2>3 DEF Distinct
<1>8. Apart'
  BY <1>1, <1>2, <1>4, <1>5, <1>6 DEF Apart
<1>9. Split' /\ Fit'
  BY <1>1, <1>2, <1>3, <1>4, <1>5, <1>6 DEF Split, Fit
<1> QED
  BY <1>4, <1>7, <1>8, <1>9 DEF AccountInv

\* A sequence without repetitions that is ordered anew still has none.
LEMMA Reordered ==
  ASSUME NEW S, NEW s \in Seq(S), \A i, j \in DOMAIN s : s[i] = s[j] => i = j,
         NEW t \in [DOMAIN s -> Elements(s)], Elements(t) = Elements(s)
  PROVE  \A i, j \in DOMAIN t : t[i] = t[j] => i = j
<1> DEFINE D == DOMAIN s
           E == Elements(s)
<1>1. D = 1..Len(s) /\ Len(s) \in Nat
  OBVIOUS
<1>2. IsFiniteSet(D)
  BY <1>1, FS_Interval
<1>3. s \in Bijection(D, E)
  <2>1. s \in [D -> E]
    BY <1>1 DEF Elements
  <2>2. \A e \in E : \E i \in D : s[i] = e
    BY DEF Elements
  <2> QED
    BY <2>1, <2>2 DEF Bijection, Injection, Surjection, IsInjective
<1>4. IsFiniteSet(E) /\ Cardinality(E) = Cardinality(D)
  BY <1>2, <1>3, FS_Bijection DEF ExistsBijection
<1>5. t \in Surjection(D, E)
  BY DEF Surjection, Elements
<1>6. t \in Injection(D, E)
  BY <1>2, <1>4, <1>5, FS_SurjSameCardinalityImpliesInj
<1> QED
  BY <1>6 DEF Injection, IsInjective

\* The included rows are put in order.
LEMMA OrderAccount ==
  ASSUME AccountInv, TypeOK', Order
  PROVE  AccountInv'
<1>1. /\ stage = "scoring" /\ next \notin Items /\ stage' = "ordered"
      /\ included' \in [DOMAIN included -> Elements(included)]
      /\ Elements(included') = Elements(included)
      /\ UNCHANGED <<request, rows, next, kept, skipped, warned, left>>
  BY DEF Order
<1>2. /\ TypeOK /\ Distinct /\ Counted /\ Apart /\ Truncated = {} /\ kept = <<>>
      /\ next <= Len(rows) + 1 /\ Elements(included) \cup Early = 1..(next - 1)
  BY <1>1 DEF AccountInv, Split
<1>3. included \in Seq(Items) /\ next \in Nat \ {0} /\ Len(rows) \in Nat /\ Items = 1..Len(rows)
  BY <1>2 DEF TypeOK, Items
<1>4. next = Len(rows) + 1
  BY <1>1, <1>2, <1>3
<1>5. 1..(next - 1) = Items /\ Items' = Items
  BY <1>1, <1>3, <1>4 DEF Items
<1>6. /\ Skipped' = Skipped /\ Truncated' = Truncated /\ Early' = Early /\ Counted'
  BY <1>1, <1>2, AccountKept
<1>7. Distinct'
  BY <1>1, <1>2, <1>3, Reordered DEF Distinct
<1>8. Apart' /\ Split' /\ Fit'
  BY <1>1, <1>2, <1>5, <1>6 DEF Apart, Split, Fit
<1> QED
  BY <1>6, <1>7, <1>8 DEF AccountInv

\* What the limit cuts off is in no account.
LEMMA CutAccount ==
  ASSUME AccountInv, TypeOK', Cut
  PROVE  AccountInv'
<1> DEFINE n == IF request.limit < Len(included) THEN request.limit ELSE Len(included)
<1>1. /\ stage = "ordered" /\ request.limit >= 0 /\ stage' = "fitting" /\ next' = 1
      /\ included' = SubSeq(included, 1, n)
      /\ UNCHANGED <<request, rows, kept, skipped, warned>>
  BY DEF Cut
<1>2. /\ TypeOK /\ Distinct /\ Counted /\ Apart /\ Truncated = {} /\ kept = <<>>
      /\ Elements(included) \cup Early = Items
  BY <1>1 DEF AccountInv, Split
<1>3. included \in Seq(Items) /\ Len(included) \in Nat /\ request.limit \in Int
  BY <1>2, DataTypes DEF TypeOK
<1>4. n \in 0..Len(included)
  BY <1>1, <1>3
<1>5. n = request.limit \/ n = Len(included)
  OBVIOUS
<1> HIDE DEF n
<1>6. /\ Len(included') = n /\ DOMAIN included' = 1..n /\ DOMAIN included = 1..Len(included)
      /\ \A i \in 1..n : included'[i] = included[i] /\ i \in DOMAIN included
  BY <1>1, <1>3, <1>4
<1>7. Elements(included') \subseteq Elements(included)
        /\ (n = Len(included) => Elements(included') = Elements(included))
  BY <1>6 DEF Elements
<1>8. /\ Skipped' = Skipped /\ Truncated' = Truncated /\ Early' = Early /\ Counted'
      /\ Items' = Items
  BY <1>1, <1>2, AccountKept DEF Items
<1>9. Distinct'
  BY <1>2, <1>6 DEF Distinct
<1>10. Apart'
  BY <1>1, <1>2, <1>7, <1>8 DEF Apart
<1>11. Elements(kept') = {} /\ Passed' = {} /\ Len(kept') = 0 /\ Cardinality(Truncated') = 0
  <2>1. 1..(next' - 1) = {}
    BY <1>1
  <2> QED
    BY <1>1, <1>2, <1>8, <2>1, FS_EmptySet DEF Elements, Passed
<1>12. Split' /\ Fit'
  <2>1. next' <= Len(included') + 1 /\ Len(kept') + Cardinality(Truncated') = next' - 1
    BY <1>1, <1>4, <1>6, <1>11
  <2>2. Elements(included') \cup Early' = Items' \/ Len(included') = request'.limit
    BY <1>1, <1>2, <1>5, <1>6, <1>7, <1>8
  <2>3. Elements(kept') \cup Truncated' = Passed' /\ Elements(kept') \cap Truncated' = {}
    BY <1>2, <1>8, <1>11
  <2> QED
    BY <1>1, <2>1, <2>2, <2>3 DEF Split, Fit
<1> QED
  BY <1>8, <1>9, <1>10, <1>12 DEF AccountInv

\* The row the budget loop is at is included, has not been passed, and is neither kept
\* nor skipped.
LEMMA LoopAt ==
  ASSUME AccountInv, stage = "fitting", next \in DOMAIN included
  PROVE  /\ next \in 1..Len(included) /\ Len(included) \in Nat
         /\ included[next] \in Items /\ included[next] \in Elements(included)
         /\ included[next] \notin Passed /\ included[next] \notin Skipped
         /\ included[next] \notin Elements(kept)
         /\ {included[i] : i \in 1..next} = Passed \cup {included[next]}
<1>1. /\ included \in Seq(Items) /\ Distinct /\ Apart
      /\ Elements(kept) \cup Truncated = Passed
  BY DEF AccountInv, TypeOK, Fit
<1>2. DOMAIN included = 1..Len(included) /\ Len(included) \in Nat
  BY <1>1
<1>3. included[next] \in Items /\ included[next] \in Elements(included)
  BY <1>1 DEF Elements
<1>4. \A i \in 1..(next - 1) : i \in DOMAIN included /\ i # next
  BY <1>2
<1>5. included[next] \notin Passed
  BY <1>1, <1>4 DEF Passed, Distinct
<1>6. included[next] \notin Early
  BY <1>1, <1>3 DEF Apart
<1>7. \A i : i \in 1..next <=> i \in 1..(next - 1) \/ i = next
  BY <1>2
<1>8. {included[i] : i \in 1..next} = Passed \cup {included[next]}
  BY <1>7 DEF Passed
<1> QED
  BY <1>1, <1>2, <1>3, <1>5, <1>6, <1>8, SkippedParts

\* A row that fits is kept.
LEMMA KeepAccount ==
  ASSUME AccountInv, TypeOK', Keep
  PROVE  AccountInv'
<1> DEFINE x == included[next]
<1>1. /\ stage = "fitting" /\ next \in DOMAIN included /\ next' = next + 1
      /\ kept' = Append(kept, x)
      /\ UNCHANGED <<stage, request, rows, included, skipped, warned>>
  BY DEF Keep, Fitted
<1>2. /\ kept \in Seq(Elements(included)) /\ Distinct /\ Counted /\ Apart
      /\ Elements(kept) \cup Truncated = Passed /\ Elements(kept) \cap Truncated = {}
      /\ Len(kept) + Cardinality(Truncated) = next - 1
      /\ Elements(included) \cup Early = Items \/ Len(included) = request.limit
  BY <1>1 DEF AccountInv, TypeOK, Fit
<1>3. /\ next \in 1..Len(included) /\ Len(included) \in Nat
      /\ x \in Elements(included) /\ x \notin Passed /\ x \notin Skipped /\ x \notin Elements(kept)
      /\ {included[i] : i \in 1..next} = Passed \cup {x}
  BY <1>1, LoopAt
<1> HIDE DEF x
<1>4. Elements(kept') = Elements(kept) \cup {x} /\ Len(kept') = Len(kept) + 1 /\ Len(kept) \in Nat
  BY <1>1, <1>2, <1>3, ElementsAppend
<1>5. Skipped' = Skipped /\ Truncated' = Truncated /\ Early' = Early
  BY <1>1 DEF Skipped, Truncated, Early, Elements
<1>6. Counted'
  <2>1. /\ IsFiniteSet(Elements(kept'))
        /\ Cardinality(Elements(kept')) = Cardinality(Elements(kept)) + 1
    <3>1. IsFiniteSet(Elements(kept))
      BY <1>2 DEF Counted
    <3>2. /\ IsFiniteSet(Elements(kept) \cup {x})
          /\ Cardinality(Elements(kept) \cup {x}) = Cardinality(Elements(kept)) + 1
      BY <1>3, <3>1, FS_AddElement
    <3> QED
      BY <1>4, <3>2
  <2>2. Len(skipped') = Len(skipped)
    BY <1>1
  <2> QED
    BY <1>2, <1>4, <1>5, <2>1, <2>2 DEF Counted
<1>7. Passed' = Passed \cup {x}
  <2>1. next' - 1 = next
    BY <1>1, <1>3
  <2> QED
    BY <1>1, <1>3, <2>1 DEF Passed
<1>8. x \notin Truncated
  BY <1>3, SkippedParts
<1>9. Distinct' /\ Apart'
  BY <1>1, <1>2, <1>5 DEF Distinct, Apart, Elements
<1>10. Split'
  BY <1>1 DEF Split
<1>11. Fit'
  <2>1. next' <= Len(included') + 1
    BY <1>1, <1>3
  <2>2. Elements(kept') \cup Truncated' = Passed' /\ Elements(kept') \cap Truncated' = {}
    BY <1>2, <1>4, <1>5, <1>7, <1>8
  <2>3. Len(kept') + Cardinality(Truncated') = next' - 1
    <3>1. Cardinality(Truncated) \in Nat
      BY <1>2, FS_CardinalityType DEF Counted
    <3> QED
      BY <1>1, <1>2, <1>3, <1>4, <1>5, <3>1
  <2>4. Elements(included') \cup Early' = Items' \/ Len(included') = request'.limit
    BY <1>1, <1>2, <1>5 DEF Items
  <2> QED
    BY <1>1, <2>1, <2>2, <2>3, <2>4 DEF Fit
<1> QED
  BY <1>6, <1>9, <1>10, <1>11 DEF AccountInv

\* A row that does not fit is skipped, and the loop goes on.
LEMMA TruncateAccount ==
  ASSUME AccountInv, TypeOK', Truncate
  PROVE  AccountInv'
<1> DEFINE x == included[next]
<1>1. /\ stage = "fitting" /\ next \in DOMAIN included /\ next' = next + 1
      /\ skipped' = Append(skipped, [item |-> x, reason |-> Truncation])
      /\ UNCHANGED <<stage, request, rows, included, kept, warned>>
  BY DEF Truncate, Fitted, Continue, Truncation
<1>2. /\ TypeOK /\ kept \in Seq(Elements(included)) /\ Distinct /\ Counted /\ Apart
      /\ Elements(kept) \cup Truncated = Passed /\ Elements(kept) \cap Truncated = {}
      /\ Len(kept) + Cardinality(Truncated) = next - 1
      /\ Elements(included) \cup Early = Items \/ Len(included) = request.limit
  BY <1>1 DEF AccountInv, TypeOK, Fit
<1>3. /\ next \in 1..Len(included) /\ Len(included) \in Nat /\ x \in Items
      /\ x \in Elements(included) /\ x \notin Passed /\ x \notin Skipped /\ x \notin Elements(kept)
      /\ {included[i] : i \in 1..next} = Passed \cup {x}
  BY <1>1, LoopAt
<1> HIDE DEF x
<1>4. /\ Skipped' = Skipped \cup {x} /\ Len(skipped') = Len(skipped) + 1
      /\ Truncated' = Truncated \cup {x} /\ Early' = Early
  BY <1>1, <1>2, <1>3, SkippedAppend DEF Reasons, Truncation
<1>5. Elements(kept') = Elements(kept) /\ Len(kept') = Len(kept) /\ Len(kept) \in Nat
  BY <1>1, <1>2
<1>6. Counted'
  BY <1>1, <1>2, <1>3, <1>4, SkippedCounted
<1>7. Passed' = Passed \cup {x}
  <2>1. next' - 1 = next
    BY <1>1, <1>3
  <2> QED
    BY <1>1, <1>3, <2>1 DEF Passed
<1>8. x \notin Truncated
  BY <1>3, SkippedParts
<1>9. Distinct' /\ Apart'
  BY <1>1, <1>2, <1>4 DEF Distinct, Apart, Elements
<1>10. Split'
  BY <1>1 DEF Split
<1>11. Fit'
  <2>1. next' <= Len(included') + 1
    BY <1>1, <1>3
  <2>2. Elements(kept') \cup Truncated' = Passed' /\ Elements(kept') \cap Truncated' = {}
    BY <1>2, <1>3, <1>4, <1>5, <1>7
  <2>3. Len(kept') + Cardinality(Truncated') = next' - 1
    <3>1. /\ Cardinality(Truncated) \in Nat
          /\ Cardinality(Truncated \cup {x}) = Cardinality(Truncated) + 1
      BY <1>2, <1>8, FS_CardinalityType, FS_AddElement DEF Counted
    <3> QED
      BY <1>1, <1>2, <1>3, <1>4, <1>5, <3>1
  <2>4. Elements(included') \cup Early' = Items' \/ Len(included') = request'.limit
    BY <1>1, <1>2, <1>4 DEF Items
  <2> QED
    BY <1>1, <2>1, <2>2, <2>3, <2>4 DEF Fit
<1> QED
  BY <1>6, <1>9, <1>10, <1>11 DEF AccountInv

\* A step that changes at most the stage, to one of the same account.
LEMMA StageAccount ==
  ASSUME AccountInv, TypeOK',
         Panic \/ Send \/ UNCHANGED vars
  PROVE  AccountInv'
<1>1. UNCHANGED <<request, rows, next, included, kept, skipped, warned, left>>
  BY DEF Panic, Send, vars
<1>2. /\ Skipped' = Skipped /\ Truncated' = Truncated /\ Early' = Early /\ Counted'
      /\ Elements(kept') = Elements(kept) /\ Passed' = Passed
  BY <1>1, AccountKept DEF AccountInv, Passed
<1>3. Distinct' /\ Apart'
  BY <1>1, <1>2 DEF AccountInv, Distinct, Apart
<1>4. CASE Panic
  BY <1>1, <1>2, <1>3, <1>4 DEF Panic, AccountInv, Split, Fit, Items
<1>5. CASE Send
  <2>1. included \in Seq(Items) /\ next \in Nat \ {0} /\ next <= Len(included) + 1
    BY <1>5 DEF Send, AccountInv, TypeOK, Fit
  <2>2. next = Len(included) + 1
    BY <1>5, <2>1 DEF Send
  <2> QED
    BY <1>1, <1>2, <1>3, <1>5, <2>2 DEF Send, AccountInv, Split, Fit, Items
<1>6. CASE UNCHANGED vars
  BY <1>1, <1>2, <1>3, <1>6 DEF vars, AccountInv, Split, Fit, Items
<1> QED
  BY <1>4, <1>5, <1>6

\* The account of the rows is right at every step.
LEMMA AccountAlways == Spec => []AccountInv
<1>1. AccountInv /\ [Next]_vars => AccountInv'
  <2> SUFFICES ASSUME AccountInv, [Next]_vars PROVE AccountInv'
    OBVIOUS
  <2>1. TypeOK'
    BY TypeStep
  <2> QED
    BY <2>1, ReadAccount, SkipAccount, IncludeAccount, OrderAccount, CutAccount,
       KeepAccount, TruncateAccount, StageAccount
    DEF Next
<1> QED
  BY <1>1, AccountInit, PTL DEF Spec

\* The variables have their types: above all, no budget that is not positive is ever
\* fitted to.
THEOREM TypeCorrect == Spec => []TypeOK
<1>1. AccountInv => TypeOK
  BY DEF AccountInv
<1> QED
  BY <1>1, AccountAlways, PTL

\* A packet accounts once for every row that was read, however the rows are ordered
\* and cut and whatever fits.
THEOREM PacketAccounts == Spec => []Accounted
<1>1. AccountInv => Accounted
  <2> SUFFICES ASSUME AccountInv, stage = "sent" PROVE Accounted
    BY DEF Accounted
  <2>1. /\ Counted /\ Apart /\ included \in Seq(Items) /\ next = Len(included) + 1
        /\ Elements(kept) \cup Truncated = Passed /\ Elements(kept) \cap Truncated = {}
        /\ Len(kept) + Cardinality(Truncated) = next - 1
        /\ Elements(included) \cup Early = Items \/ Len(included) = request.limit
    BY DEF AccountInv, TypeOK, Fit
  <2>2. next - 1 = Len(included) /\ DOMAIN included = 1..Len(included)
    BY <2>1
  <2>3. Passed = Elements(included)
    BY <2>2 DEF Passed, Elements
  <2>4. Elements(kept) \cap Skipped = {} /\ warned \cap Skipped \subseteq Truncated
    BY <2>1, <2>3, SkippedParts DEF Apart
  <2>5. Absent # {} => Len(kept) + Cardinality(Truncated) = request.limit
    BY <2>1, <2>2, <2>3, SkippedParts DEF Absent
  <2> QED
    BY <2>1, <2>4, <2>5 DEF Accounted, Counted
<1> QED
  BY <1>1, AccountAlways, PTL

-----------------------------------------------------------------------------
(* The fit.                                                                *)

\* g gives what is left of the budget after each of the first n ranks.
IsRoom(g, n) ==
  g = [m \in 0..n |-> IF m = 0 THEN RequestedBudget - Overhead ELSE g[m - 1] - TokensAt(m)]

\* Of the first n ranks those are kept that fit in what g leaves.
RoomFits(g, n) ==
  \A m \in 1..n : (included[m] \in Elements(kept)) <=> (rows[included[m]].tokens <= g[m - 1])

\* The loop's variable is what is left after the ranks it passed.  There is one such
\* account of the room, and only one.
RoomInv ==
  stage \in {"fitting", "sent"} =>
    /\ \E g : IsRoom(g, next - 1)
    /\ \A g : IsRoom(g, next - 1) => g[next - 1] = left /\ RoomFits(g, next - 1)

\* Before the loop all of the budget is left.
LEMMA RoomAtStart ==
  ASSUME AccountInv, Cut
  PROVE  RoomInv'
<1> DEFINE budget == RequestedBudget - Overhead
           all == [m \in 0..0 |-> budget]
<1>1. next' = 1 /\ left' = budget /\ RequestedBudget' = RequestedBudget
  BY DEF Cut, RequestedBudget
<1>2. 0..0 = {0} /\ 1..0 = {} /\ next' - 1 = 0
  BY <1>1
<1>3. \A g : g = [m \in 0..0 |-> IF m = 0 THEN budget ELSE g[m - 1] - TokensAt(m)']
               <=> g = all
  BY <1>2
<1>4. \A g : IsRoom(g, next - 1)' <=> g = all
  BY <1>1, <1>2, <1>3 DEF IsRoom
<1>5. all[0] = left'
  BY <1>1, <1>2
<1> QED
  BY <1>1, <1>2, <1>4, <1>5 DEF RoomInv, RoomFits

\* At each rank the loop keeps the row if it fits, and takes from the room what it kept.
LEMMA RoomAtRank ==
  ASSUME AccountInv, RoomInv, Keep \/ Truncate
  PROVE  RoomInv'
<1>1. PICK n, x, tokens : n = next /\ x = included[next] /\ tokens = rows[included[next]].tokens
  OBVIOUS
<1>2. /\ stage = "fitting" /\ n \in DOMAIN included /\ next' = n + 1
      /\ UNCHANGED <<stage, request, rows, included>>
      /\ \/ kept' = Append(kept, x) /\ tokens <= left /\ left' = left - tokens
         \/ kept' = kept /\ tokens > left /\ left' = left
  BY <1>1 DEF Keep, Truncate, Fitted, Reduced, Continue
<1>3. /\ n \in 1..Len(included) /\ Len(included) \in Nat
      /\ x \in Items /\ x \in Elements(included) /\ x \notin Passed /\ x \notin Elements(kept)
  BY <1>1, <1>2, LoopAt
<1>4. tokens \in Nat /\ left \in Int /\ kept \in Seq(Elements(included))
  <2>1. rows \in Seq(Rows) /\ x \in DOMAIN rows /\ \A r \in Rows : r.tokens \in Nat
    BY <1>3, DataTypes DEF AccountInv, TypeOK, Items
  <2>2. rows[x] \in Rows
    BY <2>1
  <2> QED
    BY <1>1, <2>1, <2>2 DEF AccountInv, TypeOK
<1>5. Elements(Append(kept, x)) = Elements(kept) \cup {x}
  BY <1>3, <1>4, ElementsAppend
<1>6. (x \in Elements(kept')) <=> (tokens <= left)
  <2>1. tokens <= left => kept' = Append(kept, x)
    BY <1>2, <1>4
  <2>2. ~(tokens <= left) => kept' = kept
    BY <1>2, <1>4
  <2>3. CASE tokens <= left
    BY <1>5, <2>1, <2>3
  <2>4. CASE ~(tokens <= left)
    BY <1>3, <2>2, <2>4
  <2> QED
    BY <2>3, <2>4
<1>7. \A y : y # x => (y \in Elements(kept') <=> y \in Elements(kept))
  BY <1>2, <1>5
<1>8. ASSUME NEW m \in 1..(n - 1)
      PROVE  /\ included'[m] = included[m] /\ rows'[included'[m]] = rows[included[m]]
             /\ included'[m] \in Elements(kept') <=> included[m] \in Elements(kept)
             /\ TokensAt(m)' = TokensAt(m)
  <2>1. included[m] # x
    BY <1>1, <1>3 DEF Passed
  <2>2. /\ included'[m] = included[m] /\ rows'[included'[m]] = rows[included[m]]
        /\ included'[m] \in Elements(kept') <=> included[m] \in Elements(kept)
    BY <1>2, <1>7, <2>1
  <2>3. TokensAt(m)' = IF included'[m] \in Elements(kept') THEN rows'[included'[m]].tokens ELSE 0
    BY DEF TokensAt, Elements
  <2> QED
    BY <2>2, <2>3 DEF TokensAt
<1>9. TokensAt(n)' = left - left' /\ left' \in Int
  <2>1. TokensAt(n)' = IF x \in Elements(kept') THEN tokens ELSE 0
    BY <1>1, <1>2 DEF TokensAt, Elements
  <2> QED
    BY <1>2, <1>4, <1>6, <2>1
<1>10. RequestedBudget' = RequestedBudget
  BY <1>2 DEF RequestedBudget
<1>11. /\ n \in Nat /\ n > 0 /\ 0..(n - 1) \subseteq 0..n /\ 1..(n - 1) \subseteq 1..n
       /\ \A m \in 0..n : m # 0 => m - 1 \in 0..(n - 1) /\ m \in 1..n
       /\ \A m \in 0..n : m \in 0..(n - 1) \/ m = n
       /\ \A m \in 1..n : m \in 1..(n - 1) \/ m = n
       /\ \A m \in 0..(n - 1) : m # n /\ (m # 0 => m \in 1..(n - 1))
  BY <1>3
<1>12. /\ \E g : IsRoom(g, n - 1)
       /\ \A g : IsRoom(g, n - 1) => g[n - 1] = left /\ RoomFits(g, n - 1)
  BY <1>1, <1>2 DEF RoomInv
<1>13. ASSUME NEW g
       PROVE  IsRoom(g, n)' <=>
                g = [m \in 0..n |-> IF m = 0 THEN RequestedBudget - Overhead
                                    ELSE g[m - 1] - TokensAt(m)']
  BY <1>10 DEF IsRoom
<1>14. \E h : IsRoom(h, n)'
  <2>1. PICK g : IsRoom(g, n - 1)
    BY <1>12
  <2> DEFINE h == [m \in 0..n |-> IF m = n THEN g[n - 1] - TokensAt(n)' ELSE g[m]]
  <2>2. \A m \in 0..(n - 1) : h[m] = g[m]
    BY <1>11
  <2>3. \A m \in 0..(n - 1) :
          g[m] = IF m = 0 THEN RequestedBudget - Overhead ELSE g[m - 1] - TokensAt(m)
    BY <2>1 DEF IsRoom
  <2>4. \A m \in 0..n :
          h[m] = IF m = 0 THEN RequestedBudget - Overhead ELSE h[m - 1] - TokensAt(m)'
    <3>1. SUFFICES ASSUME NEW m \in 0..n
                   PROVE  h[m] = IF m = 0 THEN RequestedBudget - Overhead
                                 ELSE h[m - 1] - TokensAt(m)'
      OBVIOUS
    <3>2. CASE m = n
      <4>1. h[n] = g[n - 1] - TokensAt(n)' /\ h[n - 1] = g[n - 1] /\ n # 0
        BY <1>11, <2>2
      <4> QED
        BY <3>2, <4>1
    <3>3. CASE m # n
      <4>1. m \in 0..(n - 1) /\ (m # 0 => m \in 1..(n - 1) /\ m - 1 \in 0..(n - 1))
        BY <1>11, <3>3
      <4>2. h[m] = g[m] /\ (m # 0 => h[m - 1] = g[m - 1] /\ TokensAt(m)' = TokensAt(m))
        BY <1>8, <2>2, <4>1
      <4> QED
        BY <2>3, <4>1, <4>2
    <3> QED
      BY <3>2, <3>3
  <2>5. h = [m \in 0..n |-> h[m]]
    OBVIOUS
  <2> HIDE DEF h
  <2>6. h = [m \in 0..n |-> IF m = 0 THEN RequestedBudget - Overhead
                            ELSE h[m - 1] - TokensAt(m)']
    BY <2>4, <2>5
  <2> QED
    BY <1>13, <2>6
<1>15. ASSUME NEW g, IsRoom(g, n)'
       PROVE  g[n] = left' /\ RoomFits(g, n)'
  <2>1. \A m \in 0..n :
          g[m] = IF m = 0 THEN RequestedBudget - Overhead ELSE g[m - 1] - TokensAt(m)'
    BY <1>13, <1>15
  <2> DEFINE f == [m \in 0..(n - 1) |-> g[m]]
  <2>2. \A m \in 0..(n - 1) : f[m] = g[m]
    OBVIOUS
  <2>3. f = [m \in 0..(n - 1) |-> f[m]]
    OBVIOUS
  <2> HIDE DEF f
  <2>4. \A m \in 0..(n - 1) :
          f[m] = IF m = 0 THEN RequestedBudget - Overhead ELSE f[m - 1] - TokensAt(m)
    <3>1. SUFFICES ASSUME NEW m \in 0..(n - 1)
                   PROVE  f[m] = IF m = 0 THEN RequestedBudget - Overhead
                                 ELSE f[m - 1] - TokensAt(m)
      OBVIOUS
    <3>2. m \in 0..n /\ (m # 0 => m - 1 \in 0..(n - 1) /\ m \in 1..(n - 1))
      BY <1>11
    <3>3. m # 0 => TokensAt(m)' = TokensAt(m)
      BY <1>8, <3>2
    <3> QED
      BY <2>1, <2>2, <3>2, <3>3
  <2>5. IsRoom(f, n - 1)
    BY <2>3, <2>4 DEF IsRoom
  <2>6. f[n - 1] = left /\ RoomFits(f, n - 1)
    BY <1>12, <2>5
  <2>7. g[n - 1] = left /\ n - 1 \in 0..(n - 1)
    BY <1>11, <2>2, <2>6
  <2>8. g[n] = left'
    <3>1. g[n] = g[n - 1] - TokensAt(n)'
      BY <1>11, <2>1
    <3>2. left - (left - left') = left'
      <4>1. \A a, b \in Int : a - (a - b) = b
        OBVIOUS
      <4> QED
        BY <1>4, <1>9, <4>1
    <3>3. g[n] = left - TokensAt(n)'
      BY <2>7, <3>1
    <3>4. left - TokensAt(n)' = left - (left - left')
      BY <1>9
    <3> QED
      BY <3>2, <3>3, <3>4
  <2>9. ASSUME NEW m \in 1..n
        PROVE  (included'[m] \in Elements(kept')) <=> (rows'[included'[m]].tokens <= g[m - 1])
    <3>1. CASE m = n
      BY <1>1, <1>2, <1>6, <2>7, <3>1
    <3>2. CASE m # n
      <4>1. m \in 1..(n - 1) /\ m - 1 \in 0..(n - 1)
        BY <1>11, <3>2
      <4>2. (included[m] \in Elements(kept)) <=> (rows[included[m]].tokens <= f[m - 1])
        BY <2>6, <4>1 DEF RoomFits
      <4> QED
        BY <1>8, <2>2, <4>1, <4>2
    <3> QED
      BY <3>1, <3>2
  <2>10. RoomFits(g, n)'
    BY <2>9 DEF RoomFits, Elements
  <2> QED
    BY <2>8, <2>10
<1>16. next' - 1 = n
  BY <1>2, <1>11
<1> QED
  BY <1>14, <1>15, <1>16 DEF RoomInv, IsRoom, RoomFits

\* A step that leaves the loop's state alone.
LEMMA RoomKept ==
  ASSUME RoomInv, UNCHANGED <<request, rows, next, included, kept, left>>,
         stage' \in {"fitting", "sent"} => stage \in {"fitting", "sent"}
  PROVE  RoomInv'
BY DEF RoomInv, IsRoom, RoomFits, TokensAt, RequestedBudget, Elements

\* The packet's rows fit in the token budget, and each row of the order is left out for
\* the budget exactly when it does not fit in what those before it left.
THEOREM PacketFits == Spec => []FirstFit
<1>1. Init => RoomInv
  BY DEF Init, RoomInv
<1>2. ASSUME AccountInv, RoomInv, [Next]_vars PROVE RoomInv'
  <2>1. CASE Panic \/ Send \/ UNCHANGED vars
    BY <1>2, <2>1, RoomKept DEF Panic, Send, vars
  <2>2. CASE Order \/ SkipRetired \/ SkipOutOfScope \/ Include
    BY <2>2 DEF Order, SkipRetired, SkipOutOfScope, Include, Scored, RoomInv
  <2>3. ASSUME NEW rs, Read(rs) PROVE RoomInv'
    BY <2>3 DEF Read, RoomInv
  <2> QED
    BY <1>2, <2>1, <2>2, <2>3, RoomAtStart, RoomAtRank DEF Next
<1>3. AccountInv /\ RoomInv => FirstFit
  <2> SUFFICES ASSUME AccountInv, RoomInv, stage = "sent" PROVE FirstFit
    BY DEF FirstFit
  <2> DEFINE n == Len(included)
             step(g) == [m \in 0..n |-> IF m = 0 THEN RequestedBudget - Overhead
                                        ELSE g[m - 1] - TokensAt(m)]
             room == CHOOSE g : g = step(g)
  <2>1. included \in Seq(Items) /\ next = n + 1
    BY DEF AccountInv, TypeOK, Fit
  <2>2. next - 1 = n /\ DOMAIN included = 1..n
    BY <2>1
  <2>3. \E g : g = step(g)
    BY <2>2 DEF RoomInv, IsRoom
  <2>4. room = step(room)
    BY <2>3
  <2>5. RoomFits(room, n)
    BY <2>2, <2>4 DEF RoomInv, IsRoom
  <2> QED
    BY <2>2, <2>5 DEF FirstFit, RoomFits
<1> QED
  BY <1>1, <1>2, <1>3, AccountAlways, PTL DEF Spec

-----------------------------------------------------------------------------
(* Powers and rounding.                                                    *)

Smaller == {ss \in Nat \X Nat : ss[1] < ss[2]}

\* Numbers do not descend for ever.
LEMMA SmallerWellFounded == IsWellFoundedOn(Smaller, Nat)
BY NatLessThanWellFounded DEF OpToRel, Smaller

\* A set that holds 0 and with each number the next holds all.
LEMMA Induction ==
  ASSUME NEW S, 0 \in S, \A n \in Nat : n \in S => n + 1 \in S
  PROVE  Nat \subseteq S
<1> SUFFICES ASSUME Nat \ S # {} PROVE FALSE
  OBVIOUS
<1>1. \A a, b \in Nat : a < b => <<a, b>> \in Smaller
  BY DEF Smaller
<1>2. PICK m \in Nat \ S : \A n \in Nat \ S : ~(<<n, m>> \in Smaller)
  <2>1. Nat \ S \subseteq Nat
    OBVIOUS
  <2> QED
    BY <2>1, SmallerWellFounded, WFMin
<1>3. m # 0 /\ m - 1 \in Nat /\ m - 1 < m
  BY <1>2
<1>4. m - 1 \in S
  BY <1>1, <1>2, <1>3
<1>5. m \in S
  BY <1>3, <1>4
<1> QED
  BY <1>2, <1>5

\* The first powers of b are in g.
Powers(b, g, n) == \A d \in 0..n : g[d] = IF d = 0 THEN 1 ELSE b * g[d - 1]

\* Two functions that hold them agree.
LEMMA PowersAgree ==
  ASSUME NEW b, NEW n \in Nat, NEW m \in Nat, n <= m, NEW g, NEW h,
         Powers(b, g, n), Powers(b, h, m)
  PROVE  g[n] = h[n]
<1> DEFINE S == {d \in Nat : d <= n => g[d] = h[d]}
<1>1. 0 \in S
  BY DEF Powers
<1>2. ASSUME NEW d \in Nat, d \in S
      PROVE  d + 1 \in S
  <2> SUFFICES ASSUME d + 1 <= n PROVE g[d + 1] = h[d + 1]
    OBVIOUS
  <2>1. /\ g[d] = h[d] /\ d + 1 \in 0..n /\ d + 1 \in 0..m
        /\ d + 1 # 0 /\ (d + 1) - 1 = d
    BY <1>2
  <2>2. g[d + 1] = b * g[d] /\ h[d + 1] = b * h[d]
    BY <2>1 DEF Powers
  <2> QED
    BY <2>1, <2>2
<1> HIDE DEF S
<1>3. Nat \subseteq S
  BY <1>1, <1>2, Induction
<1> QED
  BY <1>3 DEF S

\* There are as many as wanted.
LEMMA PowersExist ==
  ASSUME NEW b, NEW n \in Nat
  PROVE  \E g : Powers(b, g, n)
<1> DEFINE S == {d \in Nat : \E g : Powers(b, g, d)}
<1>1. 0 \in S
  <2> DEFINE g == [d \in {0} |-> 1]
  <2>1. Powers(b, g, 0)
    BY DEF Powers
  <2> QED
    BY <2>1
<1>2. ASSUME NEW d \in Nat, d \in S
      PROVE  d + 1 \in S
  <2>1. PICK g : Powers(b, g, d)
    BY <1>2
  <2> DEFINE h == [k \in 0..(d + 1) |-> IF k <= d THEN g[k] ELSE b * g[d]]
  <2>2. ASSUME NEW k \in 0..(d + 1)
        PROVE  h[k] = IF k = 0 THEN 1 ELSE b * h[k - 1]
    <3>1. CASE k <= d
      <4>1. k \in 0..d /\ h[k] = g[k]
        BY <3>1
      <4>2. g[k] = IF k = 0 THEN 1 ELSE b * g[k - 1]
        BY <2>1, <4>1 DEF Powers
      <4>3. k # 0 => h[k - 1] = g[k - 1]
        <5>1. k # 0 => k - 1 \in 0..(d + 1) /\ k - 1 <= d
          BY <3>1
        <5> QED
          BY <5>1
      <4> HIDE DEF h
      <4> QED
        BY <4>1, <4>2, <4>3
    <3>2. CASE k = d + 1
      <4>1. k # 0 /\ k - 1 = d /\ ~(k <= d) /\ d \in 0..(d + 1)
        BY <3>2
      <4>2. h[k] = b * g[d] /\ h[d] = g[d]
        BY <4>1
      <4> HIDE DEF h
      <4> QED
        BY <4>1, <4>2
    <3> QED
      BY <3>1, <3>2
  <2> HIDE DEF h
  <2> QED
    BY <2>2 DEF Powers
<1> HIDE DEF S
<1>3. Nat \subseteq S
  BY <1>1, <1>2, Induction
<1> QED
  BY <1>3 DEF S

\* The next power is b times as much.
LEMMA PowerIs ==
  ASSUME NEW b
  PROVE  /\ Power(b)[0] = 1
         /\ \A n \in Nat : Power(b)[n + 1] = b * Power(b)[n]
<1> DEFINE Whole(g) == g = [d \in Nat |-> IF d = 0 THEN 1 ELSE b * g[d - 1]]
           p(n) == CHOOSE g : Powers(b, g, n)
           f == [n \in Nat |-> p(n)[n]]
<1>1. \A n \in Nat : Powers(b, p(n), n)
  BY PowersExist
<1>2. ASSUME NEW n \in Nat
      PROVE  f[n] = IF n = 0 THEN 1 ELSE b * f[n - 1]
  <2>1. f[n] = p(n)[n] /\ p(n)[n] = IF n = 0 THEN 1 ELSE b * p(n)[n - 1]
    <3>1. Powers(b, p(n), n) /\ n \in 0..n
      BY <1>1
    <3> QED
      BY <3>1 DEF Powers
  <2>2. CASE n = 0
    BY <2>1, <2>2
  <2>3. CASE n # 0
    <3>1. n - 1 \in Nat /\ n - 1 <= n
      BY <2>3
    <3>2. Powers(b, p(n - 1), n - 1) /\ Powers(b, p(n), n)
      BY <1>1, <3>1
    <3>3. f[n - 1] = p(n)[n - 1]
      <4>1. f[n - 1] = p(n - 1)[n - 1]
        BY <3>1
      <4> HIDE DEF p
      <4> QED
        BY <3>1, <3>2, <4>1, PowersAgree
    <3> HIDE DEF f, p
    <3> QED
      BY <2>1, <2>3, <3>3
  <2> QED
    BY <2>2, <2>3
<1>3. Whole(f)
  <2> HIDE DEF p
  <2>1. f = [n \in Nat |-> f[n]]
    OBVIOUS
  <2> HIDE DEF f
  <2> QED
    BY <1>2, <2>1
<1>4. Power(b) = CHOOSE g : Whole(g)
  BY DEF Power
<1> HIDE DEF f
<1>5. Whole(Power(b))
  BY <1>3, <1>4
<1> DEFINE r == Power(b)
<1> HIDE DEF r
<1>6. \A d \in Nat : r[d] = IF d = 0 THEN 1 ELSE b * r[d - 1]
  BY <1>5 DEF r
<1>7. r[0] = 1
  BY <1>6
<1>8. ASSUME NEW d \in Nat
      PROVE  r[d + 1] = b * r[d]
  <2>1. d + 1 \in Nat /\ d + 1 # 0 /\ (d + 1) - 1 = d
    OBVIOUS
  <2> QED
    BY <1>6, <2>1
<1> QED
  BY <1>7, <1>8 DEF r

\* Powers of positive numbers are positive.
LEMMA PowerType ==
  ASSUME NEW b \in Nat \ {0}, NEW n \in Nat
  PROVE  Power(b)[n] \in Nat \ {0}
<1> DEFINE r == Power(b)
           S == {d \in Nat : r[d] \in Nat \ {0}}
<1>1. r[0] = 1 /\ \A d \in Nat : r[d + 1] = b * r[d]
  BY PowerIs
<1> HIDE DEF r
<1>2. 0 \in S /\ \A d \in Nat : d \in S => d + 1 \in S
  <2>1. \A x \in Nat \ {0} : b * x \in Nat \ {0}
    OBVIOUS
  <2> QED
    BY <1>1, <2>1
<1> HIDE DEF S
<1>3. Nat \subseteq S
  BY <1>2, Induction
<1> QED
  BY <1>3 DEF S, r

\* A level of depth takes at least seven twentieths.
LEMMA DeeperIsLess ==
  ASSUME NEW a \in Nat, NEW b \in Nat, a < b
  PROVE  20 * (Power(13)[b] * Power(20)[a]) <= 13 * (Power(13)[a] * Power(20)[b])
<1> DEFINE p == Power(13)
           q == Power(20)
           S == {d \in Nat : a < d => 20 * (p[d] * q[a]) <= 13 * (p[a] * q[d])}
<1>1. /\ \A d \in Nat : p[d + 1] = 13 * p[d] /\ q[d + 1] = 20 * q[d]
      /\ \A d \in Nat : p[d] \in Nat /\ q[d] \in Nat
  BY PowerIs, PowerType
<1> HIDE DEF p, q
<1>2. 0 \in S
  OBVIOUS
<1>3. ASSUME NEW d \in Nat, d \in S
      PROVE  d + 1 \in S
  <2> DEFINE u == p[d] * q[a]
             v == p[a] * q[d]
  <2>1. u \in Nat /\ v \in Nat
    BY <1>1
  <2>2. p[d + 1] * q[a] = 13 * u /\ p[a] * q[d + 1] = 20 * v
    <3>1. \A x, y \in Nat : (13 * x) * y = 13 * (x * y) /\ x * (20 * y) = 20 * (x * y)
      OBVIOUS
    <3>2. /\ p[d] \in Nat /\ q[a] \in Nat /\ p[a] \in Nat /\ q[d] \in Nat
          /\ p[d + 1] = 13 * p[d] /\ q[d + 1] = 20 * q[d]
      BY <1>1
    <3>3. (13 * p[d]) * q[a] = 13 * u /\ p[a] * (20 * q[d]) = 20 * v
      BY <3>1, <3>2
    <3> HIDE DEF u, v
    <3> QED
      BY <3>2, <3>3
  <2>3. d = a => u = v
    <3>1. p[a] \in Nat /\ q[a] \in Nat
      BY <1>1
    <3> QED
      BY <3>1
  <2>4. a < d => 20 * u <= 13 * v
    BY <1>3
  <2> HIDE DEF u, v
  <2>5. a < d + 1 => 20 * (13 * u) <= 13 * (20 * v)
    BY <2>1, <2>3, <2>4
  <2> QED
    BY <2>2, <2>5
<1> HIDE DEF S
<1>4. Nat \subseteq S
  BY <1>2, <1>3, Induction
<1> QED
  BY <1>4 DEF S, p, q

\* Division by a positive number.
LEMMA Floor ==
  ASSUME NEW m \in Int, NEW n \in Nat \ {0}
  PROVE  n * (m \div n) <= m /\ m < n * (m \div n) + n /\ m \div n \in Int
OBVIOUS

\* A fraction that is not smaller is not rounded to less.
LEMMA RoundedGrows ==
  ASSUME NEW p \in Int, NEW q \in Nat \ {0}, NEW p2 \in Int, NEW q2 \in Nat \ {0},
         p2 * q <= p * q2
  PROVE  Rounded(p, q) \in Int /\ Rounded(p2, q2) \in Int /\ Rounded(p2, q2) <= Rounded(p, q)
<1> DEFINE a == (2 * p + q) \div (2 * q)
           b == (2 * p2 + q2) \div (2 * q2)
<1>1. /\ a \in Int /\ 2 * p + q < 2 * q * a + 2 * q
  <2>1. 2 * p + q \in Int /\ 2 * q \in Nat \ {0}
    OBVIOUS
  <2> QED
    BY <2>1, Floor
<1>2. /\ b \in Int /\ 2 * q2 * b <= 2 * p2 + q2
  <2>1. 2 * p2 + q2 \in Int /\ 2 * q2 \in Nat \ {0}
    OBVIOUS
  <2> QED
    BY <2>1, Floor
<1> HIDE DEF a, b
<1>3. (2 * q2 * b) * q <= (2 * p2 + q2) * q
  BY <1>2
<1>4. (2 * p2 + q2) * q <= (2 * p + q) * q2
  OBVIOUS
<1>5. (2 * p + q) * q2 < (2 * q * a + 2 * q) * q2
  BY <1>1
<1>6. (2 * q2 * q) * b < (2 * q2 * q) * (a + 1)
  BY <1>1, <1>2, <1>3, <1>4, <1>5
<1>7. b < a + 1
  <2> DEFINE c == 2 * q2 * q
  <2>1. c \in Int /\ c > 0
    OBVIOUS
  <2> HIDE DEF c
  <2>2. \A x, y \in Int : c * x < c * y => x < y
    BY <2>1
  <2> QED
    BY <1>1, <1>2, <1>6, <2>2 DEF c
<1> QED
  BY <1>1, <1>2, <1>7 DEF Rounded, a, b

\* What is worth at least thirteen twentieths of another is not decayed to less, if the
\* other is deeper.
LEMMA DecayedNearer ==
  ASSUME NEW x \in Nat, NEW y \in Nat, 13 * y <= 20 * x, NEW a \in Nat, NEW b \in Nat, a < b
  PROVE  /\ Decayed(x, a) \in Int /\ Decayed(y, b) \in Int
         /\ Decayed(y, b) <= Decayed(x, a)
<1> DEFINE p == Power(13)[a]
           q == Power(20)[a]
           p2 == Power(13)[b]
           q2 == Power(20)[b]
<1>1. p \in Nat \ {0} /\ q \in Nat \ {0} /\ p2 \in Nat \ {0} /\ q2 \in Nat \ {0}
  BY PowerType
<1>2. 20 * (p2 * q) <= 13 * (p * q2)
  BY DeeperIsLess
<1> HIDE DEF p, q, p2, q2
<1>3. (y * p2) * q <= (x * p) * q2
  <2> DEFINE u == p2 * q
             v == p * q2
  <2>1. u \in Nat /\ v \in Nat
    BY <1>1
  <2>2. (y * p2) * q = y * u /\ (x * p) * q2 = x * v
    BY <1>1
  <2>3. 20 * u <= 13 * v
    BY <1>2
  <2> HIDE DEF u, v
  <2>4. 20 * (y * u) <= 13 * (y * v)
    BY <2>1, <2>3
  <2>5. 13 * (y * v) <= 20 * (x * v)
    BY <2>1
  <2>6. y * u \in Nat /\ y * v \in Nat /\ x * v \in Nat
    BY <2>1
  <2>7. y * u <= x * v
    BY <2>4, <2>5, <2>6
  <2> QED
    BY <2>2, <2>7
<1>4. x * p \in Int /\ y * p2 \in Int
  BY <1>1
<1>5. /\ Rounded(x * p, q) \in Int /\ Rounded(y * p2, q2) \in Int
      /\ Rounded(y * p2, q2) <= Rounded(x * p, q)
  BY <1>1, <1>3, <1>4, RoundedGrows
<1> QED
  BY <1>5 DEF Decayed, p, q, p2, q2

-----------------------------------------------------------------------------
(* Near nodes before far ones.                                             *)

\* What the weights of a node are.
LEMMA Weights ==
  ASSUME NEW r \in Rows, r.kind = "topic_node", Label(r) # "out_of_scope"
  PROVE  /\ RootMatch[Label(r)] \in {27, 100}
         /\ ClaimStrength[r.claim] \in 0..30
         /\ EntryStatus[r.status] = 20 /\ Confidence[r.confidence] = 10
         /\ SourceScore(r) = -4000
         /\ Related(r) \in -4..16
         /\ r.depth \in Nat
<1>1. /\ r.claim \in DOMAIN ClaimStrength /\ r.depth \in Nat
      /\ r.relation \in DOMAIN EdgeRelation \cup {NoRelation}
  BY DataAssumption DEF RowData
<1>2. r.status = "active" /\ r.confidence = "source_backed" /\ r.sources = <<>>
  BY NodesAssumption
<1>3. RootMatch[Label(r)] \in {27, 100}
  <2>1. Label(r) \in {"authoritative", "discovered_evidence"}
    BY DEF Label
  <2> QED
    BY <2>1 DEF RootMatch
<1>4. ClaimStrength[r.claim] \in 0..30
  BY <1>1 DEF ClaimStrength
<1>5. EntryStatus[r.status] = 20 /\ Confidence[r.confidence] = 10
  BY <1>2 DEF EntryStatus, Confidence
<1>6. SourceScore(r) = -4000
  BY <1>2 DEF SourceScore, SourceValidation
<1>7. Related(r) \in -4..16
  <2>1. \A x \in DOMAIN EdgeRelation : EdgeRelation[x] \in -4..16
    BY DEF EdgeRelation
  <2> QED
    BY <1>1, <2>1 DEF Related
<1> QED
  BY <1>1, <1>3, <1>4, <1>5, <1>6, <1>7

\* No relation makes up for a level of decay.
LEMMA ScoreNearer ==
  ASSUME NEW r \in Rows, NEW s \in Rows, r.kind = "topic_node", s.kind = "topic_node",
         Label(r) = Label(s), Label(r) # "out_of_scope", r.claim = s.claim, r.depth < s.depth
  PROVE  Score(r) \in Int /\ Score(s) \in Int /\ Score(s) <= Score(r)
<1> DEFINE m == RootMatch[Label(r)]
           c == ClaimStrength[r.claim]
           e == Related(r)
           f == Related(s)
           x == 1000 * (m + c + 20 + 10 + e) + (-4000)
           y == 1000 * (m + c + 20 + 10 + f) + (-4000)
<1>1. m \in {27, 100} /\ c \in 0..30 /\ e \in -4..16 /\ f \in -4..16
  BY Weights
<1>2. r.depth \in Nat /\ s.depth \in Nat
  BY Weights
<1>3. Score(r) = Decayed(x, r.depth)
  BY Weights DEF Score
<1>4. Score(s) = Decayed(y, s.depth)
  <2>1. /\ RootMatch[Label(s)] = m /\ ClaimStrength[s.claim] = c
        /\ EntryStatus[s.status] = 20 /\ Confidence[s.confidence] = 10
        /\ SourceScore(s) = -4000
    BY Weights
  <2> QED
    BY <2>1 DEF Score
<1> HIDE DEF m, c, e, f
<1>5. x \in Nat /\ y \in Nat /\ 13 * y <= 20 * x
  BY <1>1
<1> HIDE DEF x, y
<1> QED
  BY <1>2, <1>3, <1>4, <1>5, DecayedNearer

\* Rows are looked at in the order the searches and the walk give them.
InPlace == \A i, j \in Items : i < j => Place(rows[i]) <= Place(rows[j])

\* An included row is in scope.
InScope == \A i \in Elements(included) : Label(rows[i]) # "out_of_scope"

\* A row the limit cut off comes before none it left.
CutLast ==
  \A i \in Items \ (Elements(included) \cup Early), j \in Elements(included) : ~Before(i, j)

NearInv ==
  /\ InPlace /\ InScope
  /\ stage \in {"ordered", "panicked", "fitting", "sent"} => InOrder(included) /\ InOrder(kept)
  /\ stage \in {"fitting", "sent"} => CutLast

Alike(i, j) ==
  /\ rows[i].kind = "topic_node" /\ rows[j].kind = "topic_node"
  /\ Label(rows[i]) = Label(rows[j]) /\ rows[i].claim = rows[j].claim

\* A nearer node that is otherwise alike comes before.
LEMMA NearerBefore ==
  ASSUME TypeOK, InPlace, NEW i \in Items, NEW j \in Items, Alike(i, j),
         Label(rows[j]) # "out_of_scope", rows[i].depth < rows[j].depth
  PROVE  Before(i, j)
<1>1. rows[i] \in Rows /\ rows[j] \in Rows /\ rows \in Seq(Rows)
  BY DEF TypeOK, Items
<1>2. rows[i].depth \in Nat /\ rows[j].depth \in Nat
  BY <1>1, Weights DEF Alike
<1>3. Score(rows[i]) \in Int /\ Score(rows[j]) \in Int /\ Score(rows[j]) <= Score(rows[i])
  BY <1>1, ScoreNearer DEF Alike
<1>4. i < j
  <2>1. i \in Int /\ j \in Int
    BY <1>1 DEF Items
  <2>2. Place(rows[i]) = rows[i].depth + 1 /\ Place(rows[j]) = rows[j].depth + 1
    BY DEF Place, Alike
  <2>3. ~(j < i)
    BY <1>2, <2>2 DEF InPlace
  <2>4. i # j
    BY <1>2
  <2> QED
    BY <2>1, <2>3, <2>4
<1> DEFINE a == Score(rows[i])
           b == Score(rows[j])
<1> HIDE DEF a, b
<1>5. -a < -b \/ (-a = -b /\ i < j)
  BY <1>3, <1>4 DEF a, b
<1>6. CASE request.policy = "roots_then_edges"
  BY <1>6 DEF Before
<1>7. CASE request.policy # "roots_then_edges"
  BY <1>5, <1>7 DEF Before, a, b
<1> QED
  BY <1>6, <1>7

\* The order of rows, like their labels, depends on the request and the rows alone.
LEMMA SameBefore ==
  ASSUME UNCHANGED <<request, rows>>
  PROVE  /\ \A i, j : Before(i, j)' <=> Before(i, j)
         /\ \A i : (Label(rows[i]))' = Label(rows[i])
<1>1. \A r : Label(r)' = Label(r)
  BY DEF Label, AuthorityMatches, IsGlobalAuthority, IsDiscoverable
<1>2. \A i : (Label(rows[i]))' = Label(rows[i])
  BY DEF Label, AuthorityMatches, IsGlobalAuthority, IsDiscoverable
<1>3. \A i : (Score(rows[i]))' = Score(rows[i])
  BY <1>2 DEF Score
<1>4. \A i, j : Before(i, j)' <=> Before(i, j)
  BY <1>3 DEF Before
<1> QED
  BY <1>2, <1>4

\* A step that leaves alone what was read, included, kept and skipped early keeps the order.
LEMMA NearKept ==
  ASSUME NearInv, UNCHANGED <<request, rows, included, kept>>, Early' = Early,
         \/ stage \in {"idle", "scoring"} /\ stage' = stage
         \/ stage = "ordered" /\ stage' = "panicked"
         \/ stage \in {"ordered", "panicked"} /\ stage' = stage
         \/ stage \in {"fitting", "sent"} /\ stage' \in {"fitting", "sent"}
  PROVE  NearInv'
<1>1. /\ \A i, j : Before(i, j)' <=> Before(i, j)
      /\ \A i : (Label(rows[i]))' = Label(rows[i])
  BY SameBefore
<1>2. Elements(included)' = Elements(included) /\ Items' = Items
  BY DEF Elements, Items
<1>3. InPlace'
  BY <1>2 DEF NearInv, InPlace
<1>4. InScope'
  BY <1>1, <1>2 DEF NearInv, InScope
<1>5. (InOrder(included) => InOrder(included)') /\ (InOrder(kept) => InOrder(kept)')
  BY <1>1 DEF InOrder
<1>6. CutLast => CutLast'
  BY <1>1, <1>2 DEF CutLast
<1> QED
  BY <1>3, <1>4, <1>5, <1>6 DEF NearInv

\* Until the rows are ordered, only what is included matters.
LEMMA NearScoring ==
  ASSUME InPlace, UNCHANGED rows, InScope', stage' \in {"idle", "scoring"}
  PROVE  NearInv'
<1>1. InPlace'
  BY DEF InPlace, Items
<1> QED
  BY <1>1 DEF NearInv

\* The included rows are put in order.
LEMMA OrderNear ==
  ASSUME AccountInv, NearInv, Order
  PROVE  NearInv'
<1>1. /\ stage' = "ordered" /\ UNCHANGED <<request, rows, kept>>
      /\ Elements(included') = Elements(included) /\ InOrder(included')
      /\ kept = <<>>
  BY DEF Order, AccountInv, Split
<1>2. /\ \A i, j : Before(i, j)' <=> Before(i, j)
      /\ \A i : (Label(rows[i]))' = Label(rows[i])
  BY <1>1, SameBefore
<1>3. InPlace' /\ InScope'
  BY <1>1, <1>2 DEF NearInv, InPlace, InScope, Items
<1>4. InOrder(included)' /\ InOrder(kept)'
  BY <1>1, <1>2 DEF InOrder
<1> QED
  BY <1>1, <1>3, <1>4 DEF NearInv

\* The limit cuts off the last of them.
LEMMA CutNear ==
  ASSUME AccountInv, NearInv, Cut
  PROVE  NearInv'
<1> DEFINE m == IF request.limit < Len(included) THEN request.limit ELSE Len(included)
<1>1. /\ stage = "ordered" /\ stage' = "fitting" /\ UNCHANGED <<request, rows, kept, skipped>>
      /\ included' = SubSeq(included, 1, m) /\ request.limit >= 0
  BY DEF Cut
<1>2. /\ included \in Seq(Items) /\ request.limit \in Int /\ InOrder(included) /\ kept = <<>>
      /\ Elements(included) \cup Early = Items
  BY <1>1, DataTypes DEF AccountInv, TypeOK, Split, NearInv
<1>3. m \in Nat /\ m <= Len(included) /\ Len(included) \in Nat /\ DOMAIN included = 1..Len(included)
  BY <1>1, <1>2
<1> HIDE DEF m
<1>4. /\ DOMAIN included' = 1..m /\ \A k \in 1..m : included'[k] = included[k]
  BY <1>1, <1>2, <1>3
<1>5. /\ \A i, j : Before(i, j)' <=> Before(i, j)
      /\ \A i : (Label(rows[i]))' = Label(rows[i])
  BY <1>1, SameBefore
<1>6. Early' = Early /\ Items' = Items
  BY <1>1, AccountKept DEF Items
<1>7. \A k \in 1..m : k \in DOMAIN included
  BY <1>3
<1>8. Elements(included') \subseteq Elements(included)
  BY <1>4, <1>7 DEF Elements
<1>9. InPlace' /\ InScope'
  BY <1>1, <1>5, <1>6, <1>8 DEF NearInv, InPlace, InScope
<1>10. InOrder(included)' /\ InOrder(kept)'
  <2>1. InOrder(included)'
    BY <1>2, <1>4, <1>5, <1>7 DEF InOrder
  <2>2. InOrder(kept)'
    BY <1>1, <1>2 DEF InOrder
  <2> QED
    BY <2>1, <2>2
<1>11. CutLast'
  <2> SUFFICES ASSUME NEW i \in Items \ (Elements(included') \cup Early),
                      NEW j \in Elements(included')
               PROVE  ~Before(i, j)
    BY <1>5, <1>6 DEF CutLast
  <2>1. i \in Elements(included)
    BY <1>2
  <2>2. PICK k \in 1..Len(included) : i = included[k]
    BY <1>3, <2>1 DEF Elements
  <2>3. PICK l \in 1..m : j = included[l]
    BY <1>4 DEF Elements
  <2>4. k \notin 1..m
    BY <1>4, <2>2 DEF Elements
  <2>5. l < k /\ l \in DOMAIN included /\ k \in DOMAIN included
    BY <1>3, <2>4
  <2> QED
    BY <1>2, <2>2, <2>3, <2>5 DEF InOrder
<1> QED
  BY <1>1, <1>9, <1>10, <1>11 DEF NearInv

\* What is kept is kept in order.
LEMMA KeepNear ==
  ASSUME AccountInv, NearInv, Keep
  PROVE  NearInv'
<1>1. /\ stage = "fitting" /\ next \in DOMAIN included /\ kept' = Append(kept, included[next])
      /\ UNCHANGED <<stage, request, rows, included, skipped>>
  BY DEF Keep, Fitted
<1>2. /\ included \in Seq(Items) /\ kept \in Seq(Elements(included)) /\ InOrder(included)
      /\ InOrder(kept) /\ CutLast /\ Elements(kept) \subseteq Passed /\ next \in Nat
  BY <1>1 DEF AccountInv, TypeOK, Fit, NearInv
<1>3. /\ \A i, j : Before(i, j)' <=> Before(i, j)
      /\ \A i : (Label(rows[i]))' = Label(rows[i])
  BY <1>1, SameBefore
<1>4. Early' = Early /\ Items' = Items /\ Elements(included)' = Elements(included)
  BY <1>1 DEF Items, Elements, Early
<1>5. InPlace' /\ InScope' /\ InOrder(included)' /\ CutLast'
  <2>1. InPlace' /\ InScope'
    BY <1>1, <1>3, <1>4 DEF NearInv, InPlace, InScope
  <2>2. InOrder(included)'
    BY <1>1, <1>2, <1>3 DEF InOrder
  <2>3. CutLast'
    BY <1>2, <1>3, <1>4 DEF CutLast
  <2> QED
    BY <2>1, <2>2, <2>3
<1>6. ASSUME NEW x \in Elements(kept)
      PROVE  ~Before(included[next], x)
  <2>1. PICK k \in 1..(next - 1) : x = included[k]
    BY <1>2 DEF Passed
  <2>2. k < next /\ k \in DOMAIN included
    <3>1. DOMAIN included = 1..Len(included) /\ Len(included) \in Nat
      BY <1>2
    <3> QED
      BY <1>1, <1>2, <3>1
  <2> QED
    BY <1>1, <1>2, <2>1, <2>2 DEF InOrder
<1>7. InOrder(kept)'
  <2> DEFINE n == Len(kept) + 1
  <2>1. /\ n \in Nat /\ DOMAIN kept' = 1..n /\ kept'[n] = included[next]
        /\ DOMAIN kept = 1..(n - 1) /\ \A k \in 1..(n - 1) : kept'[k] = kept[k]
    BY <1>1, <1>2
  <2> HIDE DEF n
  <2> SUFFICES ASSUME NEW k \in 1..n, NEW l \in 1..n, k < l
               PROVE  ~Before(kept'[l], kept'[k])
    BY <1>3, <2>1 DEF InOrder
  <2>2. k \in 1..(n - 1)
    BY <2>1
  <2>3. kept'[k] = kept[k] /\ kept[k] \in Elements(kept)
    BY <2>1, <2>2 DEF Elements
  <2>4. CASE l = n
    BY <1>6, <2>1, <2>3, <2>4
  <2>5. CASE l \in 1..(n - 1)
    BY <1>2, <2>1, <2>2, <2>3, <2>5 DEF InOrder
  <2> QED
    BY <2>1, <2>4, <2>5
<1> QED
  BY <1>1, <1>5, <1>7 DEF NearInv

\* Every step keeps the order.
LEMMA NearStep ==
  ASSUME AccountInv, NearInv, [Next]_vars
  PROVE  NearInv'
<1>1. /\ TypeOK /\ NearInv
      /\ stage \in {"idle", "scoring", "ordered", "fitting", "sent", "panicked"}
  BY DEF AccountInv, TypeOK
<1>2. ASSUME NEW rs \in BoundedSeq(Rows, MaxRows), Read(rs) PROVE NearInv'
  <2>1. included = <<>> /\ stage' = "scoring" /\ UNCHANGED <<request, included>> /\ rows' = rs
    BY <1>2 DEF Read, AccountInv, Split
  <2>2. InPlace'
    BY <1>2, <2>1 DEF Read, Readable, InPlace, Items
  <2>3. InScope'
    BY <2>1 DEF InScope, Elements
  <2> QED
    BY <2>1, <2>2, <2>3 DEF NearInv
<1>3. CASE SkipRetired \/ SkipOutOfScope
  <2>1. /\ stage = "scoring" /\ stage' = stage
        /\ UNCHANGED <<request, rows, included>>
    BY <1>3 DEF SkipRetired, SkipOutOfScope, Scored
  <2>2. InScope'
    BY <1>1, <2>1, SameBefore DEF NearInv, InScope, Elements
  <2> QED
    BY <1>1, <2>1, <2>2, NearScoring DEF NearInv
<1>4. CASE Include
  <2>1. /\ stage = "scoring" /\ stage' = stage /\ UNCHANGED <<request, rows>>
        /\ next \in Items /\ Label(rows[next]) # "out_of_scope"
        /\ included' = Append(included, next) /\ included \in Seq(Items)
    BY <1>1, <1>4 DEF Include, Scored, TypeOK
  <2>2. Elements(included') = Elements(included) \cup {next}
    BY <2>1, ElementsAppend
  <2>3. \A i : (Label(rows[i]))' = Label(rows[i])
    BY <2>1, SameBefore
  <2>4. InScope'
    BY <1>1, <2>1, <2>2, <2>3 DEF NearInv, InScope
  <2> QED
    BY <1>1, <2>1, <2>4, NearScoring DEF NearInv
<1>5. CASE Order
  BY <1>5, OrderNear
<1>6. CASE Cut
  BY <1>6, CutNear
<1>7. CASE Panic
  <2>1. /\ UNCHANGED <<request, rows, included, kept, skipped>>
        /\ stage = "ordered" /\ stage' = "panicked"
    BY <1>7 DEF Panic
  <2> QED
    BY <2>1, AccountKept, NearKept
<1>8. CASE Keep
  BY <1>8, KeepNear
<1>9. CASE Truncate
  <2>1. /\ UNCHANGED <<stage, request, rows, included, kept>> /\ stage = "fitting"
        /\ skipped' = Append(skipped, [item |-> included[next], reason |-> Truncation])
        /\ next \in DOMAIN included
    BY <1>9 DEF Truncate, Fitted, Truncation
  <2>2. included[next] \in Items /\ Truncation \in Reasons
    BY <1>1, <2>1 DEF TypeOK, Truncation, Reasons
  <2>3. Early' = Early
    BY <1>1, <2>1, <2>2, SkippedAppend
  <2> QED
    BY <2>1, <2>3, NearKept
<1>10. CASE Send
  <2>1. /\ UNCHANGED <<request, rows, included, kept, skipped>>
        /\ stage = "fitting" /\ stage' = "sent"
    BY <1>10 DEF Send
  <2> QED
    BY <2>1, AccountKept, NearKept
<1>11. CASE UNCHANGED vars
  <2>1. UNCHANGED <<stage, request, rows, included, kept, skipped>>
    BY <1>11 DEF vars
  <2>2. Early' = Early
    BY <2>1, AccountKept
  <2>3. CASE stage \in {"idle", "scoring"}
    BY <2>1, <2>2, <2>3, NearKept
  <2>4. CASE stage \in {"ordered", "panicked"}
    BY <2>1, <2>2, <2>4, NearKept
  <2>5. CASE stage \in {"fitting", "sent"}
    BY <2>1, <2>2, <2>5, NearKept
  <2> QED
    BY <1>1, <2>3, <2>4, <2>5
<1> QED
  BY <1>2, <1>3, <1>4, <1>5, <1>6, <1>7, <1>8, <1>9, <1>10, <1>11 DEF Next

\* No row has been read.
LEMMA NearInit == Init => NearInv
BY DEF Init, NearInv, InPlace, InScope, Items, Elements

\* A node left out of the packet for no reason is not nearer than one that is in it.
LEMMA NearGives ==
  ASSUME AccountInv, NearInv
  PROVE  NearerFirst
<1> SUFFICES ASSUME stage = "sent", NEW i \in Items \ Skipped, NEW n \in DOMAIN kept,
                    Alike(i, kept[n]), rows[i].depth < rows[kept[n]].depth
             PROVE  \E m \in 1..(n - 1) : kept[m] = i
  BY DEF NearerFirst, Alike
<1> DEFINE j == kept[n]
<1>1. /\ TypeOK /\ included \in Seq(Items) /\ kept \in Seq(Elements(included))
      /\ InPlace /\ InScope /\ InOrder(kept) /\ CutLast
      /\ Elements(kept) \cup Truncated = Passed /\ next = Len(included) + 1
  BY DEF AccountInv, TypeOK, Fit, NearInv
<1>2. j \in Elements(included) /\ j \in Items
  BY <1>1 DEF Elements
<1>3. Before(i, j)
  BY <1>1, <1>2, NearerBefore DEF InScope
<1>4. i \notin Early /\ i \notin Truncated
  BY SkippedParts
<1>5. i \in Elements(included)
  BY <1>2, <1>3, <1>4, <1>1 DEF CutLast
<1>6. i \in Passed
  <2>1. DOMAIN included = 1..Len(included) /\ (Len(included) + 1) - 1 = Len(included)
    BY <1>1
  <2> QED
    BY <1>1, <1>5, <2>1 DEF Passed, Elements
<1>7. PICK m \in DOMAIN kept : kept[m] = i
  BY <1>1, <1>4, <1>6 DEF Elements
<1>8. DOMAIN kept = 1..Len(kept) /\ Len(kept) \in Nat
  BY <1>1
<1>9. ~(n < m)
  BY <1>1, <1>3, <1>7 DEF InOrder
<1>10. m # n
  <2>1. rows[i].depth \in Nat
    <3>1. rows[i] \in Rows
      BY <1>1 DEF TypeOK, Items
    <3> QED
      BY <3>1, DataAssumption DEF RowData
  <2> QED
    BY <1>7, <2>1
<1>11. m \in 1..(n - 1)
  BY <1>8, <1>9, <1>10
<1> QED
  BY <1>7, <1>11

\* A node comes before every node like it that the walk found deeper, and the limit does
\* not cut it off for that one.
THEOREM NearerIsFirst == Spec => []NearerFirst
<1>1. Init => NearInv
  BY NearInit
<1>2. AccountInv /\ NearInv /\ [Next]_vars => NearInv'
  BY NearStep
<1>3. AccountInv /\ NearInv => NearerFirst
  BY NearGives
<1> QED
  BY <1>1, <1>2, <1>3, AccountAlways, PTL DEF Spec
=============================================================================
