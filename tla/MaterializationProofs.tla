------------------------- MODULE MaterializationProofs -------------------------
(***************************************************************************)
(* What a run of the worker that generates one database is sure of, for    *)
(* every request, schema and limit.                                        *)
(*                                                                         *)
(* The invariant Sound follows a run: the schema is compiled from the      *)
(* blueprint of the request (Compile), the rows and the order of a plan    *)
(* are those of the schema (Planned), its populations are those of the     *)
(* prior (Bound, Populated), counted events add up to the rows of their    *)
(* tables, which replanning leaves alone (Resolved), and the tables that   *)
(* are generated fit the plan (Fits).  Recursive functions of the model are*)
(* met step by step: a lemma names their values and what each step is.     *)
(*                                                                         *)
(* Each step is later in a well-founded order: the attempt, the stage, the *)
(* populations that are still to be counted, the tables that are still to  *)
(* be generated, the event tables that are still to be overlaid.  The      *)
(* attempts are bounded by the invariant Counted.                          *)
(*                                                                         *)
(* No plan is refused for itself: each column of a bound plan has one      *)
(* mechanism, and its parents precede it in an order of all columns (Tidy).*)
(***************************************************************************)
EXTENDS Materialization, SequenceFacts, FiniteSetTheorems, TLAPS

-----------------------------------------------------------------------------
(* Sets of numbers, and sequences of the elements of a set.                *)

(* A finite set of natural numbers that is not empty has a largest one.    *)
LEMMA MaximumIs ==
  ASSUME NEW S \in SUBSET Nat, IsFiniteSet(S), S # {}
  PROVE  Maximum(S) \in S /\ \A y \in S : y <= Maximum(S)
<1> DEFINE Bounds == {n \in Nat : \A y \in S : y <= n}
           Sizes == {n \in Nat : \E T \in SUBSET S : T # {} /\ Cardinality(T) = n /\ ~\E x \in T : \A y \in T : y <= x}
<1>1. \A T \in SUBSET S : IsFiniteSet(T) /\ Cardinality(T) \in Nat
  BY FS_Subset, FS_CardinalityType
<1>2. \E x \in S : \A y \in S : y <= x
  <2> SUFFICES ASSUME ~\E x \in S : \A y \in S : y <= x PROVE FALSE
    OBVIOUS
  <2>1. Sizes # {}
    BY <1>1
  <2>2. PICK n \in Sizes : \A k \in Sizes : n <= k
    <3>1. Sizes \in SUBSET Nat
      OBVIOUS
    <3> HIDE DEF Sizes
    <3> QED BY <2>1, <3>1, LeastNatural
  <2>3. PICK T \in SUBSET S : T # {} /\ Cardinality(T) = n /\ ~\E x \in T : \A y \in T : y <= x
    BY <2>2
  <2>4. PICK x \in T : TRUE
    BY <2>3
  <2> DEFINE U == T \ {x}
  <2>5. U \in SUBSET S /\ Cardinality(U) = n - 1 /\ n - 1 < n
    BY <1>1, <2>2, <2>3, <2>4, FS_RemoveElement
  <2>6. U # {}
    BY <2>3, <2>4
  <2>7. n - 1 \notin Sizes
    BY <2>2, <2>5
  <2>8. n - 1 \in Nat
    BY <1>1, <2>5
  <2>9. PICK z \in U : \A y \in U : y <= z
    BY <2>5, <2>6, <2>7, <2>8
  <2>10. CASE x <= z
    BY <2>3, <2>4, <2>9, <2>10
  <2>11. CASE ~(x <= z)
    <3>1. \A y \in T : y <= x
      BY <2>3, <2>4, <2>9, <2>11
    <3> QED BY <2>3, <2>4, <3>1
  <2> QED BY <2>10, <2>11
<1> QED BY <1>2 DEF Maximum

(* R puts one before the other of any two elements.                        *)
Orders(S, R) ==
  /\ \A x \in S : <<x, x>> \notin R
  /\ \A x, y, z \in S : <<x, y>> \in R /\ <<y, z>> \in R => <<x, z>> \in R
  /\ \A x, y \in S : x = y \/ <<x, y>> \in R \/ <<y, x>> \in R

(* A sorted set has each element once, in order.                           *)
LEMMA SortedFacts ==
  ASSUME NEW S, IsFiniteSet(S), NEW R, Orders(S, R)
  PROVE  /\ Cardinality(S) \in Nat
         /\ Sorted(S, R) \in [1..Cardinality(S) -> S]
         /\ \A x \in S : \E k \in 1..Cardinality(S) : Sorted(S, R)[k] = x
         /\ \A j, k \in 1..Cardinality(S) : j < k => <<Sorted(S, R)[j], Sorted(S, R)[k]>> \in R
<1> DEFINE n == Cardinality(S)
           Below(x) == {y \in S : <<y, x>> \in R}
           place == [x \in S |-> Cardinality(Below(x)) + 1]
<1>1. n \in Nat
  BY FS_CardinalityType
<1>2. \A x \in S : /\ IsFiniteSet(Below(x)) /\ Cardinality(Below(x)) \in Nat /\ Cardinality(Below(x)) < n
  <2> SUFFICES ASSUME NEW x \in S
               PROVE  IsFiniteSet(Below(x)) /\ Cardinality(Below(x)) \in Nat /\ Cardinality(Below(x)) < n
    OBVIOUS
  <2>1. Below(x) \in SUBSET S /\ Below(x) # S
    BY DEF Orders
  <2> HIDE DEF Below
  <2>2. IsFiniteSet(Below(x)) /\ Cardinality(Below(x)) <= n /\ Cardinality(Below(x)) # n
    BY <2>1, FS_Subset
  <2>3. Cardinality(Below(x)) \in Nat
    BY <2>2, FS_CardinalityType
  <2> QED BY <1>1, <2>2, <2>3
<1>3. \A x, y \in S : <<x, y>> \in R => Cardinality(Below(x)) < Cardinality(Below(y))
  <2> SUFFICES ASSUME NEW x \in S, NEW y \in S, <<x, y>> \in R
               PROVE  Cardinality(Below(x)) < Cardinality(Below(y))
    OBVIOUS
  <2>1. Below(x) \in SUBSET Below(y) /\ Below(x) # Below(y)
    BY DEF Orders
  <2> HIDE DEF Below
  <2>2. Cardinality(Below(x)) <= Cardinality(Below(y)) /\ Cardinality(Below(x)) # Cardinality(Below(y))
    BY <1>2, <2>1, FS_Subset
  <2> QED BY <1>2, <2>2
<1>4. place \in [S -> 1..n]
  <2> HIDE DEF Below
  <2> QED BY <1>1, <1>2
<1>5. place \in Injection(S, 1..n)
  <2>1. \A x, y \in S : place[x] = place[y] => x = y
    <3> SUFFICES ASSUME NEW x \in S, NEW y \in S, x # y PROVE place[x] # place[y]
      OBVIOUS
    <3>1. <<x, y>> \in R \/ <<y, x>> \in R
      BY DEF Orders
    <3> HIDE DEF Below
    <3>2. Cardinality(Below(x)) # Cardinality(Below(y))
      BY <1>2, <1>3, <3>1
    <3> QED BY <1>2, <3>2
  <2> HIDE DEF place
  <2> QED BY <1>4, <2>1 DEF Injection, IsInjective
<1>6. place \in Surjection(S, 1..n)
  <2>1. IsFiniteSet(1..n) /\ Cardinality(1..n) = n
    BY <1>1, FS_Interval
  <2> HIDE DEF place
  <2> QED BY <1>5, <2>1, FS_Injection
<1>7. \A k \in 1..n : \E x \in S : place[x] = k
  <2> HIDE DEF place
  <2> QED BY <1>6 DEF Surjection
<1>8. \A k \in 1..n : Sorted(S, R)[k] \in S /\ place[Sorted(S, R)[k]] = k
  <2> SUFFICES ASSUME NEW k \in 1..n PROVE Sorted(S, R)[k] \in S /\ place[Sorted(S, R)[k]] = k
    OBVIOUS
  <2>1. Sorted(S, R)[k] = CHOOSE x \in S : Cardinality(Below(x)) = k - 1
    BY DEF Sorted
  <2>2. \E x \in S : Cardinality(Below(x)) = k - 1
    <3> HIDE DEF Below
    <3> QED BY <1>1, <1>2, <1>7
  <2> HIDE DEF Below
  <2>3. Sorted(S, R)[k] \in S /\ Cardinality(Below(Sorted(S, R)[k])) = k - 1
    BY <2>1, <2>2
  <2> QED BY <1>1, <2>3
<1>9. DOMAIN Sorted(S, R) = 1..n
  BY DEF Sorted
<1>10. Sorted(S, R) \in [1..n -> S]
  BY <1>8, <1>9 DEF Sorted
<1>11. \A x \in S : Sorted(S, R)[place[x]] = x
  <2> SUFFICES ASSUME NEW x \in S PROVE Sorted(S, R)[place[x]] = x
    OBVIOUS
  <2> HIDE DEF place
  <2>1. \A y \in S : place[y] = place[x] => y = x
    BY <1>4, <1>5 DEF Injection, IsInjective
  <2> QED BY <1>4, <1>8, <2>1
<1>12. \A j, k \in 1..n : j < k => <<Sorted(S, R)[j], Sorted(S, R)[k]>> \in R
  <2> SUFFICES ASSUME NEW j \in 1..n, NEW k \in 1..n, j < k PROVE <<Sorted(S, R)[j], Sorted(S, R)[k]>> \in R
    OBVIOUS
  <2> DEFINE x == Sorted(S, R)[j]
             y == Sorted(S, R)[k]
  <2>1. x \in S /\ y \in S /\ place[x] = j /\ place[y] = k
    BY <1>8
  <2>2. <<y, x>> \notin R
    <3>1. <<y, x>> \in R => Cardinality(Below(y)) < Cardinality(Below(x))
      BY <1>3, <2>1
    <3>2. Cardinality(Below(x)) + 1 = j /\ Cardinality(Below(y)) + 1 = k
      BY <2>1
    <3> HIDE DEF Below
    <3> QED BY <1>2, <2>1, <3>1, <3>2
  <2>3. x # y
    BY <2>1
  <2> HIDE DEF x, y
  <2>4. <<x, y>> \in R
    BY <2>1, <2>2, <2>3 DEF Orders
  <2> QED BY <2>4 DEF x, y
<1> HIDE DEF place
<1> QED BY <1>1, <1>4, <1>10, <1>11, <1>12

(* Numbers are sorted by size.                                             *)
LEMMA InOrderFacts ==
  ASSUME NEW S \in SUBSET Nat, IsFiniteSet(S)
  PROVE  /\ Cardinality(S) \in Nat
         /\ InOrder(S) \in [1..Cardinality(S) -> S]
         /\ \A x \in S : \E k \in 1..Cardinality(S) : InOrder(S)[k] = x
         /\ \A j, k \in 1..Cardinality(S) : j < k => InOrder(S)[j] < InOrder(S)[k]
<1> DEFINE R == {e \in S \X S : e[1] < e[2]}
<1>1. \A x, y \in S : <<x, y>> \in R <=> x < y
  OBVIOUS
<1> HIDE DEF R
<1>2. Orders(S, R)
  BY <1>1 DEF Orders
<1>3. InOrder(S) = Sorted(S, R)
  BY DEF InOrder, R
<1>4. /\ Cardinality(S) \in Nat
      /\ Sorted(S, R) \in [1..Cardinality(S) -> S]
      /\ \A x \in S : \E k \in 1..Cardinality(S) : Sorted(S, R)[k] = x
      /\ \A j, k \in 1..Cardinality(S) : j < k => <<Sorted(S, R)[j], Sorted(S, R)[k]>> \in R
  BY <1>2, SortedFacts
<1> QED BY <1>1, <1>3, <1>4

-----------------------------------------------------------------------------
(* Tables, keys and the order of generation.                               *)

(* What an accepted blueprint says of its tables and keys.                 *)
LEMMA SchemaBasics ==
  ASSUME NEW s, BlueprintAccepted(s)
  PROVE  /\ TablesOf(s) \subseteq Nat /\ IsFiniteSet(TablesOf(s))
         /\ KeysOf(s) \subseteq Nat /\ IsFiniteSet(KeysOf(s))
         /\ \A i \in KeysOf(s) : ParentOf(s, i) \in TablesOf(s) /\ ChildOf(s, i) \in TablesOf(s)
         /\ \A t : Incoming(s, t) \in SUBSET Nat /\ IsFiniteSet(Incoming(s, t))
         /\ \A t : Structural(s, t) \in SUBSET Nat /\ IsFiniteSet(Structural(s, t))
<1>1. s.roles \in Seq(Roles) /\ s.edges \in Seq(TablesOf(s) \X TablesOf(s))
  BY DEF BlueprintAccepted
<1>2. /\ TablesOf(s) = 1..Len(s.roles) /\ Len(s.roles) \in Nat
      /\ KeysOf(s) = 1..Len(s.edges) /\ Len(s.edges) \in Nat
      /\ \A i \in 1..Len(s.edges) : s.edges[i] \in TablesOf(s) \X TablesOf(s)
  BY <1>1, LenProperties, ElementOfSeq DEF TablesOf, KeysOf
<1>3. IsFiniteSet(TablesOf(s)) /\ IsFiniteSet(KeysOf(s))
  BY <1>2, FS_Interval
<1>4. TablesOf(s) \subseteq Nat /\ KeysOf(s) \subseteq Nat
  BY <1>2
<1>5. \A i \in KeysOf(s) : ParentOf(s, i) \in TablesOf(s) /\ ChildOf(s, i) \in TablesOf(s)
  BY <1>2 DEF ParentOf, ChildOf
<1>6. \A t : Incoming(s, t) \in SUBSET KeysOf(s) /\ Structural(s, t) \in SUBSET KeysOf(s)
  BY DEF Incoming, Structural
<1>7. \A T \in SUBSET KeysOf(s) : IsFiniteSet(T)
  BY <1>3, FS_Subset
<1> QED BY <1>3, <1>4, <1>5, <1>6, <1>7

(* The order of generation has each table once, after its parents.         *)
LEMMA GenerationFacts ==
  ASSUME NEW s, BlueprintAccepted(s)
  PROVE  /\ Cardinality(TablesOf(s)) \in Nat
         /\ GenerationOrder(s) \in [1..Cardinality(TablesOf(s)) -> TablesOf(s)]
         /\ \A t \in TablesOf(s) : \E k \in 1..Cardinality(TablesOf(s)) : GenerationOrder(s)[k] = t
         /\ \A j, k \in 1..Cardinality(TablesOf(s)) :
              /\ j < k => GenerationOrder(s)[j] # GenerationOrder(s)[k]
              /\ s.ranks[GenerationOrder(s)[j]] < s.ranks[GenerationOrder(s)[k]] => j < k
<1>1. /\ TablesOf(s) \subseteq Nat /\ IsFiniteSet(TablesOf(s)) /\ s.ranks \in [TablesOf(s) -> Nat]
  BY SchemaBasics DEF BlueprintAccepted
<1>2. \A x, y \in TablesOf(s) : <<x, y>> \in Before(s)
        <=> s.ranks[x] < s.ranks[y] \/ (s.ranks[x] = s.ranks[y] /\ x < y)
  BY DEF Before
<1>3. Orders(TablesOf(s), Before(s))
  <2>1. \A x \in TablesOf(s) : x \in Nat /\ s.ranks[x] \in Nat
    BY <1>1
  <2> QED BY <1>2, <2>1 DEF Orders
<1> DEFINE n == Cardinality(TablesOf(s))
           order == GenerationOrder(s)
<1>4. /\ n \in Nat
      /\ order \in [1..n -> TablesOf(s)]
      /\ \A t \in TablesOf(s) : \E k \in 1..n : order[k] = t
      /\ \A j, k \in 1..n : j < k => <<order[j], order[k]>> \in Before(s)
  BY <1>1, <1>3, SortedFacts DEF GenerationOrder
<1> HIDE DEF n, order
<1>5. \A j, k \in 1..n : /\ j < k => order[j] # order[k]
                         /\ s.ranks[order[j]] < s.ranks[order[k]] => j < k
  <2> SUFFICES ASSUME NEW j \in 1..n, NEW k \in 1..n
               PROVE  /\ j < k => order[j] # order[k]
                      /\ s.ranks[order[j]] < s.ranks[order[k]] => j < k
    OBVIOUS
  <2> DEFINE x == order[j]
             y == order[k]
  <2>1. x \in TablesOf(s) /\ y \in TablesOf(s)
    BY <1>4
  <2>2. x \in Nat /\ y \in Nat /\ s.ranks[x] \in Nat /\ s.ranks[y] \in Nat
    BY <1>1, <2>1
  <2>3. (j < k => <<x, y>> \in Before(s)) /\ (k < j => <<y, x>> \in Before(s)) /\ (j = k => x = y)
    BY <1>4
  <2> HIDE DEF x, y
  <2>4. (j < k => x # y) /\ (s.ranks[x] < s.ranks[y] => j < k)
    BY <1>2, <1>4, <2>1, <2>2, <2>3
  <2> QED BY <2>4 DEF x, y
<1> QED BY <1>4, <1>5 DEF n, order

-----------------------------------------------------------------------------
(* Numbers of rows.                                                        *)

(* Half of a number, rounded, is a number.                                 *)
LEMMA RoundHalvesNat == ASSUME NEW n \in Nat PROVE RoundHalves(n) \in Nat
<1>1. n \div 2 \in Nat
  OBVIOUS
<1> QED BY <1>1 DEF RoundHalves

(* Bounded sets of numbers are finite.                                     *)
LEMMA BoundedFinite ==
  ASSUME NEW n \in Nat, NEW S \in SUBSET (0..n)
  PROVE  IsFiniteSet(S) /\ S \in SUBSET Nat
<1>1. S \in SUBSET Nat /\ \A x \in S : x <= n
  OBVIOUS
<1> QED BY <1>1, FS_BoundedSetOfNaturals

(* The integer root of a number is a number.                               *)
LEMMA IntSqrtNat == ASSUME NEW n \in Nat PROVE IntSqrt(n) \in Nat
<1> DEFINE S == {r \in 0..n : r * r <= n}
<1>1. S \in SUBSET (0..n) /\ 0 \in S
  OBVIOUS
<1> HIDE DEF S
<1>3. IsFiniteSet(S) /\ S \in SUBSET Nat /\ S # {}
  BY <1>1, BoundedFinite
<1>4. Maximum(S) \in Nat
  BY <1>3, MaximumIs
<1> QED BY <1>4 DEF IntSqrt, S

(* Half of a root, rounded, is a number.                                   *)
LEMMA RoundHalfRootNat == ASSUME NEW q \in Nat PROVE RoundHalfRoot(q) \in Nat
<1> DEFINE S == {n \in 0..q : n = 0 \/ (2 * n - 1) * (2 * n - 1) <= q}
<1>1. S \in SUBSET (0..q) /\ 0 \in S
  OBVIOUS
<1> HIDE DEF S
<1>3. IsFiniteSet(S) /\ S \in SUBSET Nat /\ S # {}
  BY <1>1, BoundedFinite
<1> DEFINE m == Maximum(S)
<1>4. m \in Nat
  BY <1>3, MaximumIs
<1>5. RoundHalfRoot(q) = IF (2 * m - 1) * (2 * m - 1) = q /\ m % 2 = 1 THEN m - 1 ELSE m
  BY DEF RoundHalfRoot, S
<1> HIDE DEF m
<1>6. m % 2 = 1 => m - 1 \in Nat
  BY <1>4
<1> QED BY <1>4, <1>5, <1>6

(* The number of rows counted from those of some tables.                   *)
LEMMA CountsMaximum ==
  ASSUME NEW n \in Nat, n # 0, NEW counts \in [1..n -> Nat]
  PROVE  Maximum(ToSet(counts)) \in Nat
<1>1. ToSet(counts) \in SUBSET Nat /\ counts[1] \in ToSet(counts)
  BY DEF ToSet
<1>2. counts \in Surjection(1..n, ToSet(counts))
  BY DEF Surjection, ToSet
<1>3. IsFiniteSet(1..n)
  BY FS_Interval
<1>4. IsFiniteSet(ToSet(counts))
  BY <1>2, <1>3, FS_Surjection
<1> QED BY <1>1, <1>4, MaximumIs

(* The rows that a table is scaled from are a number.                      *)
LEMMA BasisNat ==
  ASSUME NEW n \in Nat, n # 0, NEW counts \in [1..n -> Nat], NEW role
  PROVE  Basis(role, counts) \in Nat
<1>1. counts \in Seq(Nat) /\ Len(counts) = n
  BY FunctionIsSeq
<1>2. counts[1] \in Nat /\ counts[Len(counts)] \in Nat
  BY <1>1
<1>3. counts[1] * counts[Len(counts)] \in Nat
  BY <1>2
<1>4. IntSqrt(counts[1] * counts[Len(counts)]) \in Nat
  BY <1>3, IntSqrtNat
<1> QED BY <1>4, CountsMaximum DEF Basis

(* A table has at least one row.                                           *)
LEMMA RowCountsPositive ==
  ASSUME NEW s, BlueprintAccepted(s), NEW t \in TablesOf(s), NEW rows, NEW c \in RowCounts(s, t, rows),
         \A u \in DOMAIN rows : rows[u] \in Nat
  PROVE  c[1] \in Nat \ {0} /\ c[2] \in Nat
<1> DEFINE found == {i \in Structural(s, t) : ParentOf(s, i) \in DOMAIN rows}
           known == InOrder(found)
           counts == [k \in DOMAIN known |-> rows[ParentOf(s, known[k])]]
<1>0. /\ \A range \in {EntityRows, LookupRows, EventFanout, DetailFanout, BridgeFactor, ChildFactor} :
           range[1] \in Nat \ {0} /\ range[2] \in Nat \ {0}
      /\ MaxRows \in Nat
  BY PlannerConfigured DEF PlannerConfigAccepted
<1>1. c \in CASE s.roles[t] = "lookup" -> {<<n, 2>> : n \in LookupRows[1]..LookupRows[2] + 1}
              [] s.roles[t] # "lookup" /\ known = << >> -> {<<n, 2>> : n \in IF s.roles[t] = "entity" THEN Within(EntityRows) ELSE {}}
              [] OTHER -> {<<AtLeast(AtMost(RoundHalves(Basis(s.roles[t], counts) * f), MaxRows), 1), f>> : f \in Factors(s.roles[t])}
  BY DEF RowCounts
<1>2. /\ Cardinality(found) \in Nat
      /\ known \in [1..Cardinality(found) -> found]
  <2>1. Structural(s, t) \in SUBSET Nat /\ IsFiniteSet(Structural(s, t))
    BY SchemaBasics
  <2>2. found \in SUBSET Structural(s, t)
    OBVIOUS
  <2> HIDE DEF found
  <2>3. found \in SUBSET Nat /\ IsFiniteSet(found)
    BY <2>1, <2>2, FS_Subset
  <2> QED BY <2>3, InOrderFacts
<1>3. counts \in [1..Cardinality(found) -> Nat]
  <2>1. \A i \in found : rows[ParentOf(s, i)] \in Nat
    OBVIOUS
  <2> HIDE DEF found, known
  <2> QED BY <1>2, <2>1
<1>4. CASE s.roles[t] = "lookup"
  <2>1. c \in {<<n, 2>> : n \in LookupRows[1]..LookupRows[2] + 1}
    BY <1>1, <1>4
  <2> QED BY <1>0, <2>1
<1>5. CASE s.roles[t] # "lookup" /\ known = << >>
  <2>1. c \in {<<n, 2>> : n \in IF s.roles[t] = "entity" THEN Within(EntityRows) ELSE {}}
    BY <1>1, <1>5
  <2> QED BY <1>0, <2>1 DEF Within
<1>6. CASE s.roles[t] # "lookup" /\ known # << >>
  <2>1. PICK f \in Factors(s.roles[t]) :
          c = <<AtLeast(AtMost(RoundHalves(Basis(s.roles[t], counts) * f), MaxRows), 1), f>>
    BY <1>1, <1>6
  <2>2. f \in Nat
    BY <1>0 DEF Factors, Within
  <2>3. Cardinality(found) # 0
    <3> HIDE DEF found, known
    <3>1. SUFFICES ASSUME Cardinality(found) = 0 PROVE FALSE
      OBVIOUS
    <3>2. known \in [1..0 -> found]
      BY <1>2, <3>1
    <3>3. known = << >>
      BY <3>2
    <3> QED BY <1>6, <3>3
  <2> HIDE DEF counts, known, found
  <2>4. Basis(s.roles[t], counts) \in Nat
    BY <1>2, <1>3, <2>3, BasisNat
  <2>5. Basis(s.roles[t], counts) * f \in Nat
    BY <2>2, <2>4
  <2>6. RoundHalves(Basis(s.roles[t], counts) * f) \in Nat
    BY <2>5, RoundHalvesNat
  <2>7. AtLeast(AtMost(RoundHalves(Basis(s.roles[t], counts) * f), MaxRows), 1) \in Nat \ {0}
    BY <1>0, <2>6 DEF AtLeast, AtMost
  <2> QED BY <2>1, <2>2, <2>7
<1> QED BY <1>4, <1>5, <1>6

-----------------------------------------------------------------------------
(* The rows of each table.                                                 *)

(* A function with one value more.                                         *)
LEMMA JoinedSingle ==
  ASSUME NEW f, NEW x, NEW value
  PROVE  /\ DOMAIN Joined(f, Single(x, value)) = DOMAIN f \cup {x}
         /\ Joined(f, Single(x, value))[x] = value
         /\ \A y \in DOMAIN f \ {x} : Joined(f, Single(x, value))[y] = f[y]
         /\ Joined(f, Single(x, value)) = [y \in DOMAIN f \cup {x} |-> IF y = x THEN value ELSE f[y]]
<1>1. DOMAIN Single(x, value) = {x} /\ Single(x, value)[x] = value
  BY DEF Single
<1>2. Joined(f, Single(x, value))
        = [y \in DOMAIN f \cup DOMAIN Single(x, value) |->
             IF y \in DOMAIN Single(x, value) THEN Single(x, value)[y] ELSE f[y]]
  BY DEF Joined
<1>3. Joined(f, Single(x, value)) = [y \in DOMAIN f \cup {x} |-> IF y = x THEN value ELSE f[y]]
  BY <1>1, <1>2
<1> QED BY <1>3

(* It stays in its range if the value is.                                  *)
LEMMA JoinedType ==
  ASSUME NEW D, NEW T, NEW f \in [D -> T], NEW x, NEW value \in T
  PROVE  Joined(f, Single(x, value)) \in [D \cup {x} -> T]
<1>1. DOMAIN Single(x, value) = {x} /\ Single(x, value)[x] = value
  BY DEF Single
<1>2. Joined(f, Single(x, value))
        = [y \in D \cup {x} |-> IF y \in {x} THEN Single(x, value)[y] ELSE f[y]]
  BY <1>1 DEF Joined
<1> QED BY <1>1, <1>2

(* The function without values.                                            *)
LEMMA EmptyFunction == DOMAIN << >> = {} /\ \A S : << >> \in [{} -> S]
<1>1. DOMAIN << >> = {}
  OBVIOUS
<1>2. << >> = [x \in {} |-> x]
  BY <1>1
<1> QED BY <1>1, <1>2

(* The plans that have one table more.                                     *)
WithRows(s, before, t) ==
  UNION {{[rows |-> Joined(p.rows, Single(t, c[1])), factor |-> Joined(p.factor, Single(t, c[2]))] :
          c \in RowCounts(s, t, p.rows)} : p \in before}

(* The plans of the first tables, in the order of generation.              *)
LEMMA RowPlanSteps ==
  ASSUME NEW s, NEW n \in Nat, DOMAIN GenerationOrder(s) = 1..n, Len(GenerationOrder(s)) = n
  PROVE  \E plans :
           /\ RowPlans(s) = plans[n]
           /\ plans[0] = {[rows |-> << >>, factor |-> << >>]}
           /\ \A k \in 1..n : plans[k] = WithRows(s, plans[k - 1], GenerationOrder(s)[k])
<1> DEFINE order == GenerationOrder(s)
           Start == {[rows |-> << >>, factor |-> << >>]}
           Next1(k, before) == WithRows(s, before, order[k])
           Solves(f, m) == f = [k \in 0..m |-> IF k = 0 THEN Start ELSE Next1(k, f[k - 1])]
           plans == CHOOSE f : Solves(f, n)
<1>1. RowPlans(s) = plans[n]
  BY DEF RowPlans, WithRows
<1> HIDE DEF Start, Next1
<1>2. \A m \in Nat : \E f : Solves(f, m)
  <2> DEFINE Bad == {m \in Nat : ~\E f : Solves(f, m)}
  <2> SUFFICES ASSUME Bad # {} PROVE FALSE
    OBVIOUS
  <2>1. PICK m \in Bad : \A k \in Bad : m <= k
    <3>1. Bad \in SUBSET Nat
      OBVIOUS
    <3> HIDE DEF Bad
    <3> QED BY <3>1, LeastNatural
  <2>2. m # 0
    <3>1. Solves([k \in 0..0 |-> Start], 0)
      OBVIOUS
    <3> QED BY <2>1, <3>1
  <2>3. \E f : Solves(f, m - 1)
    <3>1. m - 1 \in Nat /\ ~(m <= m - 1)
      BY <2>1, <2>2
    <3> HIDE DEF Solves
    <3> QED BY <2>1, <3>1
  <2>4. PICK f : Solves(f, m - 1)
    BY <2>3
  <2> DEFINE g == [k \in 0..m |-> IF k < m THEN f[k] ELSE Next1(m, f[m - 1])]
  <2>5. Solves(g, m)
    <3>1. \A k \in 0..(m - 1) : g[k] = f[k]
      BY <2>1, <2>2
    <3>2. \A k \in 0..m : g[k] = IF k = 0 THEN Start ELSE Next1(k, g[k - 1])
      BY <2>1, <2>2, <2>4, <3>1
    <3> QED BY <3>2
  <2> HIDE DEF g, Solves
  <2> QED BY <2>1, <2>5
<1>3. Solves(plans, n)
  <2> HIDE DEF Solves
  <2> QED BY <1>2
<1> HIDE DEF plans
<1>4. plans[0] = Start /\ \A k \in 1..n : plans[k] = Next1(k, plans[k - 1])
  BY <1>3
<1> QED BY <1>1, <1>4 DEF Start, Next1

(* Every table is planned, with at least one row.                          *)
LEMMA RowPlansPositive ==
  ASSUME NEW s, BlueprintAccepted(s), NEW p \in RowPlans(s)
  PROVE  p.rows \in [TablesOf(s) -> Nat \ {0}] /\ p.factor \in [TablesOf(s) -> Nat]
<1> DEFINE n == Cardinality(TablesOf(s))
           order == GenerationOrder(s)
           First(k) == {order[j] : j \in 1..k}
           Fits(k, q) == q.rows \in [First(k) -> Nat \ {0}] /\ q.factor \in [First(k) -> Nat]
<1>1. /\ n \in Nat /\ order \in [1..n -> TablesOf(s)]
      /\ \A t \in TablesOf(s) : \E k \in 1..n : order[k] = t
  BY GenerationFacts
<1>2. DOMAIN order = 1..n /\ Len(order) = n
  <2> HIDE DEF order, n
  <2> QED BY <1>1, FunctionIsSeq
<1>3. PICK plans :
           /\ RowPlans(s) = plans[n]
           /\ plans[0] = {[rows |-> << >>, factor |-> << >>]}
           /\ \A k \in 1..n : plans[k] = WithRows(s, plans[k - 1], order[k])
  <2> HIDE DEF n
  <2> QED BY <1>1, <1>2, RowPlanSteps
<1> HIDE DEF n, order
<1>4. \A k \in 0..n : \A q \in plans[k] : Fits(k, q)
  <2> DEFINE Bad == {k \in 0..n : ~\A q \in plans[k] : Fits(k, q)}
  <2> SUFFICES ASSUME Bad # {} PROVE FALSE
    OBVIOUS
  <2>1. PICK k \in Bad : \A j \in Bad : k <= j
    <3>1. Bad \in SUBSET Nat
      BY <1>1
    <3> HIDE DEF Bad
    <3> QED BY <3>1, LeastNatural
  <2>2. k # 0
    <3>1. \A q \in plans[0] : q.rows = << >> /\ q.factor = << >>
      BY <1>3
    <3>2. First(0) = {}
      OBVIOUS
    <3>3. \A q \in plans[0] : Fits(0, q)
      <4>1. \A S : << >> \in [First(0) -> S]
        BY <3>2, EmptyFunction
      <4> HIDE DEF First
      <4> QED BY <3>1, <4>1
    <3> HIDE DEF Fits
    <3> QED BY <2>1, <3>3
  <2>3. k \in 1..n /\ k - 1 \in 0..n /\ ~(k <= k - 1)
    BY <1>1, <2>1, <2>2
  <2>4. \A q \in plans[k - 1] : Fits(k - 1, q)
    <3> HIDE DEF Fits
    <3> QED BY <2>1, <2>3
  <2>5. ASSUME NEW q \in plans[k] PROVE Fits(k, q)
    <3>1. PICK o \in plans[k - 1] : q \in
            {[rows |-> Joined(o.rows, Single(order[k], c[1])), factor |-> Joined(o.factor, Single(order[k], c[2]))] :
             c \in RowCounts(s, order[k], o.rows)}
      BY <1>3, <2>3, <2>5 DEF WithRows
    <3>2. PICK c \in RowCounts(s, order[k], o.rows) :
            q = [rows |-> Joined(o.rows, Single(order[k], c[1])), factor |-> Joined(o.factor, Single(order[k], c[2]))]
      BY <3>1
    <3>3. o.rows \in [First(k - 1) -> Nat \ {0}] /\ o.factor \in [First(k - 1) -> Nat]
      BY <2>4
    <3>4. order[k] \in TablesOf(s)
      BY <1>1, <2>3
    <3>5. c[1] \in Nat \ {0} /\ c[2] \in Nat
      <4>1. \A u \in DOMAIN o.rows : o.rows[u] \in Nat
        BY <3>3
      <4> QED BY <3>4, <4>1, RowCountsPositive
    <3>6. First(k) = First(k - 1) \cup {order[k]}
      BY <2>3
    <3>7. /\ q.rows \in [First(k - 1) \cup {order[k]} -> Nat \ {0}]
          /\ q.factor \in [First(k - 1) \cup {order[k]} -> Nat]
      <4>1. q.rows = Joined(o.rows, Single(order[k], c[1])) /\ q.factor = Joined(o.factor, Single(order[k], c[2]))
        BY <3>2
      <4> HIDE DEF First
      <4>2. Joined(o.rows, Single(order[k], c[1])) \in [First(k - 1) \cup {order[k]} -> Nat \ {0}]
        BY <3>3, <3>5, JoinedType
      <4>3. Joined(o.factor, Single(order[k], c[2])) \in [First(k - 1) \cup {order[k]} -> Nat]
        BY <3>3, <3>5, JoinedType
      <4> QED BY <4>1, <4>2, <4>3
    <3> HIDE DEF First
    <3> QED BY <3>6, <3>7
  <2> HIDE DEF Fits
  <2> QED BY <2>1, <2>5
<1>5. Fits(n, p)
  <2>1. p \in plans[n] /\ n \in 0..n
    BY <1>1, <1>3
  <2> HIDE DEF Fits
  <2> QED BY <1>4, <2>1
<1>6. First(n) = TablesOf(s)
  BY <1>1
<1> HIDE DEF First
<1> QED BY <1>5, <1>6

-----------------------------------------------------------------------------
(* Compiled schemas.                                                       *)

(* A choice for each has one of each.                                      *)
LEMMA EachOfFacts ==
  ASSUME NEW choices, NEW f \in EachOf(choices)
  PROVE  DOMAIN f = DOMAIN choices /\ \A k \in DOMAIN choices : f[k] \in choices[k]
BY DEF EachOf

(* A compiled schema has the tables, keys and occurrences of the blueprint.*)
LEMMA CompileFacts ==
  ASSUME NEW c, NEW b, NEW s \in Compile(c, b), BlueprintAccepted(b)
  PROVE  /\ s.roles = b.roles /\ s.ranks = b.ranks /\ s.edges = b.edges /\ s.occurrences = b.occurrences
         /\ TablesOf(s) = TablesOf(b) /\ KeysOf(s) = KeysOf(b)
         /\ DOMAIN s.columns = TablesOf(s)
         /\ \A t \in TablesOf(s) : s.columns[t] \in TableColumns(c, b, t)
         /\ BlueprintAccepted(s)
<1>1. PICK columns \in EachOf([t \in TablesOf(b) |-> TableColumns(c, b, t)]) :
        s = [roles |-> b.roles, ranks |-> b.ranks, edges |-> b.edges, occurrences |-> b.occurrences, columns |-> columns]
  BY DEF Compile
<1>2. /\ s.roles = b.roles /\ s.ranks = b.ranks /\ s.edges = b.edges /\ s.occurrences = b.occurrences
      /\ s.columns = columns
  BY <1>1
<1>3. TablesOf(s) = TablesOf(b) /\ KeysOf(s) = KeysOf(b)
  BY <1>2 DEF TablesOf, KeysOf
<1>4. DOMAIN columns = TablesOf(b) /\ \A t \in TablesOf(b) : columns[t] \in TableColumns(c, b, t)
  <2> DEFINE choices == [t \in TablesOf(b) |-> TableColumns(c, b, t)]
  <2>1. DOMAIN choices = TablesOf(b) /\ \A t \in TablesOf(b) : choices[t] = TableColumns(c, b, t)
    OBVIOUS
  <2> HIDE DEF choices
  <2> QED BY <1>1, <2>1, EachOfFacts DEF choices
<1>5. BlueprintAccepted(s)
  BY <1>2, <1>3 DEF BlueprintAccepted, EdgeRoles, ParentOf, ChildOf
<1> QED BY <1>2, <1>3, <1>4, <1>5

(* The columns of a table: its primary key, its foreign keys, then those of*)
(* its role, then features.                                                *)
ColumnSet == [kind : {"primary", "key", "time", "feature"}, nullable : BOOLEAN, unique : BOOLEAN]

(* The key columns of a table: one for each of its keys, in their order.   *)
LEMMA KeyColumnsFacts ==
  ASSUME NEW b, BlueprintAccepted(b), NEW t
  PROVE  /\ KeyColumns(b, t) \in Seq(ColumnSet) /\ Len(KeyColumns(b, t)) = Cardinality(Incoming(b, t))
         /\ DOMAIN KeyColumns(b, t) = 1..Len(KeyColumns(b, t)) /\ Len(KeyColumns(b, t)) \in Nat
         /\ \A k \in DOMAIN KeyColumns(b, t) :
              KeyColumns(b, t)[k].kind = "key" /\ KeyColumns(b, t)[k].nullable = Optional(b, InOrder(Incoming(b, t))[k])
<1> DEFINE keys == InOrder(Incoming(b, t))
           n == Cardinality(Incoming(b, t))
           f == KeyColumns(b, t)
<1>1. n \in Nat /\ DOMAIN keys = 1..n
  BY SchemaBasics, InOrderFacts
<1>2. f = [k \in 1..n |-> Column("key", Optional(b, keys[k]), FALSE)]
  BY <1>1 DEF KeyColumns
<1>3. \A i : Optional(b, i) \in BOOLEAN
  BY DEF Optional
<1>4. \A k \in 1..n : f[k].kind = "key" /\ f[k].nullable = Optional(b, keys[k]) /\ f[k] \in ColumnSet
  BY <1>2, <1>3 DEF Column, ColumnSet
<1>5. f \in [1..n -> ColumnSet]
  BY <1>2, <1>4
<1> HIDE DEF f, n, keys
<1>6. f \in Seq(ColumnSet) /\ Len(f) = n /\ DOMAIN f = 1..n
  BY <1>1, <1>5, FunctionIsSeq
<1> QED BY <1>1, <1>4, <1>6 DEF f, n, keys

(* The columns of a role are features and times, and times only of events  *)
(* and details.                                                            *)
LEMMA RoleColumnsFacts ==
  ASSUME NEW role
  PROVE  /\ RoleColumns(role) \in Seq(ColumnSet)
         /\ DOMAIN RoleColumns(role) = 1..Len(RoleColumns(role)) /\ Len(RoleColumns(role)) \in Nat
         /\ \A k \in DOMAIN RoleColumns(role) :
              /\ RoleColumns(role)[k].kind \in {"time", "feature"}
              /\ RoleColumns(role)[k].kind = "time" => role \in {"event", "detail"}
         /\ role = "event" => Len(RoleColumns(role)) = 1 /\ RoleColumns(role)[1].kind = "time"
<1> DEFINE time == Column("time", FALSE, FALSE)
           code == Column("feature", FALSE, TRUE)
           plain == Column("feature", FALSE, FALSE)
<1>1. /\ time \in ColumnSet /\ code \in ColumnSet /\ plain \in ColumnSet
      /\ time.kind = "time" /\ code.kind = "feature" /\ plain.kind = "feature"
  BY DEF Column, ColumnSet
<1>2. RoleColumns(role) = CASE role = "event" -> <<time>> [] role = "lookup" -> <<code, plain>>
                            [] role = "detail" -> <<plain, time>> [] OTHER -> << >>
  BY DEF RoleColumns
<1> HIDE DEF time, code, plain
<1>3. CASE role = "event"
  BY <1>1, <1>2, <1>3
<1>4. CASE role = "lookup"
  BY <1>1, <1>2, <1>4
<1>5. CASE role = "detail"
  BY <1>1, <1>2, <1>5
<1>6. CASE role \notin {"event", "lookup", "detail"}
  BY <1>1, <1>2, <1>6
<1> QED BY <1>3, <1>4, <1>5, <1>6

(* Drawn columns are features that are not unique.                         *)
LEMMA FeatureColumnsFacts ==
  ASSUME NEW c, NEW b, NEW t, NEW f \in FeatureColumns(c, b, t), CompilerConfigAccepted(c)
  PROVE  /\ f \in Seq(ColumnSet) /\ DOMAIN f = 1..Len(f) /\ Len(f) \in Nat
         /\ \A k \in DOMAIN f : f[k].kind = "feature" /\ ~f[k].unique
<1> DEFINE bounds == FeatureColumnBounds(c, b, t)
           Plain == {Column("feature", nullable, FALSE) : nullable \in c.nullable}
<1>1. bounds \in Nat \X Nat
  BY DEF FeatureColumnBounds, CompilerConfigAccepted
<1> HIDE DEF bounds
<1>2. PICK n \in bounds[1]..bounds[2] : f \in [1..n -> Plain]
  BY DEF FeatureColumns, bounds
<1>3. n \in Nat
  BY <1>1
<1>4. \A column \in Plain : column \in ColumnSet /\ column.kind = "feature" /\ ~column.unique
  <2>1. c.nullable \subseteq BOOLEAN
    BY DEF CompilerConfigAccepted
  <2>2. \A x \in BOOLEAN : LET column == Column("feature", x, FALSE)
                           IN column \in ColumnSet /\ column.kind = "feature" /\ ~column.unique
    BY DEF Column, ColumnSet
  <2> QED BY <2>1, <2>2
<1> HIDE DEF Plain
<1>5. f \in [1..n -> ColumnSet] /\ \A k \in 1..n : f[k].kind = "feature" /\ ~f[k].unique
  BY <1>2, <1>4
<1> QED BY <1>3, <1>5, FunctionIsSeq

(* Each column of a compiled table, by its place.                          *)
LEMMA TableColumnsFacts ==
  ASSUME NEW c, CompilerConfigAccepted(c), NEW b, BlueprintAccepted(b), NEW t, NEW columns \in TableColumns(c, b, t)
  PROVE  LET n == Cardinality(Incoming(b, t))
         IN /\ n \in Nat /\ columns \in Seq(ColumnSet)
            /\ DOMAIN columns = 1..Len(columns) /\ Len(columns) \in Nat /\ n + 1 <= Len(columns)
            /\ columns[1].kind = "primary"
            /\ \A k \in 1..n : columns[k + 1].kind = "key" /\ columns[k + 1].nullable = Optional(b, InOrder(Incoming(b, t))[k])
            /\ \A k \in (n + 2)..Len(columns) :
                 /\ columns[k].kind \in {"time", "feature"}
                 /\ columns[k].kind = "time" => b.roles[t] \in {"event", "detail"}
            /\ b.roles[t] = "event" => n + 2 <= Len(columns) /\ columns[n + 2].kind = "time"
<1> DEFINE n == Cardinality(Incoming(b, t))
           first == <<Column("primary", FALSE, TRUE)>>
           keys == KeyColumns(b, t)
           roles == RoleColumns(b.roles[t])
<1>1. PICK f \in FeatureColumns(c, b, t) : columns = first \o keys \o roles \o f
  BY DEF TableColumns
<1>2. first \in Seq(ColumnSet) /\ Len(first) = 1 /\ first[1].kind = "primary"
  BY DEF Column, ColumnSet
<1>3. /\ keys \in Seq(ColumnSet) /\ Len(keys) = n /\ DOMAIN keys = 1..n /\ n \in Nat
      /\ \A k \in 1..n : keys[k].kind = "key" /\ keys[k].nullable = Optional(b, InOrder(Incoming(b, t))[k])
  BY KeyColumnsFacts
<1>4. /\ roles \in Seq(ColumnSet) /\ DOMAIN roles = 1..Len(roles) /\ Len(roles) \in Nat
      /\ \A k \in DOMAIN roles :
           roles[k].kind \in {"time", "feature"} /\ (roles[k].kind = "time" => b.roles[t] \in {"event", "detail"})
      /\ b.roles[t] = "event" => Len(roles) = 1 /\ roles[1].kind = "time"
  BY RoleColumnsFacts
<1>5. /\ f \in Seq(ColumnSet) /\ DOMAIN f = 1..Len(f) /\ Len(f) \in Nat
      /\ \A k \in DOMAIN f : f[k].kind = "feature" /\ ~f[k].unique
  BY FeatureColumnsFacts
<1> DEFINE r == Len(roles)
           two == first \o keys
           three == two \o roles
<1> HIDE DEF first, keys, roles, n, two, three, r
<1>6. /\ two \in Seq(ColumnSet) /\ Len(two) = n + 1 /\ two[1] = first[1] /\ \A k \in 1..n : two[k + 1] = keys[k]
  <2>1. /\ two \in Seq(ColumnSet) /\ Len(two) = Len(first) + Len(keys) /\ \A i \in 1..Len(first) : two[i] = first[i]
        /\ \A k \in 1..Len(keys) : two[Len(first) + k] = keys[k]
    BY <1>2, <1>3, ConcatFacts DEF two
  <2> QED BY <1>2, <1>3, <2>1
<1>7. /\ three \in Seq(ColumnSet) /\ Len(three) = n + 1 + r /\ \A i \in 1..(n + 1) : three[i] = two[i]
      /\ \A k \in 1..r : three[n + 1 + k] = roles[k]
  <2>0. two \in Seq(ColumnSet) /\ roles \in Seq(ColumnSet)
    BY <1>4, <1>6
  <2>1. /\ two \o roles \in Seq(ColumnSet) /\ Len(two \o roles) = Len(two) + Len(roles)
        /\ \A i \in 1..Len(two) : (two \o roles)[i] = two[i]
        /\ \A k \in 1..Len(roles) : (two \o roles)[Len(two) + k] = roles[k]
    BY <2>0, ConcatFacts
  <2> QED BY <1>6, <2>1 DEF r, three
<1>8. /\ columns \in Seq(ColumnSet) /\ Len(columns) = n + 1 + r + Len(f) /\ \A i \in 1..(n + 1 + r) : columns[i] = three[i]
      /\ \A k \in 1..Len(f) : columns[n + 1 + r + k] = f[k]
  <2>1. columns = three \o f
    BY <1>1 DEF two, three
  <2>0. three \in Seq(ColumnSet) /\ f \in Seq(ColumnSet)
    BY <1>5, <1>7
  <2>2. /\ three \o f \in Seq(ColumnSet) /\ Len(three \o f) = Len(three) + Len(f)
        /\ \A i \in 1..Len(three) : (three \o f)[i] = three[i]
        /\ \A k \in 1..Len(f) : (three \o f)[Len(three) + k] = f[k]
    BY <2>0, ConcatFacts
  <2> QED BY <1>7, <2>1, <2>2
<1>9. r \in Nat /\ DOMAIN roles = 1..r
  BY <1>4 DEF r
<1>10. \A k \in 1..n : columns[k + 1] = keys[k]
  BY <1>3, <1>6, <1>7, <1>8, <1>9
<1>11. columns[1] = first[1]
  BY <1>3, <1>6, <1>7, <1>8, <1>9
<1>12. ASSUME NEW k \in (n + 2)..Len(columns)
       PROVE  /\ columns[k].kind \in {"time", "feature"}
              /\ columns[k].kind = "time" => b.roles[t] \in {"event", "detail"}
  <2>1. CASE k <= n + 1 + r
    <3>1. k - (n + 1) \in 1..r /\ n + 1 + (k - (n + 1)) = k
      BY <1>3, <1>9, <2>1
    <3>2. columns[k] = roles[k - (n + 1)]
      BY <1>3, <1>7, <1>8, <1>9, <2>1, <3>1
    <3> DEFINE j == k - (n + 1)
    <3> HIDE DEF j
    <3>3. /\ roles[j].kind \in {"time", "feature"}
          /\ roles[j].kind = "time" => b.roles[t] \in {"event", "detail"}
      <4>1. j \in DOMAIN roles
        BY <1>9, <3>1 DEF j
      <4> QED BY <1>4, <4>1, Zenon
    <3>4. columns[k] = roles[j]
      BY <3>2 DEF j
    <3> QED BY <3>3, <3>4
  <2>2. CASE ~(k <= n + 1 + r)
    <3>1. k - (n + 1 + r) \in 1..Len(f) /\ n + 1 + r + (k - (n + 1 + r)) = k
      BY <1>3, <1>5, <1>8, <1>9, <2>2
    <3>2. columns[k] = f[k - (n + 1 + r)]
      BY <1>8, <3>1
    <3> QED BY <1>5, <3>1, <3>2
  <2> QED BY <2>1, <2>2
<1>14. b.roles[t] = "event" => n + 2 <= Len(columns) /\ columns[n + 2].kind = "time"
  <2> SUFFICES ASSUME b.roles[t] = "event" PROVE n + 2 <= Len(columns) /\ columns[n + 2].kind = "time"
    OBVIOUS
  <2>1. r = 1 /\ roles[1].kind = "time"
    BY <1>4 DEF r
  <2>2. n + 2 \in 1..(n + 1 + r) /\ n + 1 + 1 = n + 2 /\ n + 2 <= Len(columns)
    BY <1>3, <1>5, <1>8, <2>1
  <2>3. columns[n + 2] = three[n + 2] /\ three[n + 1 + 1] = roles[1]
    BY <1>7, <1>8, <2>1, <2>2
  <2> QED BY <2>1, <2>2, <2>3
<1>13. DOMAIN columns = 1..Len(columns) /\ Len(columns) \in Nat /\ n + 1 <= Len(columns)
  BY <1>3, <1>5, <1>8, <1>9
<1> QED BY <1>2, <1>3, <1>8, <1>10, <1>11, <1>12, <1>13, <1>14 DEF n

(* All events have times.                                                  *)
LEMMA EventTimed ==
  ASSUME NEW c, CompilerConfigAccepted(c), NEW b, BlueprintAccepted(b), NEW s \in Compile(c, b), NEW t \in TablesOf(s), s.roles[t] = "event"
  PROVE  Timed(s, t)
<1> DEFINE n == Cardinality(Incoming(b, t))
           columns == s.columns[t]
<1>1. columns \in TableColumns(c, b, t) /\ b.roles[t] = "event"
  BY CompileFacts
<1> HIDE DEF columns
<1>2. /\ n \in Nat /\ DOMAIN columns = 1..Len(columns) /\ Len(columns) \in Nat
      /\ n + 2 <= Len(columns) /\ columns[n + 2].kind = "time"
  BY <1>1, TableColumnsFacts
<1> HIDE DEF n
<1>3. n + 2 \in DOMAIN columns
  BY <1>2
<1> QED BY <1>2, <1>3 DEF Timed, ColumnsOfKind, columns

(* Only events and details have times.                                     *)
LEMMA TimedFacts ==
  ASSUME NEW c, CompilerConfigAccepted(c), NEW b, BlueprintAccepted(b), NEW s \in Compile(c, b), NEW t \in TablesOf(s), Timed(s, t)
  PROVE  b.roles[t] \in {"event", "detail"}
<1> DEFINE n == Cardinality(Incoming(b, t))
           columns == s.columns[t]
<1>1. PICK k \in DOMAIN columns : columns[k].kind = "time"
  BY DEF Timed, ColumnsOfKind
<1>2. columns \in TableColumns(c, b, t)
  BY CompileFacts
<1> HIDE DEF columns
<1>3. /\ n \in Nat /\ DOMAIN columns = 1..Len(columns) /\ Len(columns) \in Nat
      /\ columns[1].kind = "primary"
      /\ \A j \in 1..n : columns[j + 1].kind = "key"
      /\ \A j \in (n + 2)..Len(columns) : columns[j].kind = "time" => b.roles[t] \in {"event", "detail"}
  BY <1>2, TableColumnsFacts
<1>4. k # 1
  BY <1>1, <1>3
<1>5. ASSUME k - 1 \in 1..n PROVE FALSE
  <2>1. (k - 1) + 1 = k
    BY <1>1, <1>3
  <2> QED BY <1>1, <1>3, <1>5, <2>1
<1>6. k \in (n + 2)..Len(columns)
  BY <1>1, <1>3, <1>4, <1>5
<1> QED BY <1>1, <1>3, <1>6

-----------------------------------------------------------------------------
(* The headroom at the end of the calendar.                                *)

Key(s, t, u) == \E i \in KeysOf(s) : ParentOf(s, i) = t /\ ChildOf(s, i) = u

(* A way along keys has no more tables than there are to visit.            *)
LEMMA PathLength ==
  ASSUME NEW s, BlueprintAccepted(s), NEW n \in Nat, NEW T \in SUBSET TablesOf(s), NEW path \in [1..n -> T],
         \A k \in 1..(n - 1) : Key(s, path[k], path[k + 1])
  PROVE  n <= Cardinality(T)
<1> DEFINE rank == [k \in 1..n |-> s.ranks[path[k]]]
<1>1. s.ranks \in [TablesOf(s) -> Nat] /\ \A t, u : Key(s, t, u) => s.ranks[t] < s.ranks[u]
  BY DEF BlueprintAccepted, Key
<1>2. rank \in [1..n -> Nat]
  BY <1>1
<1>3. \A k \in 1..(n - 1) : rank[k] < rank[k + 1]
  BY <1>1
<1> HIDE DEF rank
<1>4. \A k \in 1..n : \A j \in 1..(k - 1) : rank[j] < rank[k]
  <2> DEFINE Bad == {k \in 1..n : ~\A j \in 1..(k - 1) : rank[j] < rank[k]}
  <2> SUFFICES ASSUME Bad # {} PROVE FALSE
    OBVIOUS
  <2>1. PICK k \in Bad : \A j \in Bad : k <= j
    <3>1. Bad \in SUBSET Nat
      OBVIOUS
    <3> HIDE DEF Bad
    <3> QED BY <3>1, LeastNatural
  <2>2. PICK j \in 1..(k - 1) : ~(rank[j] < rank[k])
    BY <2>1
  <2>3. k - 1 \in 1..(n - 1) /\ (k - 1) + 1 = k /\ k - 1 \in 1..n /\ ~(k <= k - 1) /\ j \in 1..n /\ k \in 1..n
    BY <2>1, <2>2
  <2>4. rank[k - 1] < rank[k] /\ rank[k - 1] \in Nat /\ rank[k] \in Nat /\ rank[j] \in Nat
    BY <1>2, <1>3, <2>3
  <2>5. CASE j = k - 1
    BY <2>2, <2>4, <2>5
  <2>6. CASE j # k - 1
    <3>1. j \in 1..((k - 1) - 1)
      BY <2>2, <2>3, <2>6
    <3>2. rank[j] < rank[k - 1]
      BY <2>1, <2>3, <3>1
    <3> QED BY <2>2, <2>4, <3>2
  <2> QED BY <2>5, <2>6
<1>5. IsFiniteSet(TablesOf(s)) /\ IsFiniteSet(T)
  BY SchemaBasics, FS_Subset
<1>6. IsFiniteSet(1..n) /\ Cardinality(1..n) = n
  BY FS_Interval
<1>7. Cardinality(T) \in Nat
  BY <1>5, FS_CardinalityType
<1> SUFFICES ASSUME Cardinality(T) < n PROVE FALSE
  BY <1>7
<1>8. PICK x \in 1..n, y \in 1..n : x # y /\ path[x] = path[y]
  BY <1>5, <1>6, FS_PigeonHole
<1>9. rank[x] = rank[y] /\ rank[x] \in Nat /\ rank[y] \in Nat
  BY <1>2, <1>8 DEF rank
<1>10. x \in 1..(y - 1) \/ y \in 1..(x - 1)
  BY <1>8
<1> QED BY <1>4, <1>8, <1>9, <1>10

TimedTables(s) == {t \in TablesOf(s) : Timed(s, t)}

(* The paths that are looked at: of timed tables, but for the first.       *)
LEMMA TimedPathFacts ==
  ASSUME NEW s, BlueprintAccepted(s), NEW t \in TablesOf(s)
  PROVE  /\ \A path \in TimedPaths(s, t) :
              /\ Len(path) \in 1..Cardinality(TablesOf(s)) /\ path \in [1..Len(path) -> TablesOf(s)] /\ path[1] = t
              /\ \A k \in 1..(Len(path) - 1) : Timed(s, path[k + 1]) /\ Key(s, path[k], path[k + 1])
         /\ \A n \in 1..Cardinality(TablesOf(s)) : \A path \in [1..n -> TablesOf(s)] :
              path[1] = t /\ (\A k \in 1..(n - 1) : Timed(s, path[k + 1]) /\ Key(s, path[k], path[k + 1]))
                => path \in TimedPaths(s, t) /\ Len(path) = n
<1> DEFINE N == Cardinality(TablesOf(s))
<1>1. N \in Nat
  BY SchemaBasics, FS_CardinalityType
<1> HIDE DEF N
<1>2. \A n \in 1..N : \A path \in [1..n -> TablesOf(s)] : Len(path) = n
  BY FunctionIsSeq
<1>3. ASSUME NEW path \in TimedPaths(s, t)
      PROVE  /\ Len(path) \in 1..N /\ path \in [1..Len(path) -> TablesOf(s)] /\ path[1] = t
             /\ \A k \in 1..(Len(path) - 1) : Timed(s, path[k + 1]) /\ Key(s, path[k], path[k + 1])
  <2>1. /\ path \in UNION {[1..n -> TablesOf(s)] : n \in 1..N} /\ path[1] = t
        /\ \A k \in 1..(Len(path) - 1) : Timed(s, path[k + 1]) /\ Key(s, path[k], path[k + 1])
    BY DEF TimedPaths, Key, N
  <2>2. PICK n \in 1..N : path \in [1..n -> TablesOf(s)]
    BY <2>1
  <2>3. Len(path) = n
    BY <1>2, <2>2
  <2> QED BY <2>1, <2>2, <2>3
<1>4. ASSUME NEW n \in 1..N, NEW path \in [1..n -> TablesOf(s)],
             path[1] = t, \A k \in 1..(n - 1) : Timed(s, path[k + 1]) /\ Key(s, path[k], path[k + 1])
      PROVE  path \in TimedPaths(s, t) /\ Len(path) = n
  <2>1. Len(path) = n
    BY <1>2
  <2>2. path \in UNION {[1..j -> TablesOf(s)] : j \in 1..N}
    OBVIOUS
  <2> QED BY <1>4, <2>1, <2>2 DEF TimedPaths, Key, N
<1> QED BY <1>3, <1>4 DEF N

(* The depth of a table is the length of its longest path.                 *)
LEMMA DepthFacts ==
  ASSUME NEW s, BlueprintAccepted(s), NEW t \in TablesOf(s)
  PROVE  /\ LaggedDepth(s, t) \in Nat
         /\ \E path \in TimedPaths(s, t) : Len(path) = LaggedDepth(s, t)
         /\ \A path \in TimedPaths(s, t) : Len(path) <= LaggedDepth(s, t)
<1> DEFINE N == Cardinality(TablesOf(s))
           S == {Len(path) : path \in TimedPaths(s, t)}
<1>1. N \in Nat /\ N # 0
  BY SchemaBasics, FS_CardinalityType, FS_EmptySet
<1>2. S \in SUBSET (0..N)
  BY TimedPathFacts
<1>3. S # {}
  <2> DEFINE path == [k \in 1..1 |-> t]
  <2>1. 1 \in 1..N /\ path \in [1..1 -> TablesOf(s)] /\ path[1] = t /\ 1..(1 - 1) = {}
    BY <1>1
  <2> HIDE DEF path
  <2>2. path \in TimedPaths(s, t)
    BY <2>1, TimedPathFacts
  <2> QED BY <2>2
<1> HIDE DEF S, N
<1>4. IsFiniteSet(S) /\ S \in SUBSET Nat
  BY <1>1, <1>2, BoundedFinite
<1>5. Maximum(S) \in S /\ \A y \in S : y <= Maximum(S)
  BY <1>3, <1>4, MaximumIs
<1>6. LaggedDepth(s, t) = Maximum(S)
  BY DEF LaggedDepth, S
<1> HIDE DEF LaggedDepth
<1> QED BY <1>4, <1>5, <1>6 DEF S

(* A table is one deeper than each timed child.                            *)
LEMMA DepthOfParent ==
  ASSUME NEW s, BlueprintAccepted(s), NEW t \in TablesOf(s), NEW u \in TablesOf(s), Key(s, t, u), Timed(s, u)
  PROVE  LaggedDepth(s, u) + 1 <= LaggedDepth(s, t)
<1>1. PICK path \in TimedPaths(s, u) : Len(path) = LaggedDepth(s, u)
  BY DepthFacts
<1> DEFINE n == Len(path)
           longer == [k \in 1..(n + 1) |-> IF k = 1 THEN t ELSE path[k - 1]]
<1>2. /\ n \in Nat \ {0} /\ path \in [1..n -> TablesOf(s)] /\ path[1] = u
      /\ \A k \in 1..(n - 1) : Timed(s, path[k + 1]) /\ Key(s, path[k], path[k + 1])
  <2>1. Cardinality(TablesOf(s)) \in Nat
    BY SchemaBasics, FS_CardinalityType
  <2> QED BY <2>1, TimedPathFacts
<1> HIDE DEF n
<1>3. longer \in [1..(n + 1) -> TablesOf(s)] /\ longer[1] = t
  BY <1>2
<1>4. ASSUME NEW k \in 1..((n + 1) - 1) PROVE Timed(s, longer[k + 1]) /\ Key(s, longer[k], longer[k + 1])
  <2>1. k \in 1..n /\ longer[k + 1] = path[k]
    BY <1>2
  <2>2. CASE k = 1
    BY <1>2, <2>1, <2>2
  <2>3. CASE k # 1
    <3>1. k - 1 \in 1..(n - 1) /\ (k - 1) + 1 = k
      BY <1>2, <2>1, <2>3
    <3>2. longer[k] = path[k - 1]
      BY <1>2, <2>1, <2>3
    <3>3. Timed(s, path[k]) /\ Key(s, path[k - 1], path[k])
      BY <1>2, <3>1
    <3> HIDE DEF longer
    <3> QED BY <2>1, <3>2, <3>3
  <2> QED BY <2>2, <2>3
<1> HIDE DEF longer
<1>5. n + 1 \in 1..Cardinality(TablesOf(s))
  <2>1. n + 1 <= Cardinality(TablesOf(s))
    <3>1. n + 1 \in Nat /\ TablesOf(s) \in SUBSET TablesOf(s)
      BY <1>2
    <3> DEFINE m == n + 1
    <3> HIDE DEF m
    <3>2. m \in Nat /\ longer \in [1..m -> TablesOf(s)] /\ \A k \in 1..(m - 1) : Key(s, longer[k], longer[k + 1])
      BY <1>3, <1>4, <3>1 DEF m
    <3>3. m <= Cardinality(TablesOf(s))
      BY <3>1, <3>2, PathLength
    <3> QED BY <3>3 DEF m
  <2> QED BY <1>2, <2>1, SchemaBasics, FS_CardinalityType
<1>6. longer \in TimedPaths(s, t) /\ Len(longer) = n + 1
  BY <1>3, <1>4, <1>5, TimedPathFacts
<1>7. n + 1 <= LaggedDepth(s, t)
  BY <1>6, DepthFacts
<1> QED BY <1>1, <1>7 DEF n

(* No timed table is deeper than there are timed tables.                   *)
LEMMA DepthBounded ==
  ASSUME NEW s, BlueprintAccepted(s), NEW t \in TimedTables(s)
  PROVE  LaggedDepth(s, t) <= Cardinality(TimedTables(s))
<1>0. t \in TablesOf(s)
  BY DEF TimedTables
<1>1. PICK path \in TimedPaths(s, t) : Len(path) = LaggedDepth(s, t)
  BY <1>0, DepthFacts
<1> DEFINE n == Len(path)
<1>2. /\ n \in Nat \ {0} /\ path \in [1..n -> TablesOf(s)] /\ path[1] = t
      /\ \A k \in 1..(n - 1) : Timed(s, path[k + 1]) /\ Key(s, path[k], path[k + 1])
  <2>1. Cardinality(TablesOf(s)) \in Nat
    BY SchemaBasics, FS_CardinalityType
  <2> QED BY <1>0, <2>1, TimedPathFacts
<1> HIDE DEF n
<1>3. ASSUME NEW k \in 1..n PROVE path[k] \in TimedTables(s)
  <2>1. CASE k = 1
    BY <1>2, <2>1
  <2>2. CASE k # 1
    <3>1. k - 1 \in 1..(n - 1) /\ (k - 1) + 1 = k
      BY <1>2, <2>2
    <3>2. Timed(s, path[k])
      BY <1>2, <3>1
    <3> QED BY <1>2, <3>2 DEF TimedTables
  <2> QED BY <2>1, <2>2
<1>4. path \in [1..n -> TimedTables(s)] /\ TimedTables(s) \in SUBSET TablesOf(s)
  BY <1>2, <1>3 DEF TimedTables
<1>5. n <= Cardinality(TimedTables(s))
  BY <1>2, <1>4, PathLength
<1> QED BY <1>1, <1>5 DEF n

(* The calendar is longer than any chain of tables with times.             *)
HeadroomSuffices ==
  \A r \in Requests :
    CalendarEnd >= Cardinality({t \in TablesOf(r.blueprint) : r.blueprint.roles[t] \in {"event", "detail"}}) + 2

(* The last time of a table is before that of its timed children.          *)
LEMMA HeadroomFacts ==
  ASSUME HeadroomSuffices, NEW r \in Requests, NEW s \in Compile(r.columns, r.blueprint)
  PROVE  \A t \in TimedTables(s) :
           /\ EffectiveEnd(s, t) \in Nat /\ EffectiveEnd(s, t) >= 2
           /\ \A u \in TimedTables(s) : Key(s, t, u) => EffectiveEnd(s, t) < EffectiveEnd(s, u)
<1> DEFINE b == r.blueprint
           Dated == {t \in TablesOf(b) : b.roles[t] \in {"event", "detail"}}
<1>1. BlueprintAccepted(b) /\ CompilerConfigAccepted(r.columns)
  BY RequestsAccepted
<1>2. BlueprintAccepted(s) /\ TablesOf(s) = TablesOf(b)
  BY <1>1, CompileFacts
<1>3. TimedTables(s) \subseteq Dated
  BY <1>1, <1>2, TimedFacts DEF TimedTables
<1>4. IsFiniteSet(Dated) /\ Cardinality(Dated) \in Nat
  <2>1. Dated \in SUBSET TablesOf(b) /\ IsFiniteSet(TablesOf(b))
    BY <1>1, SchemaBasics
  <2> HIDE DEF Dated
  <2> QED BY <2>1, FS_Subset, FS_CardinalityType
<1>5. Cardinality(TimedTables(s)) \in Nat /\ Cardinality(TimedTables(s)) <= Cardinality(Dated)
  <2> HIDE DEF Dated
  <2> QED BY <1>3, <1>4, FS_Subset, FS_CardinalityType
<1>6. CalendarEnd \in Nat /\ CalendarEnd >= Cardinality(Dated) + 2
  BY PlannerConfigured DEF HeadroomSuffices, PlannerConfigAccepted
<1> HIDE DEF Dated, b
<1>7. ASSUME NEW t \in TimedTables(s)
      PROVE  LaggedDepth(s, t) \in Nat /\ EffectiveEnd(s, t) = CalendarEnd - LaggedDepth(s, t) /\ CalendarEnd - LaggedDepth(s, t) >= 2
  <2>1. t \in TablesOf(s)
    BY DEF TimedTables
  <2>2. LaggedDepth(s, t) \in Nat
    BY <1>2, <2>1, DepthFacts
  <2>3. LaggedDepth(s, t) <= Cardinality(TimedTables(s))
    BY <1>2, DepthBounded
  <2>4. CalendarEnd - LaggedDepth(s, t) >= 2
    BY <1>4, <1>5, <1>6, <2>2, <2>3
  <2> QED BY <1>6, <2>2, <2>4 DEF EffectiveEnd
<1>8. ASSUME NEW t \in TimedTables(s), NEW u \in TimedTables(s), Key(s, t, u)
      PROVE  EffectiveEnd(s, t) < EffectiveEnd(s, u)
  <2>1. t \in TablesOf(s) /\ u \in TablesOf(s) /\ Timed(s, u)
    BY DEF TimedTables
  <2>2. LaggedDepth(s, u) + 1 <= LaggedDepth(s, t)
    BY <1>2, <1>8, <2>1, DepthOfParent
  <2> QED BY <1>6, <1>7, <2>2
<1> QED BY <1>6, <1>7, <1>8

-----------------------------------------------------------------------------
(* Prior plans.                                                            *)

(* The event of a bundle hangs on its entity, by the key of the bundle.    *)
Hung(s, b) ==
  /\ b.entity \in TablesOf(s) /\ b.event \in TablesOf(s)
  /\ s.roles[b.entity] = "entity" /\ s.roles[b.event] = "event"
  /\ \E i \in KeysOf(s) : Structural(s, b.event) = {i} /\ b.keys = {i} /\ ParentOf(s, i) = b.entity /\ ChildOf(s, i) = b.event

(* A candidate is an entity and an event that hangs on it alone.           *)
LEMMA CandidateFacts ==
  ASSUME NEW s, BlueprintAccepted(s), NEW k \in DOMAIN s.occurrences, Candidate(s, s.occurrences[k])
  PROVE  LET o == s.occurrences[k]
         IN /\ o.entity \in TablesOf(s) /\ o.event \in TablesOf(s)
            /\ s.roles[o.entity] = "entity" /\ s.roles[o.event] = "event"
            /\ Structural(s, o.event) = {EventKey(s, o)} /\ EventKey(s, o) \in KeysOf(s)
            /\ ParentOf(s, EventKey(s, o)) = o.entity /\ ChildOf(s, EventKey(s, o)) = o.event
<1> DEFINE o == s.occurrences[k]
<1>1. /\ o.entity # 0 /\ o.event # 0 /\ s.roles[o.entity] = "entity" /\ s.roles[o.event] = "event"
      /\ Cardinality(Structural(s, o.event)) = 1
      /\ \E i \in Structural(s, o.event) : ParentOf(s, i) = o.entity
  BY DEF Candidate
<1>2. o \in [tables : SUBSET TablesOf(s), entity : TablesOf(s) \cup {0}, event : TablesOf(s) \cup {0}, compatible : BOOLEAN]
  <2> DEFINE Occurrences == [tables : SUBSET TablesOf(s), entity : TablesOf(s) \cup {0}, event : TablesOf(s) \cup {0},
                              compatible : BOOLEAN]
  <2>1. s.occurrences \in Seq(Occurrences)
    BY DEF BlueprintAccepted
  <2> HIDE DEF Occurrences
  <2>2. s.occurrences[k] \in Occurrences
    BY <2>1
  <2> QED BY <2>2 DEF Occurrences
<1>3. EventKey(s, o) \in Structural(s, o.event) /\ ParentOf(s, EventKey(s, o)) = o.entity
  BY <1>1 DEF EventKey
<1>4. PICK x : Structural(s, o.event) = {x}
  BY <1>1, SchemaBasics, FS_Singleton
<1>5. Structural(s, o.event) = {EventKey(s, o)}
  BY <1>3, <1>4
<1>6. EventKey(s, o) \in KeysOf(s) /\ ChildOf(s, EventKey(s, o)) = o.event
  BY <1>3 DEF Structural, Incoming
<1> QED BY <1>1, <1>2, <1>3, <1>5, <1>6

(* A bundle about an entity and its event.                                 *)
LEMMA TreeBundleFacts ==
  ASSUME NEW s, NEW o, NEW choice, NEW r
  PROVE  /\ TreeBundle(s, o, choice).family = choice.family /\ TemporalBundle(s, r, o, choice).family = choice.family
         /\ TreeBundle(s, o, choice).entity = o.entity /\ TemporalBundle(s, r, o, choice).entity = o.entity
         /\ TreeBundle(s, o, choice).event = o.event /\ TemporalBundle(s, r, o, choice).event = o.event
         /\ TreeBundle(s, o, choice).keys = {EventKey(s, o)} /\ TemporalBundle(s, r, o, choice).keys = {EventKey(s, o)}
         /\ TreeBundle(s, o, choice).tables = {o.entity, o.event} /\ TemporalBundle(s, r, o, choice).tables = {o.entity, o.event}
         /\ TreeBundle(s, o, choice).populations = {} /\ TemporalBundle(s, r, o, choice).populations = {}
         /\ TreeBundle(s, o, choice).columns = {} /\ TemporalBundle(s, r, o, choice).columns = {}
         /\ TreeBundle(s, o, choice).components = choice.components
<1> DEFINE tree == TreeBundle(s, o, choice)
<1>1. tree = [family |-> choice.family, tables |-> {o.entity, o.event}, keys |-> {EventKey(s, o)},
              components |-> choice.components, columns |-> {}, populations |-> {}, entity |-> o.entity, event |-> o.event]
  <2> DEFINE base == Bundle(choice.family, {o.entity, o.event}, {EventKey(s, o)}, choice.components)
             entity == o.entity
             event == o.event
             family == choice.family
             components == choice.components
             key == EventKey(s, o)
  <2>1. tree = [base EXCEPT !.entity = entity, !.event = event]
    BY DEF TreeBundle
  <2>2. base = [family |-> family, tables |-> {entity, event}, keys |-> {key}, components |-> components, columns |-> {},
                populations |-> {}, entity |-> 0, event |-> 0]
    BY DEF Bundle
  <2> HIDE DEF base, tree, entity, event, family, components, key
  <2>3. tree = [family |-> family, tables |-> {entity, event}, keys |-> {key}, components |-> components, columns |-> {},
                populations |-> {}, entity |-> entity, event |-> event]
    BY <2>1, <2>2
  <2> QED BY <2>3 DEF entity, event, family, components, key
<1>2. TemporalBundle(s, r, o, choice) \in {tree, [tree EXCEPT !.components.process = "state_machine"]}
  BY DEF TemporalBundle
<1> HIDE DEF tree
<1> QED BY <1>1, <1>2 DEF tree

(* A population of a bundle that is not temporal.                          *)
Drafted(s, m) == m.source = "relational_scm" /\ m.table \in TablesOf(s) /\ m.parent \in TablesOf(s)

(* The bundles of an occurrence are about tables of the schema.            *)
LEMMA BundleFacts ==
  ASSUME NEW s, BlueprintAccepted(s), NEW r, NEW k \in DOMAIN s.occurrences, NEW choice,
         NEW b \in BundlesFor(s, r, s.occurrences[k], choice)
  PROVE  /\ b.family \in TemporalFamilies \cup {"relational_tree"} => Hung(s, b)
         /\ b.family \in TemporalFamilies => choice.family = b.family
         /\ \A m \in b.populations : Drafted(s, m)
<1> DEFINE o == s.occurrences[k]
<1>1. CASE b = LegacyBundle(o)
  <2>1. b.family = "legacy_role_scm" /\ b.populations = {}
    BY <1>1 DEF LegacyBundle, Bundle
  <2> QED BY <2>1 DEF TemporalFamilies
<1>2. CASE b \in RelationalScmBundles(s, o)
  <2>1. PICK columns : b = [Bundle("relational_scm", o.tables, {i \in KeysOf(s) : ChildOf(s, i) \in o.tables},
                                  DefaultComposition("relational_scm"))
                             EXCEPT !.columns = columns, !.populations = ScmPopulations(s, o)]
    BY <1>2 DEF RelationalScmBundles
  <2>2. b.family = "relational_scm" /\ b.populations = ScmPopulations(s, o)
    BY <2>1 DEF Bundle
  <2>3. \A m \in ScmPopulations(s, o) : Drafted(s, m)
    <3> DEFINE owners(t) == {i \in Structural(s, t) : ParentOf(s, i) \in o.tables}
               found(t) == [table |-> t, parent |-> ParentOf(s, InOrder(owners(t))[1]), source |-> "relational_scm", key |-> 0]
    <3>1. \A m \in ScmPopulations(s, o) : \E t \in o.tables : owners(t) # {} /\ m = found(t)
      BY DEF ScmPopulations
    <3>2. \A t : found(t).source = "relational_scm" /\ found(t).table = t /\ found(t).parent = ParentOf(s, InOrder(owners(t))[1])
      OBVIOUS
    <3>3. o.tables \subseteq TablesOf(s)
      <4> DEFINE table == TablesOf(s) \cup {0}
                 Occurrences == [tables : SUBSET TablesOf(s), entity : table, event : table, compatible : BOOLEAN]
      <4>1. s.occurrences \in Seq(Occurrences)
        BY DEF BlueprintAccepted
      <4>2. s.occurrences[k] \in Occurrences
        <5> HIDE DEF Occurrences
        <5> QED BY <4>1
      <4> QED BY <4>2
    <3>4. ASSUME NEW t \in o.tables, owners(t) # {} PROVE ParentOf(s, InOrder(owners(t))[1]) \in TablesOf(s)
      <4>1. Structural(s, t) \in SUBSET Nat /\ IsFiniteSet(Structural(s, t)) /\ Structural(s, t) \subseteq KeysOf(s)
        BY SchemaBasics DEF Structural, Incoming
      <4>2. owners(t) \in SUBSET Nat /\ IsFiniteSet(owners(t)) /\ owners(t) \subseteq KeysOf(s)
        <5>1. owners(t) \subseteq Structural(s, t)
          OBVIOUS
        <5> HIDE DEF owners
        <5> QED BY <4>1, <5>1, FS_Subset
      <4> HIDE DEF owners
      <4>3. Cardinality(owners(t)) \in Nat /\ Cardinality(owners(t)) # 0
        BY <3>4, <4>2, FS_CardinalityType, FS_EmptySet
      <4>4. InOrder(owners(t))[1] \in owners(t)
        BY <4>2, <4>3, InOrderFacts
      <4> QED BY <4>2, <4>4, SchemaBasics
    <3> HIDE DEF found, owners, o
    <3> QED BY <3>1, <3>2, <3>3, <3>4, Zenon DEF Drafted
  <2> QED BY <2>2, <2>3 DEF TemporalFamilies
<1>3. CASE choice.family \in TemporalFamilies \cup {"relational_tree"} /\ Candidate(s, o)
             /\ b \in {TreeBundle(s, o, choice), TemporalBundle(s, r, o, choice)}
  <2>1. /\ o.entity \in TablesOf(s) /\ o.event \in TablesOf(s) /\ s.roles[o.entity] = "entity" /\ s.roles[o.event] = "event"
        /\ Structural(s, o.event) = {EventKey(s, o)} /\ EventKey(s, o) \in KeysOf(s)
        /\ ParentOf(s, EventKey(s, o)) = o.entity /\ ChildOf(s, EventKey(s, o)) = o.event
    BY <1>3, CandidateFacts
  <2>2. b.family = choice.family /\ b.entity = o.entity /\ b.event = o.event /\ b.keys = {EventKey(s, o)} /\ b.populations = {}
    <3> DEFINE x == TreeBundle(s, o, choice)
               y == TemporalBundle(s, r, o, choice)
               key == EventKey(s, o)
    <3>1. b = x \/ b = y
      BY <1>3
    <3>2. /\ x.family = choice.family /\ x.entity = o.entity /\ x.event = o.event /\ x.keys = {key} /\ x.populations = {}
          /\ y.family = choice.family /\ y.entity = o.entity /\ y.event = o.event /\ y.keys = {key} /\ y.populations = {}
      BY TreeBundleFacts
    <3> HIDE DEF x, y, o, key
    <3>3. b.family = choice.family /\ b.entity = o.entity /\ b.event = o.event /\ b.keys = {key} /\ b.populations = {}
      BY <3>1, <3>2
    <3> QED BY <3>3 DEF key
  <2> HIDE DEF o
  <2>3. Hung(s, b)
    BY <2>1, <2>2 DEF Hung
  <2> QED BY <2>2, <2>3
<1>4. b = LegacyBundle(o) \/ b \in RelationalScmBundles(s, o)
        \/ (choice.family \in TemporalFamilies \cup {"relational_tree"} /\ Candidate(s, o)
             /\ b \in {TreeBundle(s, o, choice), TemporalBundle(s, r, o, choice)})
  <2> HIDE DEF o
  <2> QED BY DEF BundlesFor, o
<1> QED BY <1>1, <1>2, <1>3, <1>4

(* What every prior plan has, and a run without one.                       *)
PriorShaped(s, pr) ==
  /\ DOMAIN pr.bundles = 1..Len(pr.bundles) /\ Len(pr.bundles) \in Nat
  /\ \A k \in DOMAIN pr.bundles :
       LET b == pr.bundles[k]
       IN /\ b.family \in TemporalFamilies \cup {"relational_tree"} => Hung(s, b)
          /\ b.family \in TemporalFamilies => pr.family = b.family
          /\ \A m \in b.populations : Drafted(s, m)
  /\ pr.states = Owners(pr.bundles) /\ pr.trajectories \in {{}, pr.states}

(* So are those of a prior.                                                *)
LEMMA PriorFacts ==
  ASSUME NEW s, BlueprintAccepted(s), NEW r, NEW pr \in PriorPlans(s, r) \cup {NoPrior}
  PROVE  PriorShaped(s, pr)
<1>1. CASE pr = NoPrior
  <2>1. DOMAIN << >> = {} /\ Len(<< >>) = 0 /\ 1..0 = {} /\ Range(<< >>) = {}
    BY EmptyFunction DEF Range
  <2>2. pr.bundles = << >> /\ pr.states = {} /\ pr.trajectories = {}
    BY <1>1 DEF NoPrior
  <2>3. Owners(<< >>) = {}
    BY <2>1 DEF Owners
  <2> QED BY <2>1, <2>2, <2>3 DEF PriorShaped
<1>2. CASE pr \in PriorPlans(s, r)
  <2>1. PICK choice, bundles :
          /\ bundles \in EachOf([k \in DOMAIN s.occurrences |-> BundlesFor(s, r, s.occurrences[k], choice)])
          /\ pr = [family |-> choice.family, components |-> choice.components, bundles |-> bundles,
                      states |-> Owners(bundles), trajectories |-> Trajectories(r, bundles)]
    BY <1>2 DEF PriorPlans
  <2>2. /\ pr.family = choice.family /\ pr.bundles = bundles
        /\ pr.states = Owners(bundles) /\ pr.trajectories = Trajectories(r, bundles)
    BY <2>1
  <2>3. DOMAIN bundles = DOMAIN s.occurrences /\ \A k \in DOMAIN bundles : bundles[k] \in BundlesFor(s, r, s.occurrences[k], choice)
    BY <2>1, EachOfFacts
  <2>4. DOMAIN s.occurrences = 1..Len(s.occurrences) /\ Len(s.occurrences) \in Nat
    BY DEF BlueprintAccepted
  <2>5. DOMAIN bundles = 1..Len(bundles) /\ Len(bundles) \in Nat
    BY <2>1, <2>3, <2>4, FunctionIsSeq DEF EachOf
  <2>6. \A k \in DOMAIN bundles :
          /\ bundles[k].family \in TemporalFamilies \cup {"relational_tree"} => Hung(s, bundles[k])
          /\ bundles[k].family \in TemporalFamilies => choice.family = bundles[k].family
          /\ \A m \in bundles[k].populations : Drafted(s, m)
    BY <2>3, BundleFacts
  <2> QED BY <2>2, <2>5, <2>6 DEF PriorShaped, Trajectories
<1> QED BY <1>1, <1>2

-----------------------------------------------------------------------------
(* Sums, products and what is replanned, step by step.                     *)

(* The sums of the first numbers, one after the other.                     *)
Sums(steps, counts, n) ==
  /\ steps \in [0..n -> Range(steps)] /\ steps[0] = 0
  /\ \A k \in 1..n : steps[k] = steps[k - 1] + counts[k]

(* The partial sums of counts satisfy the recursion.                       *)
LEMMA RunningSteps ==
  ASSUME NEW counts, NEW n \in Nat, Len(counts) = n
  PROVE  \E steps : Running(counts) = steps /\ Sums(steps, counts, n)
<1> DEFINE Start == 0
           Following(k, before) == before + counts[k]
           Solves(f, m) == f = [k \in 0..m |-> IF k = 0 THEN Start ELSE Following(k, f[k - 1])]
           steps == CHOOSE f : Solves(f, n)
<1>1. Running(counts) = steps
  BY DEF Running
<1> HIDE DEF Start, Following
<1>2. \A m \in Nat : \E f : Solves(f, m)
  <2> DEFINE Bad == {m \in Nat : ~\E f : Solves(f, m)}
  <2> SUFFICES ASSUME Bad # {} PROVE FALSE
    OBVIOUS
  <2>1. PICK m \in Bad : \A k \in Bad : m <= k
    <3>1. Bad \in SUBSET Nat
      OBVIOUS
    <3> HIDE DEF Bad
    <3> QED BY <3>1, LeastNatural
  <2>2. m # 0
    <3>1. Solves([k \in 0..0 |-> Start], 0)
      OBVIOUS
    <3> QED BY <2>1, <3>1
  <2>3. \E f : Solves(f, m - 1)
    <3>1. m - 1 \in Nat /\ ~(m <= m - 1)
      BY <2>1, <2>2
    <3> HIDE DEF Solves
    <3> QED BY <2>1, <3>1
  <2>4. PICK f : Solves(f, m - 1)
    BY <2>3
  <2> DEFINE g == [k \in 0..m |-> IF k < m THEN f[k] ELSE Following(m, f[m - 1])]
  <2>5. Solves(g, m)
    <3>1. \A k \in 0..(m - 1) : g[k] = f[k]
      BY <2>1, <2>2
    <3>2. \A k \in 0..m : g[k] = IF k = 0 THEN Start ELSE Following(k, g[k - 1])
      BY <2>1, <2>2, <2>4, <3>1
    <3> QED BY <3>2
  <2> HIDE DEF g, Solves
  <2> QED BY <2>1, <2>5
<1>3. Solves(steps, n)
  <2> HIDE DEF Solves
  <2> QED BY <1>2
<1> HIDE DEF steps
<1>4. steps[0] = Start /\ \A k \in 1..n : steps[k] = Following(k, steps[k - 1])
  BY <1>3
<1>5. steps \in [0..n -> Range(steps)]
  <2> DEFINE value == [k \in 0..n |-> IF k = 0 THEN Start ELSE Following(k, steps[k - 1])]
  <2>1. steps = value
    BY <1>3
  <2>2. value \in [DOMAIN value -> {value[x] : x \in DOMAIN value}] /\ DOMAIN value = 0..n
    OBVIOUS
  <2> HIDE DEF value
  <2> QED BY <2>1, <2>2 DEF Range
<1> QED BY <1>1, <1>4, <1>5 DEF Start, Following, Sums

(* The partial sums are numbers, the last is the total.                    *)
LEMMA RunningFacts ==
  ASSUME NEW n \in Nat, NEW counts \in [1..n -> Nat]
  PROVE  /\ Running(counts) \in [0..n -> Nat] /\ Running(counts)[0] = 0
         /\ \A k \in 1..n : Running(counts)[k] = Running(counts)[k - 1] + counts[k]
         /\ Len(counts) = n /\ Total(counts) = Running(counts)[n] /\ Total(counts) \in Nat
<1>1. Len(counts) = n
  BY FunctionIsSeq
<1>2. PICK sums : Running(counts) = sums /\ Sums(sums, counts, n)
  BY <1>1, RunningSteps
<1>3. /\ sums \in [0..n -> Range(sums)] /\ sums[0] = 0
      /\ \A k \in 1..n : sums[k] = sums[k - 1] + counts[k]
  BY <1>2 DEF Sums
<1>4. \A k \in 0..n : sums[k] \in Nat
  <2> DEFINE Bad == {k \in 0..n : sums[k] \notin Nat}
  <2> SUFFICES ASSUME Bad # {} PROVE FALSE
    OBVIOUS
  <2>1. PICK k \in Bad : \A j \in Bad : k <= j
    <3>1. Bad \in SUBSET Nat
      OBVIOUS
    <3> HIDE DEF Bad
    <3> QED BY <3>1, LeastNatural
  <2>2. k # 0
    BY <1>3, <2>1
  <2>3. k \in 1..n /\ k - 1 \in 0..n /\ ~(k <= k - 1)
    BY <2>1, <2>2
  <2>4. sums[k - 1] \in Nat
    BY <2>1, <2>3
  <2>5. sums[k] \in Nat
    BY <1>3, <2>3, <2>4
  <2> QED BY <2>1, <2>5
<1> QED BY <1>1, <1>2, <1>3, <1>4 DEF Total

(* The products of the first numbers, one after the other.                 *)
Products(steps, counts, n) ==
  /\ steps \in [0..n -> Range(steps)] /\ steps[0] = 1
  /\ \A k \in 1..n : steps[k] = steps[k - 1] * counts[k]

(* The partial products satisfy the recursion.                             *)
LEMMA ProductSteps ==
  ASSUME NEW counts, NEW n \in Nat, Len(counts) = n
  PROVE  \E steps : Product(counts) = steps[n] /\ Products(steps, counts, n)
<1> DEFINE Start == 1
           Following(k, before) == before * counts[k]
           Solves(f, m) == f = [k \in 0..m |-> IF k = 0 THEN Start ELSE Following(k, f[k - 1])]
           steps == CHOOSE f : Solves(f, n)
<1>1. Product(counts) = steps[n]
  BY DEF Product
<1> HIDE DEF Start, Following
<1>2. \A m \in Nat : \E f : Solves(f, m)
  <2> DEFINE Bad == {m \in Nat : ~\E f : Solves(f, m)}
  <2> SUFFICES ASSUME Bad # {} PROVE FALSE
    OBVIOUS
  <2>1. PICK m \in Bad : \A k \in Bad : m <= k
    <3>1. Bad \in SUBSET Nat
      OBVIOUS
    <3> HIDE DEF Bad
    <3> QED BY <3>1, LeastNatural
  <2>2. m # 0
    <3>1. Solves([k \in 0..0 |-> Start], 0)
      OBVIOUS
    <3> QED BY <2>1, <3>1
  <2>3. \E f : Solves(f, m - 1)
    <3>1. m - 1 \in Nat /\ ~(m <= m - 1)
      BY <2>1, <2>2
    <3> HIDE DEF Solves
    <3> QED BY <2>1, <3>1
  <2>4. PICK f : Solves(f, m - 1)
    BY <2>3
  <2> DEFINE g == [k \in 0..m |-> IF k < m THEN f[k] ELSE Following(m, f[m - 1])]
  <2>5. Solves(g, m)
    <3>1. \A k \in 0..(m - 1) : g[k] = f[k]
      BY <2>1, <2>2
    <3>2. \A k \in 0..m : g[k] = IF k = 0 THEN Start ELSE Following(k, g[k - 1])
      BY <2>1, <2>2, <2>4, <3>1
    <3> QED BY <3>2
  <2> HIDE DEF g, Solves
  <2> QED BY <2>1, <2>5
<1>3. Solves(steps, n)
  <2> HIDE DEF Solves
  <2> QED BY <1>2
<1> HIDE DEF steps
<1>4. steps[0] = Start /\ \A k \in 1..n : steps[k] = Following(k, steps[k - 1])
  BY <1>3
<1>5. steps \in [0..n -> Range(steps)]
  <2> DEFINE value == [k \in 0..n |-> IF k = 0 THEN Start ELSE Following(k, steps[k - 1])]
  <2>1. steps = value
    BY <1>3
  <2>2. value \in [DOMAIN value -> {value[x] : x \in DOMAIN value}] /\ DOMAIN value = 0..n
    OBVIOUS
  <2> HIDE DEF value
  <2> QED BY <2>1, <2>2 DEF Range
<1> QED BY <1>1, <1>4, <1>5 DEF Start, Following, Products

(* A product of numbers is a number.                                       *)
LEMMA ProductNat ==
  ASSUME NEW n \in Nat, NEW counts \in [1..n -> Nat]
  PROVE  Product(counts) \in Nat
<1>1. Len(counts) = n
  BY FunctionIsSeq
<1>2. PICK steps : Product(counts) = steps[n] /\ Products(steps, counts, n)
  BY <1>1, ProductSteps
<1>3. steps[0] = 1 /\ \A k \in 1..n : steps[k] = steps[k - 1] * counts[k]
  BY <1>2 DEF Products
<1>4. \A k \in 0..n : steps[k] \in Nat
  <2> DEFINE Bad == {k \in 0..n : steps[k] \notin Nat}
  <2> SUFFICES ASSUME Bad # {} PROVE FALSE
    OBVIOUS
  <2>1. PICK k \in Bad : \A j \in Bad : k <= j
    <3>1. Bad \in SUBSET Nat
      OBVIOUS
    <3> HIDE DEF Bad
    <3> QED BY <3>1, LeastNatural
  <2>2. k # 0
    BY <1>3, <2>1
  <2>3. k \in 1..n /\ k - 1 \in 0..n /\ ~(k <= k - 1)
    BY <2>1, <2>2
  <2>4. steps[k - 1] \in Nat /\ counts[k] \in Nat
    BY <2>1, <2>3
  <2>5. steps[k - 1] * counts[k] \in Nat
    BY <2>4
  <2>6. steps[k] \in Nat
    BY <1>3, <2>3, <2>5
  <2> QED BY <2>1, <2>6
<1> QED BY <1>2, <1>4

-----------------------------------------------------------------------------
(* Tables whose rows are derived from those of others.                     *)

Derived(s) == {t \in TablesOf(s) : s.roles[t] \notin {"entity", "lookup"}}

(* What is replanned is derived, and has rows.                             *)
LEMMA ReplanTableFacts ==
  ASSUME NEW s, BlueprintAccepted(s), NEW p, p.factor \in [TablesOf(s) -> Nat], NEW t \in TablesOf(s),
         NEW c, c.rows \in [TablesOf(s) -> Nat \ {0}], c.changed \subseteq Derived(s),
         NEW d, d = ReplanTable(s, p, c, t)
  PROVE  /\ d.rows \in [TablesOf(s) -> Nat \ {0}] /\ d.changed \subseteq Derived(s) /\ c.changed \subseteq d.changed
         /\ \A u \in TablesOf(s) : u \in c.changed \/ u \notin Derived(s) => d.rows[u] = c.rows[u]
<1> DEFINE under == {i \in Structural(s, t) : ParentOf(s, i) \in c.changed}
           keys == InOrder(under)
           n == Cardinality(under)
           counts == [k \in DOMAIN keys |-> c.rows[ParentOf(s, keys[k])]]
           target == IF s.roles[t] = "bridge" /\ Len(counts) > 1
                     THEN RoundHalfRoot(p.factor[t] * p.factor[t] * Product(counts))
                     ELSE RoundHalves(p.factor[t] * Maximum(ToSet(counts)))
           new == AtLeast(target, 1)
<1>1. d = IF t \in c.changed \/ keys = << >> THEN c
          ELSE [rows |-> [c.rows EXCEPT ![t] = new], changed |-> c.changed \cup {t}]
  BY DEF ReplanTable
<1>2. CASE t \in c.changed \/ keys = << >>
  BY <1>1, <1>2
<1>3. CASE ~(t \in c.changed \/ keys = << >>)
  <2>1. under \in SUBSET Nat /\ IsFiniteSet(under)
    <3>1. Structural(s, t) \in SUBSET Nat /\ IsFiniteSet(Structural(s, t)) /\ under \in SUBSET Structural(s, t)
      BY SchemaBasics
    <3> HIDE DEF under
    <3> QED BY <3>1, FS_Subset
  <2>2. n \in Nat /\ keys \in [1..n -> under]
    <3> HIDE DEF under
    <3> QED BY <2>1, InOrderFacts
  <2>3. n # 0
    <3>1. n = 0 => keys \in [1..0 -> under] /\ 1..0 = {}
      BY <2>2
    <3> HIDE DEF keys, under
    <3>2. n = 0 => keys = << >>
      BY <3>1
    <3> QED BY <1>3, <3>2
  <2>4. \A i \in under : ParentOf(s, i) \in TablesOf(s) /\ ParentOf(s, i) \in Derived(s) /\ i \in KeysOf(s) /\ ChildOf(s, i) = t
    BY SchemaBasics DEF Structural, Incoming
  <2>5. t \in Derived(s)
    <3>1. PICK i \in under : TRUE
      <4>1. keys[1] \in under
        <5> HIDE DEF under, keys, n
        <5> QED BY <2>2, <2>3
      <4> QED BY <4>1
    <3>2. EdgeRoles(s, i) \in AllowedEdges /\ s.roles[ParentOf(s, i)] \notin {"entity", "lookup"}
      BY <2>4 DEF BlueprintAccepted, Derived
    <3>3. <<s.roles[ParentOf(s, i)], s.roles[t]>> \in AllowedEdges
      BY <2>4, <3>2 DEF EdgeRoles
    <3>4. s.roles[t] \notin {"entity", "lookup"}
      BY <3>2, <3>3 DEF AllowedEdges, AuxiliaryEdges, StructuralEdges
    <3> QED BY <3>4 DEF Derived
  <2>6. counts \in [1..n -> Nat]
    <3> HIDE DEF under
    <3> QED BY <2>2, <2>4
  <2> HIDE DEF under, keys, counts, n
  <2>7. target \in Nat
    <3>1. Product(counts) \in Nat
      BY <2>2, <2>6, ProductNat
    <3>2. Maximum(ToSet(counts)) \in Nat
      BY <2>2, <2>3, <2>6, CountsMaximum
    <3>3. p.factor[t] \in Nat
      OBVIOUS
    <3>4. p.factor[t] * p.factor[t] \in Nat
      BY <3>3
    <3>5. p.factor[t] * p.factor[t] * Product(counts) \in Nat /\ p.factor[t] * Maximum(ToSet(counts)) \in Nat
      BY <3>1, <3>2, <3>3, <3>4
    <3>6. RoundHalfRoot(p.factor[t] * p.factor[t] * Product(counts)) \in Nat /\ RoundHalves(p.factor[t] * Maximum(ToSet(counts))) \in Nat
      BY <3>5, RoundHalfRootNat, RoundHalvesNat
    <3> QED BY <3>6
  <2> HIDE DEF target
  <2>8. new \in Nat \ {0}
    BY <2>7 DEF AtLeast
  <2> HIDE DEF new
  <2>9. d.rows = [c.rows EXCEPT ![t] = new] /\ d.changed = c.changed \cup {t}
    BY <1>1, <1>3 DEF keys
  <2> QED BY <1>3, <2>5, <2>8, <2>9
<1> QED BY <1>2, <1>3

(* The tables are replanned one after the other.                           *)
Replannings(steps, s, p, changed, n) ==
  /\ steps \in [0..n -> Range(steps)] /\ steps[0] = [rows |-> p.rows, changed |-> changed]
  /\ \A k \in 1..n : steps[k] = ReplanTable(s, p, steps[k - 1], p.order[k])

(* Replanning goes table by table.                                         *)
LEMMA ReplanSteps ==
  ASSUME NEW s, NEW p, NEW changed, NEW n \in Nat, Len(p.order) = n
  PROVE  \E steps : Replanned(s, p, changed) = steps[n].rows /\ Replannings(steps, s, p, changed, n)
<1> DEFINE Start == [rows |-> p.rows, changed |-> changed]
           Following(k, before) == ReplanTable(s, p, before, p.order[k])
           Solves(f, m) == f = [k \in 0..m |-> IF k = 0 THEN Start ELSE Following(k, f[k - 1])]
           steps == CHOOSE f : Solves(f, n)
<1>1. Replanned(s, p, changed) = steps[n].rows
  BY DEF Replanned
<1> HIDE DEF Start, Following
<1>2. \A m \in Nat : \E f : Solves(f, m)
  <2> DEFINE Bad == {m \in Nat : ~\E f : Solves(f, m)}
  <2> SUFFICES ASSUME Bad # {} PROVE FALSE
    OBVIOUS
  <2>1. PICK m \in Bad : \A k \in Bad : m <= k
    <3>1. Bad \in SUBSET Nat
      OBVIOUS
    <3> HIDE DEF Bad
    <3> QED BY <3>1, LeastNatural
  <2>2. m # 0
    <3>1. Solves([k \in 0..0 |-> Start], 0)
      OBVIOUS
    <3> QED BY <2>1, <3>1
  <2>3. \E f : Solves(f, m - 1)
    <3>1. m - 1 \in Nat /\ ~(m <= m - 1)
      BY <2>1, <2>2
    <3> HIDE DEF Solves
    <3> QED BY <2>1, <3>1
  <2>4. PICK f : Solves(f, m - 1)
    BY <2>3
  <2> DEFINE g == [k \in 0..m |-> IF k < m THEN f[k] ELSE Following(m, f[m - 1])]
  <2>5. Solves(g, m)
    <3>1. \A k \in 0..(m - 1) : g[k] = f[k]
      BY <2>1, <2>2
    <3>2. \A k \in 0..m : g[k] = IF k = 0 THEN Start ELSE Following(k, g[k - 1])
      BY <2>1, <2>2, <2>4, <3>1
    <3> QED BY <3>2
  <2> HIDE DEF g, Solves
  <2> QED BY <2>1, <2>5
<1>3. Solves(steps, n)
  <2> HIDE DEF Solves
  <2> QED BY <1>2
<1> HIDE DEF steps
<1>4. steps[0] = Start /\ \A k \in 1..n : steps[k] = Following(k, steps[k - 1])
  BY <1>3
<1>5. steps \in [0..n -> Range(steps)]
  <2> DEFINE value == [k \in 0..n |-> IF k = 0 THEN Start ELSE Following(k, steps[k - 1])]
  <2>1. steps = value
    BY <1>3
  <2>2. value \in [DOMAIN value -> {value[x] : x \in DOMAIN value}] /\ DOMAIN value = 0..n
    OBVIOUS
  <2> HIDE DEF value
  <2> QED BY <2>1, <2>2 DEF Range
<1> QED BY <1>1, <1>4, <1>5 DEF Start, Following, Replannings

(* Every table has rows after that, the changed and underived ones as many *)
(* as before.                                                              *)
LEMMA ReplannedFacts ==
  ASSUME NEW s, BlueprintAccepted(s), NEW p, p.order = GenerationOrder(s), p.factor \in [TablesOf(s) -> Nat],
         p.rows \in [TablesOf(s) -> Nat \ {0}], NEW changed \in SUBSET Derived(s)
  PROVE  /\ Replanned(s, p, changed) \in [TablesOf(s) -> Nat \ {0}]
         /\ \A u \in TablesOf(s) : u \in changed \/ u \notin Derived(s) => Replanned(s, p, changed)[u] = p.rows[u]
<1> DEFINE n == Cardinality(TablesOf(s))
           Fits(c) == /\ c.rows \in [TablesOf(s) -> Nat \ {0}] /\ c.changed \subseteq Derived(s) /\ changed \subseteq c.changed
                      /\ \A u \in TablesOf(s) : u \in changed \/ u \notin Derived(s) => c.rows[u] = p.rows[u]
<1>1. n \in Nat /\ p.order \in [1..n -> TablesOf(s)]
  BY GenerationFacts
<1> HIDE DEF n
<1>2. Len(p.order) = n
  BY <1>1, FunctionIsSeq
<1>3. PICK steps : Replanned(s, p, changed) = steps[n].rows /\ Replannings(steps, s, p, changed, n)
  BY <1>1, <1>2, ReplanSteps
<1>6. /\ steps[0] = [rows |-> p.rows, changed |-> changed]
      /\ \A k \in 1..n : steps[k] = ReplanTable(s, p, steps[k - 1], p.order[k])
  BY <1>3 DEF Replannings
<1>4. \A k \in 0..n : Fits(steps[k])
  <2> DEFINE Bad == {k \in 0..n : ~Fits(steps[k])}
  <2> SUFFICES ASSUME Bad # {} PROVE FALSE
    OBVIOUS
  <2>1. PICK k \in Bad : \A j \in Bad : k <= j
    <3>1. Bad \in SUBSET Nat
      BY <1>1
    <3> HIDE DEF Bad
    <3> QED BY <3>1, LeastNatural
  <2>2. k # 0
    <3>1. Fits(steps[0])
      BY <1>6
    <3> HIDE DEF Fits
    <3> QED BY <2>1, <3>1
  <2>3. k \in 1..n /\ k - 1 \in 0..n /\ ~(k <= k - 1)
    <3>1. k \in 0..n
      BY <2>1
    <3> HIDE DEF Bad, Fits
    <3> QED BY <1>1, <2>2, <3>1
  <2>4. Fits(steps[k - 1])
    <3> HIDE DEF Fits
    <3> QED BY <2>1, <2>3
  <2> DEFINE c == steps[k - 1]
             t == p.order[k]
  <2>5. t \in TablesOf(s) /\ steps[k] = ReplanTable(s, p, c, t)
    BY <1>1, <1>6, <2>3
  <2> HIDE DEF c, t
  <2>6. Fits(c)
    BY <2>4 DEF c
  <2>7. /\ steps[k].rows \in [TablesOf(s) -> Nat \ {0}] /\ steps[k].changed \subseteq Derived(s) /\ c.changed \subseteq steps[k].changed
        /\ \A u \in TablesOf(s) : u \in c.changed \/ u \notin Derived(s) => steps[k].rows[u] = c.rows[u]
    BY <2>5, <2>6, ReplanTableFacts
  <2>8. Fits(steps[k])
    BY <2>6, <2>7
  <2> HIDE DEF Fits
  <2> QED BY <2>1, <2>8
<1>5. Fits(steps[n])
  <2> HIDE DEF Fits
  <2> QED BY <1>1, <1>4
<1> QED BY <1>3, <1>5

-----------------------------------------------------------------------------
(* Plans.                                                                  *)

PlanFields ==
  {"order", "rows", "factor", "temporal", "groups", "family", "rate", "columns", "populations", "counts", "states", "trajectories"}

(* What every plan of a schema has, bound, drafted or final.               *)
Planned(s, p) ==
  /\ DOMAIN p = PlanFields
  /\ p.order = GenerationOrder(s) /\ p.groups = RelationGroups(s)
  /\ p.temporal = [t \in TablesOf(s) |-> TemporalFamily(s, t)]
  /\ p.rate \in [KeysOf(s) -> {0, 1}] /\ \A i \in KeysOf(s) : ~Optional(s, i) => p.rate[i] = 0
  /\ p.rows \in [TablesOf(s) -> Nat \ {0}] /\ p.factor \in [TablesOf(s) -> Nat]

(* A plan before it is bound.                                              *)
LEMMA InstancePlanFacts ==
  ASSUME NEW s, BlueprintAccepted(s), NEW p \in InstancePlans(s)
  PROVE  Planned(s, p) /\ p.columns = {} /\ p.populations = {} /\ p.counts = << >>
<1>1. PICK q \in RowPlans(s), rate \in {r \in [KeysOf(s) -> {0, 1}] : \A i \in KeysOf(s) : r[i] \in RatesOf(s, i)} :
        p = [order |-> GenerationOrder(s), rows |-> q.rows, factor |-> q.factor,
             temporal |-> [t \in TablesOf(s) |-> TemporalFamily(s, t)],
             groups |-> RelationGroups(s),
             family |-> [group \in RelationGroups(s) |-> CHOOSE f \in GroupFamilies(s, group) : TRUE],
             rate |-> rate,
             columns |-> {}, populations |-> {}, counts |-> << >>, states |-> {}, trajectories |-> {}]
  BY DEF InstancePlans
<1>2. DOMAIN p = PlanFields
  BY <1>1 DEF PlanFields
<1>3. /\ p.order = GenerationOrder(s) /\ p.rows = q.rows /\ p.factor = q.factor
      /\ p.temporal = [t \in TablesOf(s) |-> TemporalFamily(s, t)] /\ p.groups = RelationGroups(s) /\ p.rate = rate
      /\ p.columns = {} /\ p.populations = {} /\ p.counts = << >>
  BY <1>1
<1>4. q.rows \in [TablesOf(s) -> Nat \ {0}] /\ q.factor \in [TablesOf(s) -> Nat]
  BY RowPlansPositive
<1>5. rate \in [KeysOf(s) -> {0, 1}] /\ \A i \in KeysOf(s) : ~Optional(s, i) => rate[i] = 0
  BY DEF RatesOf
<1> QED BY <1>2, <1>3, <1>4, <1>5 DEF Planned

(* Fields that are set, and those that stay.                               *)
WithRowsSet(p, rows, counts) == [p EXCEPT !.rows = rows, !.counts = counts]

(* A plan with other rows and counts.                                      *)
LEMMA RowsSet ==
  ASSUME NEW s, NEW p, Planned(s, p), NEW rows \in [TablesOf(s) -> Nat \ {0}], NEW counts,
         NEW q, q = WithRowsSet(p, rows, counts)
  PROVE  /\ Planned(s, q) /\ q.rows = rows /\ q.counts = counts /\ q.populations = p.populations
         /\ q.states = p.states /\ q.trajectories = p.trajectories /\ q.columns = p.columns
BY DEF Planned, PlanFields, WithRowsSet

WithColumns(p, columns) == [p EXCEPT !.columns = columns]

(* A plan with other mechanisms.                                           *)
LEMMA ColumnsSet ==
  ASSUME NEW s, NEW p, Planned(s, p), NEW columns,
         NEW q, q = WithColumns(p, columns)
  PROVE  /\ Planned(s, q) /\ q.rows = p.rows /\ q.counts = p.counts /\ q.populations = p.populations
         /\ q.states = p.states /\ q.trajectories = p.trajectories /\ q.columns = columns
BY DEF Planned, PlanFields, WithColumns

WithOwners(p, states, trajectories) == [p EXCEPT !.states = states, !.trajectories = trajectories]

(* A plan with other states.                                               *)
LEMMA OwnersSet ==
  ASSUME NEW s, NEW p, Planned(s, p), NEW states, NEW trajectories,
         NEW q, q = WithOwners(p, states, trajectories)
  PROVE  /\ Planned(s, q) /\ q.rows = p.rows /\ q.counts = p.counts /\ q.populations = p.populations
         /\ q.states = states /\ q.trajectories = trajectories /\ q.columns = p.columns
BY DEF Planned, PlanFields, WithOwners

WithMechanisms(p, columns, populations, family) == [p EXCEPT !.columns = columns, !.populations = populations, !.family = family]

(* A plan bound to mechanisms of several kinds.                            *)
LEMMA MechanismsSet ==
  ASSUME NEW s, NEW p, Planned(s, p), NEW columns, NEW populations, NEW family,
         NEW q, q = WithMechanisms(p, columns, populations, family)
  PROVE  /\ Planned(s, q) /\ q.rows = p.rows /\ q.counts = p.counts /\ q.populations = populations
         /\ q.states = p.states /\ q.trajectories = p.trajectories /\ q.columns = columns
BY DEF Planned, PlanFields, WithMechanisms

WithFamilies(p, columns, family) == [p EXCEPT !.columns = columns, !.family = family]

(* A plan with other relation families.                                    *)
LEMMA FamiliesSet ==
  ASSUME NEW s, NEW p, Planned(s, p), NEW columns, NEW family,
         NEW q, q = WithFamilies(p, columns, family)
  PROVE  /\ Planned(s, q) /\ q.rows = p.rows /\ q.counts = p.counts /\ q.populations = p.populations
         /\ q.states = p.states /\ q.trajectories = p.trajectories /\ q.columns = columns
BY DEF Planned, PlanFields, WithFamilies

WithPopulation(p, t, total, populations, columns, family) == [p EXCEPT !.rows[t] = total, !.populations = populations, !.columns = columns, !.family = family]

(* A plan with a temporal population more.                                 *)
LEMMA PopulationSet ==
  ASSUME NEW s, NEW p, Planned(s, p), NEW t \in TablesOf(s), NEW total \in Nat \ {0}, NEW columns, NEW populations, NEW family,
         NEW q, q = WithPopulation(p, t, total, populations, columns, family)
  PROVE  /\ Planned(s, q) /\ q.counts = p.counts /\ q.populations = populations
         /\ q.states = p.states /\ q.trajectories = p.trajectories /\ q.columns = columns
BY DEF Planned, PlanFields, WithPopulation

-----------------------------------------------------------------------------
(* Binding.                                                                *)

(* The process of an event that hangs on one entity.                       *)
Mechanism(s, m) ==
  \E i \in KeysOf(s) :
    /\ m = [table |-> ChildOf(s, i), parent |-> ParentOf(s, i), source |-> "temporal_event", key |-> i]
    /\ Structural(s, ChildOf(s, i)) = {i}
    /\ ChildOf(s, i) \in TablesOf(s) /\ s.roles[ChildOf(s, i)] = "event"
    /\ ParentOf(s, i) \in TablesOf(s) /\ s.roles[ParentOf(s, i)] = "entity"

(* A column of such an event, generated from those of the entity.          *)
Generated(s, x) ==
  \E i \in KeysOf(s) :
    /\ Structural(s, ChildOf(s, i)) = {i} /\ ChildOf(s, i) \in TablesOf(s) /\ ParentOf(s, i) \in TablesOf(s)
    /\ s.roles[ChildOf(s, i)] = "event" /\ s.roles[ParentOf(s, i)] = "entity"
    /\ x.column \in Features(s, ChildOf(s, i)) /\ x = [column |-> x.column, parents |-> Features(s, ParentOf(s, i))]

(* A plan some bundles of a temporal prior are bound to.                   *)
PartlyBound(s, pr, p) ==
  /\ Planned(s, p) /\ p.counts = << >> /\ p.states = pr.states /\ p.trajectories = pr.trajectories
  /\ \A m \in p.populations : Mechanism(s, m) /\ m.parent \in pr.states
  /\ \A x \in p.columns : Generated(s, x)

BindingIssues == {"composition", "no events", "event limit"}

(* The mechanism of a bundle about an event that hangs on its entity.      *)
LEMMA HungFacts ==
  ASSUME NEW s, NEW b, Hung(s, b)
  PROVE  /\ Mechanism(s, TemporalMechanism(b)) /\ TemporalMechanism(b).parent = b.entity
         /\ \A c \in Features(s, b.event) : Generated(s, [column |-> c, parents |-> Features(s, b.entity)])
<1>1. PICK i \in KeysOf(s) : Structural(s, b.event) = {i} /\ b.keys = {i} /\ ParentOf(s, i) = b.entity /\ ChildOf(s, i) = b.event
  BY DEF Hung
<1>2. TemporalMechanism(b) = [table |-> ChildOf(s, i), parent |-> ParentOf(s, i), source |-> "temporal_event", key |-> i]
  BY <1>1 DEF TemporalMechanism
<1>3. ASSUME NEW c \in Features(s, b.event) PROVE Generated(s, [column |-> c, parents |-> Features(s, b.entity)])
  <2> DEFINE x == [column |-> c, parents |-> Features(s, b.entity)]
  <2>1. x.column = c /\ x = [column |-> x.column, parents |-> Features(s, ParentOf(s, i))]
    BY <1>1
  <2> HIDE DEF x
  <2>2. Generated(s, x)
    BY <1>1, <2>1 DEF Generated, Hung
  <2> QED BY <2>2 DEF x
<1> QED BY <1>1, <1>2, <1>3 DEF Mechanism, Hung

(* The total of the counts drawn for some owners.                          *)
LEMMA TotalNat == ASSUME NEW n \in Nat, NEW counts \in CountDraws(n) PROVE Total(counts) \in Nat
<1>1. MaxPerOwner \in Nat
  BY LimitsGiven
<1>2. counts \in [1..n -> Nat]
  BY <1>1 DEF CountDraws
<1> QED BY <1>2, RunningFacts

(* Binding one bundle keeps a plan bound, or refuses it.                   *)
LEMMA BindBundleFacts ==
  ASSUME NEW s, NEW r, NEW pr, NEW p, PartlyBound(s, pr, p), NEW b, Hung(s, b), b.entity \in pr.states,
         NEW o \in BindTemporalBundle(s, r, p, b)
  PROVE  o.issues \subseteq BindingIssues /\ (o.issues = {} => PartlyBound(s, pr, o.plan))
<1> DEFINE refusals(total) == CompositionIssues(r, b) \cup PopulationIssues(total, p.rows[b.event])
           columns == p.columns \cup {[column |-> c, parents |-> Features(s, b.entity)] : c \in Features(s, b.event)}
           populations == p.populations \cup {TemporalMechanism(b)}
           family == [g \in DOMAIN p.family |-> IF g = b.keys /\ b.components.relation = "scm" THEN "scm" ELSE p.family[g]]
           bound(total) == [p EXCEPT !.rows[b.event] = total, !.populations = populations, !.columns = columns, !.family = family]
<1>1. PICK counts \in CountDraws(p.rows[b.entity]) :
        o = IF refusals(Total(counts)) = {} THEN Fine(bound(Total(counts))) ELSE [issues |-> refusals(Total(counts)), plan |-> p]
  BY DEF BindTemporalBundle
<1> DEFINE total == Total(counts)
           event == b.event
           entity == b.entity
<1>2. event \in TablesOf(s) /\ entity \in TablesOf(s)
  BY DEF Hung
<1>3. total \in Nat
  <2>1. p.rows[b.entity] \in Nat
    BY <1>2 DEF PartlyBound, Planned
  <2> QED BY <2>1, TotalNat
<1>4. refusals(total) \subseteq BindingIssues
  BY DEF CompositionIssues, PopulationIssues, BindingIssues
<1>5. refusals(total) = {} => total \in Nat \ {0}
  <2> HIDE DEF total
  <2>1. refusals(total) = {} => PopulationIssues(total, p.rows[b.event]) = {}
    OBVIOUS
  <2>2. total < 1 => PopulationIssues(total, p.rows[b.event]) # {}
    BY DEF PopulationIssues
  <2> HIDE DEF refusals
  <2> QED BY <1>3, <2>1, <2>2
<1> HIDE DEF refusals, total, columns, populations, family
<1>6. CASE refusals(total) # {}
  <2>1. o = [issues |-> refusals(total), plan |-> p]
    BY <1>1, <1>6 DEF total
  <2> QED BY <1>4, <1>6, <2>1
<1>7. CASE refusals(total) = {}
  <2> DEFINE q == [p EXCEPT !.rows[event] = total, !.populations = populations, !.columns = columns, !.family = family]
  <2>1. o = Fine(bound(total))
    BY <1>1, <1>7 DEF total
  <2>2. o.issues = {} /\ o.plan = q
    BY <2>1 DEF Fine
  <2>3. Planned(s, p) /\ total \in Nat \ {0}
    BY <1>5, <1>7 DEF PartlyBound
  <2> HIDE DEF event
  <2>0. q = WithPopulation(p, event, total, populations, columns, family)
    BY DEF WithPopulation
  <2> HIDE DEF q
  <2>4. /\ Planned(s, q) /\ q.counts = p.counts /\ q.populations = populations
        /\ q.states = p.states /\ q.trajectories = p.trajectories /\ q.columns = columns
    BY <1>2, <2>0, <2>3, PopulationSet
  <2>5. \A m \in populations : Mechanism(s, m) /\ m.parent \in pr.states
    <3>1. Mechanism(s, TemporalMechanism(b)) /\ TemporalMechanism(b).parent \in pr.states
      BY HungFacts
    <3> QED BY <3>1 DEF populations, PartlyBound
  <2>6. \A x \in columns : Generated(s, x)
    <3>1. \A c \in Features(s, b.event) : Generated(s, [column |-> c, parents |-> Features(s, b.entity)])
      BY HungFacts
    <3>2. \A x \in p.columns : Generated(s, x)
      BY DEF PartlyBound
    <3> QED BY <3>1, <3>2 DEF columns
  <2>7. PartlyBound(s, pr, q)
    BY <2>4, <2>5, <2>6 DEF PartlyBound
  <2> QED BY <2>2, <2>7
<1> QED BY <1>6, <1>7

(* The bundles are bound one after the other.                              *)
Bindings(steps, s, r, p, pr, n) ==
  /\ steps \in [0..n -> Range(steps)] /\ steps[0] = {Fine(p)}
  /\ \A k \in 1..n : steps[k] = BindNext(s, r, steps[k - 1], pr.bundles[k])

(* Binding goes bundle by bundle.                                          *)
LEMMA BindSteps ==
  ASSUME NEW s, NEW r, NEW p, NEW pr, NEW n \in Nat, Len(pr.bundles) = n
  PROVE  \E steps : BindTemporal(s, r, p, pr) = steps[n] /\ Bindings(steps, s, r, p, pr, n)
<1> DEFINE Start == {Fine(p)}
           Following(k, before) == BindNext(s, r, before, pr.bundles[k])
           Solves(f, m) == f = [k \in 0..m |-> IF k = 0 THEN Start ELSE Following(k, f[k - 1])]
           steps == CHOOSE f : Solves(f, n)
<1>1. BindTemporal(s, r, p, pr) = steps[n]
  BY DEF BindTemporal
<1> HIDE DEF Start, Following
<1>2. \A m \in Nat : \E f : Solves(f, m)
  <2> DEFINE Bad == {m \in Nat : ~\E f : Solves(f, m)}
  <2> SUFFICES ASSUME Bad # {} PROVE FALSE
    OBVIOUS
  <2>1. PICK m \in Bad : \A k \in Bad : m <= k
    <3>1. Bad \in SUBSET Nat
      OBVIOUS
    <3> HIDE DEF Bad
    <3> QED BY <3>1, LeastNatural
  <2>2. m # 0
    <3>1. Solves([k \in 0..0 |-> Start], 0)
      OBVIOUS
    <3> QED BY <2>1, <3>1
  <2>3. \E f : Solves(f, m - 1)
    <3>1. m - 1 \in Nat /\ ~(m <= m - 1)
      BY <2>1, <2>2
    <3> HIDE DEF Solves
    <3> QED BY <2>1, <3>1
  <2>4. PICK f : Solves(f, m - 1)
    BY <2>3
  <2> DEFINE g == [k \in 0..m |-> IF k < m THEN f[k] ELSE Following(m, f[m - 1])]
  <2>5. Solves(g, m)
    <3>1. \A k \in 0..(m - 1) : g[k] = f[k]
      BY <2>1, <2>2
    <3>2. \A k \in 0..m : g[k] = IF k = 0 THEN Start ELSE Following(k, g[k - 1])
      BY <2>1, <2>2, <2>4, <3>1
    <3> QED BY <3>2
  <2> HIDE DEF g, Solves
  <2> QED BY <2>1, <2>5
<1>3. Solves(steps, n)
  <2> HIDE DEF Solves
  <2> QED BY <1>2
<1> HIDE DEF steps
<1>4. steps[0] = Start /\ \A k \in 1..n : steps[k] = Following(k, steps[k - 1])
  BY <1>3
<1>5. steps \in [0..n -> Range(steps)]
  <2> DEFINE value == [k \in 0..n |-> IF k = 0 THEN Start ELSE Following(k, steps[k - 1])]
  <2>1. steps = value
    BY <1>3
  <2>2. value \in [DOMAIN value -> {value[x] : x \in DOMAIN value}] /\ DOMAIN value = 0..n
    OBVIOUS
  <2> HIDE DEF value
  <2> QED BY <2>1, <2>2 DEF Range
<1> QED BY <1>1, <1>4, <1>5 DEF Start, Following, Bindings

(* A temporal prior is bound, or refused for its composition or a count.   *)
LEMMA BindTemporalFacts ==
  ASSUME NEW s, NEW r, NEW pr, PriorShaped(s, pr), NEW p, PartlyBound(s, pr, p),
         NEW o \in BindTemporal(s, r, p, pr)
  PROVE  o.issues \subseteq BindingIssues /\ (o.issues = {} => PartlyBound(s, pr, o.plan))
<1> DEFINE n == Len(pr.bundles)
           Fits(x) == x.issues \subseteq BindingIssues /\ (x.issues = {} => PartlyBound(s, pr, x.plan))
<1>1. n \in Nat /\ DOMAIN pr.bundles = 1..n
  BY DEF PriorShaped
<1>2. PICK steps : BindTemporal(s, r, p, pr) = steps[n] /\ Bindings(steps, s, r, p, pr, n)
  BY <1>1, BindSteps
<1> HIDE DEF n
<1>3. steps[0] = {Fine(p)} /\ \A k \in 1..n : steps[k] = BindNext(s, r, steps[k - 1], pr.bundles[k])
  BY <1>2 DEF Bindings
<1>4. \A k \in 0..n : \A x \in steps[k] : Fits(x)
  <2> DEFINE Bad == {k \in 0..n : ~\A x \in steps[k] : Fits(x)}
  <2> SUFFICES ASSUME Bad # {} PROVE FALSE
    OBVIOUS
  <2>1. PICK k \in Bad : \A j \in Bad : k <= j
    <3>1. Bad \in SUBSET Nat
      BY <1>1
    <3> HIDE DEF Bad
    <3> QED BY <3>1, LeastNatural
  <2>2. k # 0
    <3>1. Fits(Fine(p))
      BY DEF Fine
    <3> HIDE DEF Fits
    <3> QED BY <1>3, <2>1, <3>1
  <2>3. k \in 1..n /\ k - 1 \in 0..n /\ ~(k <= k - 1)
    BY <1>1, <2>1, <2>2
  <2>4. \A x \in steps[k - 1] : Fits(x)
    <3> HIDE DEF Fits
    <3> QED BY <2>1, <2>3
  <2> DEFINE b == pr.bundles[k]
  <2>5. steps[k] = BindNext(s, r, steps[k - 1], b)
    BY <1>3, <2>3
  <2>6. b.family \in TemporalFamilies => Hung(s, b) /\ b.entity \in pr.states
    <3>1. k \in DOMAIN pr.bundles
      BY <1>1, <2>3
    <3>2. b.family \in TemporalFamilies => Hung(s, b)
      BY <3>1 DEF PriorShaped
    <3>3. b \in Range(pr.bundles)
      BY <3>1 DEF Range
    <3>4. pr.states = Owners(pr.bundles)
      BY DEF PriorShaped
    <3> HIDE DEF b
    <3> QED BY <3>2, <3>3, <3>4 DEF Owners
  <2> HIDE DEF b
  <2>7. ASSUME NEW x \in steps[k] PROVE Fits(x)
    <3>1. PICK y \in steps[k - 1] :
            x \in IF y.issues # {} \/ b.family \notin TemporalFamilies THEN {y} ELSE BindTemporalBundle(s, r, y.plan, b)
      BY <2>5, <2>7 DEF BindNext
    <3>2. Fits(y)
      BY <2>4
    <3>3. CASE y.issues # {} \/ b.family \notin TemporalFamilies
      BY <3>1, <3>2, <3>3
    <3>4. CASE ~(y.issues # {} \/ b.family \notin TemporalFamilies)
      <4>1. x \in BindTemporalBundle(s, r, y.plan, b) /\ PartlyBound(s, pr, y.plan) /\ Hung(s, b) /\ b.entity \in pr.states
        BY <2>6, <3>1, <3>2, <3>4
      <4> QED BY <4>1, BindBundleFacts
    <3> QED BY <3>3, <3>4
  <2> HIDE DEF Fits
  <2> QED BY <2>1, <2>7
<1>5. n \in 0..n /\ o \in steps[n]
  BY <1>1, <1>2
<1> QED BY <1>4, <1>5

(* A bound plan, whatever the prior.                                       *)
Bound(s, pr, p) ==
  /\ Planned(s, p) /\ p.counts = << >> /\ p.states = pr.states /\ p.trajectories = pr.trajectories
  /\ pr.family \in TemporalFamilies => PartlyBound(s, pr, p)
  /\ pr.family \notin TemporalFamilies => \A m \in p.populations : Drafted(s, m)

(* A plan is bound to its prior, or refused for one of the reasons to      *)
(* bind.                                                                   *)
LEMMA BindFacts ==
  ASSUME NEW s, BlueprintAccepted(s), NEW r, NEW pr, PriorShaped(s, pr), NEW p \in InstancePlans(s),
         NEW o \in Bind(s, r, p, pr)
  PROVE  o.issues \subseteq BindingIssues /\ (o.issues = {} => Bound(s, pr, o.plan))
<1> DEFINE states == pr.states
           trajectories == pr.trajectories
           given == [p EXCEPT !.states = states, !.trajectories = trajectories]
<1>1. Planned(s, p) /\ p.columns = {} /\ p.populations = {} /\ p.counts = << >>
  BY InstancePlanFacts
<1>2. /\ Planned(s, given) /\ given.counts = << >> /\ given.populations = {} /\ given.columns = {}
      /\ given.states = states /\ given.trajectories = trajectories
  <2>1. given = WithOwners(p, states, trajectories)
    BY DEF WithOwners
  <2> HIDE DEF given, states, trajectories
  <2> QED BY <1>1, <2>1, OwnersSet
<1>3. o \in CASE pr.family \in TemporalFamilies -> BindTemporal(s, r, given, pr)
               [] pr.family = "relational_scm" -> {Fine(BindScm(given, pr))}
               [] pr.family = "relational_tree" -> {Fine(BindTree(s, given, pr))}
               [] OTHER -> {Fine(given)}
  BY DEF Bind
<1> HIDE DEF given
<1>4. CASE pr.family \in TemporalFamilies
  <2>1. PartlyBound(s, pr, given)
    BY <1>2 DEF PartlyBound
  <2>2. o \in BindTemporal(s, r, given, pr)
    BY <1>3, <1>4 DEF TemporalFamilies
  <2>3. o.issues \subseteq BindingIssues /\ (o.issues = {} => PartlyBound(s, pr, o.plan))
    BY <2>1, <2>2, BindTemporalFacts
  <2> QED BY <1>4, <2>3 DEF Bound, PartlyBound
<1>5. CASE pr.family = "relational_scm"
  <2>1. o = Fine(BindScm(given, pr))
    BY <1>3, <1>5 DEF TemporalFamilies
  <2>2. o.issues = {} /\ o.plan = BindScm(given, pr)
    BY <2>1 DEF Fine
  <2> DEFINE scm == {k \in DOMAIN pr.bundles : pr.bundles[k].family = "relational_scm"}
             owner(k, m) == \A j \in scm : m.table \in {n.table : n \in pr.bundles[j].populations} => j <= k
             populations == UNION {{m \in pr.bundles[k].populations : owner(k, m)} : k \in scm}
  <2>3. \E columns, family : o.plan = [given EXCEPT !.columns = columns, !.populations = populations, !.family = family]
    BY <2>2, Zenon DEF BindScm
  <2>4. \A m \in populations : Drafted(s, m)
    BY DEF PriorShaped
  <2> HIDE DEF populations
  <2>5. PICK columns, family : o.plan = WithMechanisms(given, columns, populations, family)
    BY <2>3 DEF WithMechanisms
  <2>6. /\ Planned(s, o.plan) /\ o.plan.counts = given.counts /\ o.plan.populations = populations
        /\ o.plan.states = given.states /\ o.plan.trajectories = given.trajectories
    BY <1>2, <2>5, MechanismsSet
  <2> QED BY <1>2, <1>5, <2>2, <2>4, <2>6 DEF Bound, TemporalFamilies
<1>6. CASE pr.family = "relational_tree"
  <2>1. o = Fine(BindTree(s, given, pr))
    BY <1>3, <1>6 DEF TemporalFamilies
  <2>2. o.issues = {} /\ o.plan = BindTree(s, given, pr)
    BY <2>1 DEF Fine
  <2>3. PICK columns, family : o.plan = WithFamilies(given, columns, family)
    BY <2>2, Zenon DEF BindTree, WithFamilies
  <2>6. /\ Planned(s, o.plan) /\ o.plan.counts = given.counts /\ o.plan.populations = given.populations
        /\ o.plan.states = given.states /\ o.plan.trajectories = given.trajectories
    BY <1>2, <2>3, FamiliesSet
  <2> QED BY <1>2, <1>6, <2>2, <2>6 DEF Bound, TemporalFamilies
<1>7. CASE pr.family \notin TemporalFamilies \cup {"relational_scm", "relational_tree"}
  <2>1. o = Fine(given)
    BY <1>3, <1>7
  <2>2. o.issues = {} /\ o.plan = given
    BY <2>1 DEF Fine
  <2> QED BY <1>2, <1>7, <2>2 DEF Bound
<1> QED BY <1>4, <1>5, <1>6, <1>7

-----------------------------------------------------------------------------
(* Generated tables.                                                       *)

DbFields == {"rows", "key", "time", "missing", "duplicate"}

(* Where the values of two joined functions come from.                     *)
LEMMA JoinedFacts ==
  ASSUME NEW f, NEW g
  PROVE  /\ DOMAIN Joined(f, g) = DOMAIN f \cup DOMAIN g
         /\ \A x \in DOMAIN g : Joined(f, g)[x] = g[x]
         /\ \A x \in DOMAIN f \ DOMAIN g : Joined(f, g)[x] = f[x]
BY DEF Joined

(* Drawing keys changes the keys alone.                                    *)
LEMMA AddKeysFacts ==
  ASSUME NEW d, DOMAIN d = DbFields, NEW keys, NEW e, e = AddKeys(d, keys)
  PROVE  /\ DOMAIN e = DbFields /\ e.key = Joined(d.key, keys) /\ e.rows = d.rows /\ e.time = d.time
         /\ e.missing = d.missing /\ e.duplicate = d.duplicate
BY DEF AddKeys, DbFields

OneMore(p, rows, t) == [u \in DOMAIN rows \cup {t} |-> IF u = t THEN p.rows[t] ELSE rows[u]]

TableAdds(p, d, t, e, times, missing) ==
  /\ DOMAIN e = DbFields /\ e.key = d.key /\ e.duplicate = d.duplicate
  /\ DOMAIN e.rows = DOMAIN d.rows \cup {t} /\ e.rows[t] = p.rows[t] /\ \A u \in DOMAIN d.rows \ {t} : e.rows[u] = d.rows[u]
  /\ e.rows = OneMore(p, d.rows, t)
  /\ e.time = Joined(d.time, times) /\ e.missing = Joined(d.missing, missing)

(* Adding a table changes rows, times and gaps.                            *)
LEMMA AddTableFacts ==
  ASSUME NEW p, NEW d, DOMAIN d = DbFields, NEW t, NEW times, NEW missing, NEW e, e = AddTable(p, d, t, times, missing)
  PROVE  TableAdds(p, d, t, e, times, missing)
<1> DEFINE rows == [u \in DOMAIN d.rows \cup {t} |-> IF u = t THEN p.rows[t] ELSE d.rows[u]]
           time == Joined(d.time, times)
           mask == Joined(d.missing, missing)
<1>1. e = [d EXCEPT !.rows = rows, !.time = time, !.missing = mask]
  BY DEF AddTable
<1>2. DOMAIN rows = DOMAIN d.rows \cup {t} /\ rows[t] = p.rows[t] /\ \A u \in DOMAIN d.rows \ {t} : rows[u] = d.rows[u]
  OBVIOUS
<1> HIDE DEF rows, time, mask
<1>3. /\ DOMAIN e = DbFields /\ e.key = d.key /\ e.duplicate = d.duplicate
      /\ e.rows = rows /\ e.time = time /\ e.missing = mask
  BY <1>1 DEF DbFields
<1>4. rows = OneMore(p, d.rows, t)
  BY DEF rows, OneMore
<1> QED BY <1>2, <1>3, <1>4 DEF time, mask, TableAdds

(* The tables generated so far: as many rows as planned, parents first,    *)
(* keys to the parents' rows and to none only if that is allowed, times of *)
(* the calendar, no column without a value.                                *)
KeyFits(s, p, i, key) ==
  /\ key \in [1..p.rows[ChildOf(s, i)] -> 0..p.rows[ParentOf(s, i)]]
  /\ ~Optional(s, i) => \A row \in 1..p.rows[ChildOf(s, i)] : key[row] # 0

Fits(s, p, d) ==
  /\ DOMAIN d = DbFields
  /\ DOMAIN d.rows \subseteq TablesOf(s) /\ \A t \in DOMAIN d.rows : d.rows[t] = p.rows[t]
  /\ d.rows = [t \in DOMAIN d.rows |-> d.rows[t]]
  /\ \A i \in KeysOf(s) : ChildOf(s, i) \in DOMAIN d.rows => ParentOf(s, i) \in DOMAIN d.rows
  /\ DOMAIN d.key = {i \in KeysOf(s) : ChildOf(s, i) \in DOMAIN d.rows}
  /\ \A i \in DOMAIN d.key : KeyFits(s, p, i, d.key[i])
  /\ DOMAIN d.time = {t \in DOMAIN d.rows : Timed(s, t)}
  /\ CalendarEnd >= 2 => \A t \in DOMAIN d.time : d.time[t] \in [1..p.rows[t] -> 0..CalendarEnd]
  /\ DOMAIN d.missing = UNION {Nullable(s, t) : t \in DOMAIN d.rows}
  /\ \A t \in DOMAIN d.rows : \A c \in Nullable(s, t) : d.missing[c] \in MissingMasks(p.rows[t])
  /\ d.duplicate = {}

(* Before its first table, a database fits its plan.                       *)
LEMMA EmptyFits == ASSUME NEW s, NEW p PROVE Fits(s, p, Empty(s, p))
<1> DEFINE d == Empty(s, p)
<1>1. /\ DOMAIN d = DbFields /\ d.rows = << >> /\ d.key = << >> /\ d.time = << >> /\ d.missing = << >> /\ d.duplicate = {}
  BY DEF Empty, DbFields
<1>2. DOMAIN << >> = {}
  BY EmptyFunction
<1> HIDE DEF d
<1>3. << >> = [t \in {} |-> << >>[t]]
  OBVIOUS
<1>4. d.rows = [t \in DOMAIN d.rows |-> d.rows[t]]
  BY <1>1, <1>2, <1>3
<1> QED BY <1>1, <1>2, <1>4 DEF Fits, d

(* The keys a new table may get.                                           *)
LEMMA AssignmentFacts ==
  ASSUME NEW s, BlueprintAccepted(s), NEW p, Planned(s, p), NEW t \in TablesOf(s), NEW keys \in ChildAssignments(s, p, t)
  PROVE  /\ DOMAIN keys = Incoming(s, t)
         /\ \A i \in Incoming(s, t) : KeyFits(s, p, i, keys[i])
         /\ \A g \in p.groups : ChildOfGroup(s, g) = t /\ Cardinality(g) > 1 => BridgeTuples(s, p, g, keys)
<1> DEFINE choices == [i \in Incoming(s, t) |-> Assignments(s, p, i)]
<1>1. keys \in EachOf(choices) /\ \A g \in p.groups : ChildOfGroup(s, g) = t /\ Cardinality(g) > 1 => BridgeTuples(s, p, g, keys)
  BY DEF ChildAssignments
<1>2. DOMAIN choices = Incoming(s, t) /\ \A i \in Incoming(s, t) : choices[i] = Assignments(s, p, i)
  OBVIOUS
<1> HIDE DEF choices
<1>3. DOMAIN keys = Incoming(s, t) /\ \A i \in Incoming(s, t) : keys[i] \in Assignments(s, p, i)
  BY <1>1, <1>2, EachOfFacts
<1>4. ASSUME NEW i \in Incoming(s, t) PROVE KeyFits(s, p, i, keys[i])
  <2>1. i \in KeysOf(s) /\ ParentOf(s, i) \in TablesOf(s)
    BY SchemaBasics DEF Incoming
  <2>2. p.rows[ParentOf(s, i)] \in Nat /\ (~Optional(s, i) => p.rate[i] = 0)
    BY <2>1 DEF Planned
  <2>3. keys[i] \in [1..p.rows[ChildOf(s, i)] -> (IF p.rate[i] > 0 THEN {0} ELSE {}) \cup 1..p.rows[ParentOf(s, i)]]
    BY <1>3 DEF Assignments, DrawnParents
  <2> DEFINE key == keys[i]
             n == p.rows[ChildOf(s, i)]
             m == p.rows[ParentOf(s, i)]
  <2> HIDE DEF key, n, m
  <2>4. m \in Nat /\ key \in [1..n -> (IF p.rate[i] > 0 THEN {0} ELSE {}) \cup 1..m]
    BY <2>2, <2>3 DEF key, n, m
  <2>5. key \in [1..n -> 0..m]
    <3>1. (IF p.rate[i] > 0 THEN {0} ELSE {}) \cup 1..m \subseteq 0..m
      BY <2>4
    <3> QED BY <2>4, <3>1
  <2>6. ~Optional(s, i) => \A row \in 1..n : key[row] # 0
    <3>1. ~Optional(s, i) => key \in [1..n -> 1..m]
      BY <2>2, <2>4
    <3> QED BY <3>1
  <2> QED BY <2>5, <2>6 DEF KeyFits, key, n, m
<1> QED BY <1>1, <1>3, <1>4

(* No table ends after the calendar.                                       *)
LEMMA EndFacts ==
  ASSUME NEW s, BlueprintAccepted(s), NEW t \in TablesOf(s), CalendarEnd >= 2
  PROVE  EffectiveEnd(s, t) \in 0..CalendarEnd
<1>1. LaggedDepth(s, t) \in Nat
  BY DepthFacts
<1>2. CalendarEnd \in Nat
  BY PlannerConfigured DEF PlannerConfigAccepted
<1> QED BY <1>1, <1>2 DEF EffectiveEnd

(* The key a table lags by is one of its keys with times.                  *)
LEMMA LagKeyFacts ==
  ASSUME NEW s, BlueprintAccepted(s), NEW d, NEW t, LagKeys(s, d, t) # {}
  PROVE  LagKey(s, d, t) \in LagKeys(s, d, t)
<1>1. LagKeys(s, d, t) \in SUBSET Nat
  BY SchemaBasics DEF LagKeys, Incoming
<1>2. \E i \in LagKeys(s, d, t) : \A j \in LagKeys(s, d, t) : i <= j
  BY <1>1, LeastNatural
<1> QED BY <1>2 DEF LagKey

(* The drawn time of a row: within the end of its table, and after that of *)
(* the parent that the table lags, if the row has one.                     *)
RowTimed(s, p, d, e, keys, t, row, time) ==
  /\ time \in 0..EffectiveEnd(s, t) /\ EffectiveEnd(s, t) \in 0..CalendarEnd
  /\ Lagged(s, p, e, t) =>
       LET i == LagKey(s, e, t)
       IN keys[i][row] # 0 =>
            \E after \in 0..CalendarEnd : \E lag \in Nat \ {0} :
              after = d.time[ParentOf(s, i)][keys[i][row]] /\ time = AtMost(after + lag, EffectiveEnd(s, t))

(* The times of a new table, whose keys are drawn.                         *)
LEMMA RowTimesFacts ==
  ASSUME NEW s, BlueprintAccepted(s), NEW p, Planned(s, p), NEW d, Fits(s, p, d), NEW t \in TablesOf(s), t \notin DOMAIN d.rows,
         NEW keys \in ChildAssignments(s, p, t), NEW e, e = AddKeys(d, keys), CalendarEnd >= 2,
         NEW row \in 1..p.rows[t], NEW time \in RowTimes(s, p, e, t, row)
  PROVE  RowTimed(s, p, d, e, keys, t, row, time)
<1> DEFINE end == EffectiveEnd(s, t)
           i == LagKey(s, e, t)
           parent == e.key[i][row]
           after == e.time[ParentOf(s, i)][parent]
<1>1. CalendarEnd \in Nat /\ Ticks \subseteq 0..CalendarEnd /\ end \in 0..CalendarEnd
  BY PlannerConfigured, TicksGiven, EndFacts DEF PlannerConfigAccepted
<1>2. DOMAIN e = DbFields /\ e.key = Joined(d.key, keys) /\ e.time = d.time
  BY AddKeysFacts DEF Fits
<1>3. time \in CASE ~Lagged(s, p, e, t) -> {AtMost(x, end) : x \in Ticks}
                 [] Lagged(s, p, e, t) /\ parent = 0 -> {0}
                 [] OTHER -> {AtMost(after + lag, end) : lag \in (Ticks \ {0}) \cup {1}}
  BY DEF RowTimes, DrawnTimes
<1> HIDE DEF end
<1>4. CASE ~Lagged(s, p, e, t)
  <2>1. PICK x \in Ticks : time = AtMost(x, end)
    BY <1>3, <1>4
  <2> QED BY <1>1, <1>4, <2>1 DEF AtMost, end, RowTimed
<1>5. CASE Lagged(s, p, e, t)
  <2>1. i \in LagKeys(s, e, t)
    BY <1>5, LagKeyFacts DEF Lagged
  <2>2. i \in Incoming(s, t) /\ ParentOf(s, i) \in DOMAIN d.time
    BY <1>2, <2>1 DEF LagKeys
  <2> HIDE DEF i
  <2>3. DOMAIN keys = Incoming(s, t) /\ KeyFits(s, p, i, keys[i])
    BY <2>2, AssignmentFacts
  <2>4. e.key[i] = keys[i]
    <3>1. i \in DOMAIN keys
      BY <2>2, <2>3
    <3>2. Joined(d.key, keys)[i] = keys[i]
      BY <3>1 DEF Joined
    <3> QED BY <1>2, <3>2
  <2>5. ChildOf(s, i) = t /\ i \in KeysOf(s)
    BY <2>2 DEF Incoming
  <2>6. keys[i][row] \in 0..p.rows[ParentOf(s, i)]
    BY <2>3, <2>5 DEF KeyFits
  <2>7. p.rows[ParentOf(s, i)] \in Nat /\ d.time[ParentOf(s, i)] \in [1..p.rows[ParentOf(s, i)] -> 0..CalendarEnd]
    BY <2>2, <2>5, SchemaBasics DEF Planned, Fits
  <2>8. parent = keys[i][row] /\ after = d.time[ParentOf(s, i)][keys[i][row]]
    BY <1>2, <2>4
  <2> HIDE DEF parent, after
  <2>9. CASE parent = 0
    <3>1. time = 0
      BY <1>3, <1>5, <2>9
    <3>2. time \in 0..end
      BY <1>1, <3>1
    <3>3. keys[i][row] = 0
      BY <2>8, <2>9
    <3> QED BY <1>1, <3>2, <3>3 DEF end, i, RowTimed
  <2>10. CASE parent # 0
    <3>1. PICK lag \in (Ticks \ {0}) \cup {1} : time = AtMost(after + lag, end)
      BY <1>3, <1>5, <2>10
    <3>2. after \in 0..CalendarEnd
      BY <2>6, <2>7, <2>8, <2>10
    <3>3. lag \in Nat \ {0}
      <4>1. Ticks \subseteq Nat
        BY <1>1
      <4>2. lag \in Ticks \ {0} \/ lag = 1
        OBVIOUS
      <4>3. lag \in Nat
        BY <4>1, <4>2
      <4>4. lag # 0
        BY <4>2
      <4> QED BY <4>3, <4>4
    <3>4. time \in 0..end
      BY <1>1, <3>1, <3>2, <3>3 DEF AtMost
    <3> QED BY <1>1, <2>8, <3>1, <3>2, <3>3, <3>4 DEF end, i, RowTimed
  <2> QED BY <2>9, <2>10
<1> QED BY <1>4, <1>5

(* The times of the rows of a new table.                                   *)
LEMMA TimesFacts ==
  ASSUME NEW s, NEW p, NEW e, NEW t, NEW times \in TimesOf(s, p, e, t)
  PROVE  /\ DOMAIN times = IF Timed(s, t) THEN {t} ELSE {}
         /\ Timed(s, t) => \E D : times[t] \in [1..p.rows[t] -> D] /\ \A row \in 1..p.rows[t] : times[t][row] \in RowTimes(s, p, e, t, row)
<1>1. CASE ~Timed(s, t)
  BY <1>1, EmptyFunction DEF TimesOf
<1>2. CASE Timed(s, t)
  <2>1. PICK f \in TimeChoices(s, p, e, t) : times = Single(t, f)
    BY <1>2 DEF TimesOf
  <2>2. DOMAIN times = {t} /\ times[t] = f
    BY <2>1 DEF Single
  <2> DEFINE choices == [row \in 1..p.rows[t] |-> RowTimes(s, p, e, t, row)]
  <2>3. f \in EachOf(choices)
    BY DEF TimeChoices
  <2>4. DOMAIN choices = 1..p.rows[t] /\ \A row \in 1..p.rows[t] : choices[row] = RowTimes(s, p, e, t, row)
    OBVIOUS
  <2> HIDE DEF choices
  <2>5. f \in [1..p.rows[t] -> UNION Range(choices)] /\ \A row \in 1..p.rows[t] : f[row] \in RowTimes(s, p, e, t, row)
    BY <2>3, <2>4 DEF EachOf
  <2> QED BY <1>2, <2>2, <2>5
<1> QED BY <1>1, <1>2

(* f is d with one table more, of these keys, times and gaps.              *)
Grown(p, d, t, f, keys, times, missing) ==
  /\ DOMAIN f = DbFields /\ f.key = Joined(d.key, keys) /\ f.duplicate = d.duplicate
  /\ DOMAIN f.rows = DOMAIN d.rows \cup {t} /\ f.rows[t] = p.rows[t]
  /\ \A u \in DOMAIN d.rows \ {t} : f.rows[u] = d.rows[u]
  /\ f.rows = OneMore(p, d.rows, t)
  /\ f.time = Joined(d.time, times) /\ f.missing = Joined(d.missing, missing)

(* Whatever is drawn for a table, the database has that table more.        *)
LEMMA WithTableShape ==
  ASSUME NEW s, NEW p, NEW d, DOMAIN d = DbFields, NEW t, NEW f \in WithTable(s, p, d, t)
  PROVE  \E keys \in ChildAssignments(s, p, t) : \E times \in TimesOf(s, p, AddKeys(d, keys), t) :
           \E missing \in FeatureChoices(s, p, t) : Grown(p, d, t, f, keys, times, missing)
<1>1. PICK e \in WithKeys(s, p, d, t) :
        \E times \in TimesOf(s, p, e, t), missing \in FeatureChoices(s, p, t) : f = AddTable(p, e, t, times, missing)
  BY DEF WithTable
<1>2. PICK keys \in ChildAssignments(s, p, t) : e = AddKeys(d, keys)
  BY DEF WithKeys
<1>3. PICK times \in TimesOf(s, p, e, t), missing \in FeatureChoices(s, p, t) : f = AddTable(p, e, t, times, missing)
  BY <1>1
<1>4. /\ DOMAIN e = DbFields /\ e.key = Joined(d.key, keys) /\ e.rows = d.rows /\ e.time = d.time
      /\ e.missing = d.missing /\ e.duplicate = d.duplicate
  BY <1>2, AddKeysFacts
<1>5. /\ DOMAIN f = DbFields /\ f.key = e.key /\ f.duplicate = e.duplicate
      /\ DOMAIN f.rows = DOMAIN e.rows \cup {t} /\ f.rows[t] = p.rows[t] /\ \A u \in DOMAIN e.rows \ {t} : f.rows[u] = e.rows[u]
      /\ f.rows = OneMore(p, e.rows, t)
      /\ f.time = Joined(e.time, times) /\ f.missing = Joined(e.missing, missing)
  <2>1. DOMAIN e = DbFields /\ f = AddTable(p, e, t, times, missing)
    BY <1>3, <1>4
  <2>2. TableAdds(p, e, t, f, times, missing)
    BY <2>1, AddTableFacts
  <2> QED BY <2>2 DEF TableAdds
<1>6. times \in TimesOf(s, p, AddKeys(d, keys), t)
  BY <1>2
<1>7. Grown(p, d, t, f, keys, times, missing)
  BY <1>4, <1>5 DEF Grown
<1> QED BY <1>6, <1>7

(* One more table leaves the database as it should be.                     *)
LEMMA TableFits ==
  ASSUME NEW s, BlueprintAccepted(s), NEW p, Planned(s, p), NEW d, Fits(s, p, d), NEW t \in TablesOf(s), t \notin DOMAIN d.rows,
         \A i \in Incoming(s, t) : ParentOf(s, i) \in DOMAIN d.rows, NEW f \in WithTable(s, p, d, t)
  PROVE  Fits(s, p, f) /\ DOMAIN f.rows = DOMAIN d.rows \cup {t}
<1>f. /\ DOMAIN d = DbFields
      /\ \A u \in DOMAIN d.rows : u \in TablesOf(s) /\ d.rows[u] = p.rows[u]
      /\ DOMAIN d.key = {i \in KeysOf(s) : ChildOf(s, i) \in DOMAIN d.rows} /\ \A i \in DOMAIN d.key : KeyFits(s, p, i, d.key[i])
      /\ DOMAIN d.time = {u \in DOMAIN d.rows : Timed(s, u)}
      /\ CalendarEnd >= 2 => \A u \in DOMAIN d.time : d.time[u] \in [1..p.rows[u] -> 0..CalendarEnd]
      /\ DOMAIN d.missing = UNION {Nullable(s, u) : u \in DOMAIN d.rows}
      /\ \A u \in DOMAIN d.rows : \A c \in Nullable(s, u) : d.missing[c] \in MissingMasks(p.rows[u])
      /\ \A i \in KeysOf(s) : ChildOf(s, i) \in DOMAIN d.rows => ParentOf(s, i) \in DOMAIN d.rows
      /\ d.duplicate = {}
  BY DEF Fits
<1>0. PICK keys \in ChildAssignments(s, p, t) : \E times \in TimesOf(s, p, AddKeys(d, keys), t) : \E missing \in FeatureChoices(s, p, t) : Grown(p, d, t, f, keys, times, missing)
  BY <1>f, WithTableShape
<1>0a. PICK times \in TimesOf(s, p, AddKeys(d, keys), t) : \E missing \in FeatureChoices(s, p, t) : Grown(p, d, t, f, keys, times, missing)
  BY <1>0
<1>0b. PICK missing \in FeatureChoices(s, p, t) : Grown(p, d, t, f, keys, times, missing)
  BY <1>0a
<1>1. /\ DOMAIN f = DbFields /\ f.key = Joined(d.key, keys) /\ f.duplicate = d.duplicate
      /\ DOMAIN f.rows = DOMAIN d.rows \cup {t} /\ f.rows[t] = p.rows[t]
      /\ \A u \in DOMAIN d.rows \ {t} : f.rows[u] = d.rows[u]
      /\ f.time = Joined(d.time, times) /\ f.missing = Joined(d.missing, missing)
  BY <1>0b DEF Grown
<1>2. DOMAIN keys = Incoming(s, t) /\ \A i \in Incoming(s, t) : KeyFits(s, p, i, keys[i])
  BY AssignmentFacts
<1>3. DOMAIN f.key = {i \in KeysOf(s) : ChildOf(s, i) \in DOMAIN f.rows}
  <2>1. DOMAIN f.key = DOMAIN d.key \cup Incoming(s, t)
    BY <1>1, <1>2 DEF Joined
  <2> QED BY <1>f, <1>1, <2>1 DEF Incoming
<1>4. ASSUME NEW i \in DOMAIN f.key PROVE KeyFits(s, p, i, f.key[i])
  <2>1. CASE i \in Incoming(s, t)
    <3>1. f.key[i] = keys[i]
      BY <1>1, <1>2, <2>1 DEF Joined
    <3> QED BY <1>2, <2>1, <3>1
  <2>2. CASE i \notin Incoming(s, t)
    <3>1. i \in DOMAIN d.key /\ f.key[i] = d.key[i]
      BY <1>1, <1>2, <2>2 DEF Joined
    <3> QED BY <1>f, <3>1
  <2> QED BY <2>1, <2>2
<1>5. DOMAIN times = IF Timed(s, t) THEN {t} ELSE {}
  BY TimesFacts
<1>6. DOMAIN f.time = {u \in DOMAIN f.rows : Timed(s, u)}
  <2>1. DOMAIN f.time = DOMAIN d.time \cup DOMAIN times
    BY <1>1 DEF Joined
  <2> QED BY <1>f, <1>1, <1>5, <2>1
<1>7. ASSUME CalendarEnd >= 2, NEW u \in DOMAIN f.time PROVE f.time[u] \in [1..p.rows[u] -> 0..CalendarEnd]
  <2>1. CASE u # t
    <3>1. u \in DOMAIN d.time /\ f.time[u] = d.time[u]
      BY <1>1, <1>5, <2>1 DEF Joined
    <3> QED BY <1>f, <1>7, <3>1
  <2>2. CASE u = t
    <3>1. Timed(s, t) /\ f.time[t] = times[t]
      BY <1>1, <1>5, <1>6, <1>7, <2>2 DEF Joined
    <3>2. PICK D : times[t] \in [1..p.rows[t] -> D] /\ \A row \in 1..p.rows[t] : times[t][row] \in RowTimes(s, p, AddKeys(d, keys), t, row)
      BY <3>1, TimesFacts
    <3>3. ASSUME NEW row \in 1..p.rows[t] PROVE times[t][row] \in 0..CalendarEnd
      <4> DEFINE time == times[t][row]
                 e == AddKeys(d, keys)
      <4>1. time \in RowTimes(s, p, e, t, row) /\ e = AddKeys(d, keys)
        BY <3>2
      <4> HIDE DEF time, e
      <4>2. time \in 0..EffectiveEnd(s, t) /\ EffectiveEnd(s, t) \in 0..CalendarEnd
        BY <1>7, <4>1, RowTimesFacts DEF RowTimed
      <4>2a. CalendarEnd \in Nat
        BY PlannerConfigured DEF PlannerConfigAccepted
      <4> DEFINE last == EffectiveEnd(s, t)
      <4>2b. time \in 0..last /\ last \in 0..CalendarEnd
        BY <4>2
      <4> HIDE DEF last
      <4>3. time \in 0..CalendarEnd
        BY <4>2a, <4>2b
      <4> QED BY <4>3 DEF time
    <3> QED BY <2>2, <3>1, <3>2, <3>3
  <2> QED BY <2>1, <2>2
<1>8. missing \in [Nullable(s, t) -> MissingMasks(p.rows[t])]
  BY DEF FeatureChoices
<1>9. \A u, v, c : c \in Nullable(s, u) /\ c \in Nullable(s, v) => u = v
  BY DEF Nullable, Features, ColumnsOfKind
<1>10. DOMAIN f.missing = UNION {Nullable(s, u) : u \in DOMAIN f.rows}
  <2>1. DOMAIN f.missing = DOMAIN d.missing \cup Nullable(s, t)
    BY <1>1, <1>8 DEF Joined
  <2> QED BY <1>f, <1>1, <2>1
<1>11. ASSUME NEW u \in DOMAIN f.rows, NEW c \in Nullable(s, u) PROVE f.missing[c] \in MissingMasks(p.rows[u])
  <2>1. CASE u = t
    <3>1. f.missing[c] = missing[c]
      BY <1>1, <1>8, <2>1 DEF Joined
    <3> QED BY <1>8, <2>1, <3>1
  <2>2. CASE u # t
    <3>1. u \in DOMAIN d.rows /\ c \in DOMAIN d.missing /\ c \notin DOMAIN missing
      BY <1>f, <1>1, <1>8, <1>9, <2>2
    <3>2. f.missing[c] = d.missing[c]
      BY <1>1, <3>1 DEF Joined
    <3> QED BY <1>f, <3>1, <3>2
  <2> QED BY <2>1, <2>2
<1>12. \A i \in KeysOf(s) : ChildOf(s, i) \in DOMAIN f.rows => ParentOf(s, i) \in DOMAIN f.rows
  BY <1>f, <1>1 DEF Incoming
<1>13. \A u \in DOMAIN f.rows : u \in TablesOf(s) /\ f.rows[u] = p.rows[u]
  BY <1>f, <1>1
<1>14. f.duplicate = {} /\ DOMAIN f = DbFields /\ DOMAIN f.rows = DOMAIN d.rows \cup {t}
  BY <1>f, <1>1
<1>15. f.rows = [u \in DOMAIN f.rows |-> f.rows[u]]
  <2>1. f.rows = OneMore(p, d.rows, t)
    BY <1>0b DEF Grown
  <2> QED BY <2>1 DEF OneMore
<1> USE DEF Fits
<1> QED BY <1>15, <1>3, <1>4, <1>6, <1>7, <1>10, <1>11, <1>12, <1>13, <1>14

-----------------------------------------------------------------------------
(* Times under static priors.                                              *)

(* The rows of a lagged table come after those of its parent.              *)
Behind(s, d, t) ==
  LET i == LagKey(s, d, t)
  IN \A row \in 1..d.rows[t] : d.key[i][row] # 0 => d.time[t][row] > d.time[ParentOf(s, i)][d.key[i][row]]

Lags(s, p, d) ==
  /\ \A t \in DOMAIN d.time : \A row \in 1..p.rows[t] : d.time[t][row] \in 0..EffectiveEnd(s, t)
  /\ \A t \in DOMAIN d.rows : Lagged(s, p, d, t) => Behind(s, d, t)

(* One more table leaves the times as they should be.                      *)
LEMMA LagsKept ==
  ASSUME HeadroomSuffices, NEW r \in Requests, NEW s \in Compile(r.columns, r.blueprint), NEW p, Planned(s, p),
         NEW d, Fits(s, p, d), Lags(s, p, d), NEW t \in TablesOf(s), t \notin DOMAIN d.rows,
         \A i \in Incoming(s, t) : ParentOf(s, i) \in DOMAIN d.rows, NEW f \in WithTable(s, p, d, t)
  PROVE  Lags(s, p, f)
<1>1. /\ BlueprintAccepted(r.blueprint) /\ CompilerConfigAccepted(r.columns) /\ BlueprintAccepted(s)
      /\ TablesOf(s) = TablesOf(r.blueprint) /\ s.roles = r.blueprint.roles
  BY RequestsAccepted, CompileFacts
<1>2. CalendarEnd >= 2 /\ CalendarEnd \in Nat
  <2> DEFINE Dated == {u \in TablesOf(r.blueprint) : r.blueprint.roles[u] \in {"event", "detail"}}
  <2>1. IsFiniteSet(Dated)
    BY <1>1, SchemaBasics, FS_Subset
  <2>2. CalendarEnd \in Nat
    BY PlannerConfigured DEF PlannerConfigAccepted
  <2>3. CalendarEnd >= Cardinality(Dated) + 2
    BY DEF HeadroomSuffices
  <2>4. Cardinality(Dated) \in Nat
    BY <2>1, FS_CardinalityType
  <2> HIDE DEF Dated
  <2> QED BY <2>2, <2>3, <2>4
<1>3. PICK keys \in ChildAssignments(s, p, t) : \E times \in TimesOf(s, p, AddKeys(d, keys), t) :
           \E missing \in FeatureChoices(s, p, t) : Grown(p, d, t, f, keys, times, missing)
  BY WithTableShape DEF Fits
<1>4. PICK times \in TimesOf(s, p, AddKeys(d, keys), t) : \E missing \in FeatureChoices(s, p, t) : Grown(p, d, t, f, keys, times, missing)
  BY <1>3
<1>5. /\ f.key = Joined(d.key, keys) /\ f.time = Joined(d.time, times)
      /\ DOMAIN f.rows = DOMAIN d.rows \cup {t} /\ f.rows[t] = p.rows[t]
      /\ \A u \in DOMAIN d.rows \ {t} : f.rows[u] = d.rows[u]
  BY <1>4 DEF Grown
<1>6. PICK e : e = AddKeys(d, keys)
  OBVIOUS
<1>7. DOMAIN d = DbFields /\ e.key = f.key /\ e.time = d.time
  <2>1. DOMAIN d = DbFields
    BY DEF Fits
  <2> QED BY <1>5, <1>6, <2>1, AddKeysFacts
<1>8. /\ Fits(s, p, f)
      /\ DOMAIN f.time = {u \in DOMAIN f.rows : Timed(s, u)} /\ DOMAIN d.time = {u \in DOMAIN d.rows : Timed(s, u)}
      /\ DOMAIN f.key = {i \in KeysOf(s) : ChildOf(s, i) \in DOMAIN f.rows}
      /\ DOMAIN d.key = {i \in KeysOf(s) : ChildOf(s, i) \in DOMAIN d.rows}
      /\ \A i \in DOMAIN f.key : KeyFits(s, p, i, f.key[i])
      /\ \A i \in KeysOf(s) : ChildOf(s, i) \in DOMAIN d.rows => ParentOf(s, i) \in DOMAIN d.rows
  <2>1. Fits(s, p, f)
    BY <1>1, TableFits
  <2> QED BY <2>1 DEF Fits
<1>9. DOMAIN keys = Incoming(s, t) /\ DOMAIN times = IF Timed(s, t) THEN {t} ELSE {}
  <2>1. DOMAIN keys = Incoming(s, t)
    BY <1>1, AssignmentFacts
  <2>2. times \in TimesOf(s, p, e, t)
    BY <1>6
  <2>3. DOMAIN times = IF Timed(s, t) THEN {t} ELSE {}
    BY <2>2, TimesFacts
  <2> QED BY <2>1, <2>3
<1>10. ASSUME NEW u \in DOMAIN d.rows
       PROVE  /\ LagKeys(s, f, u) = LagKeys(s, d, u)
              /\ Timed(s, u) => f.time[u] = d.time[u]
              /\ \A i \in Incoming(s, u) : f.key[i] = d.key[i]
  <2>1. LagKeys(s, f, u) = LagKeys(s, d, u)
    BY <1>5, <1>8 DEF LagKeys, Incoming
  <2>2. ASSUME Timed(s, u) PROVE f.time[u] = d.time[u]
    <3>1. u \in DOMAIN d.time /\ u \notin DOMAIN times
      BY <1>8, <1>9, <2>2
    <3> QED BY <1>5, <3>1 DEF Joined
  <2>3. ASSUME NEW i \in Incoming(s, u) PROVE f.key[i] = d.key[i]
    <3>1. i \in DOMAIN d.key /\ i \notin DOMAIN keys
      BY <1>8, <1>9 DEF Incoming
    <3> QED BY <1>5, <3>1 DEF Joined
  <2> QED BY <2>1, <2>2, <2>3
<1>11. LagKeys(s, f, t) = LagKeys(s, e, t)
  BY <1>5, <1>7, <1>8 DEF LagKeys, Incoming
<1>12. ASSUME Timed(s, t), NEW row \in 1..p.rows[t]
       PROVE  /\ f.time[t][row] \in 0..EffectiveEnd(s, t)
              /\ Lagged(s, p, e, t) =>
                   LET i == LagKey(s, e, t)
                   IN keys[i][row] # 0 =>
                        \E after \in 0..CalendarEnd : \E lag \in Nat \ {0} :
                          after = d.time[ParentOf(s, i)][keys[i][row]] /\ f.time[t][row] = AtMost(after + lag, EffectiveEnd(s, t))
  <2>1. f.time[t] = times[t]
    BY <1>5, <1>9, <1>12 DEF Joined
  <2>2. times[t][row] \in RowTimes(s, p, e, t, row)
    BY <1>6, <1>12, TimesFacts
  <2>3. PICK time : time = f.time[t][row] /\ time \in RowTimes(s, p, e, t, row)
    BY <2>1, <2>2
  <2>4. e = AddKeys(d, keys)
    BY <1>6
  <2>5. RowTimed(s, p, d, e, keys, t, row, time)
    BY <1>1, <1>2, <2>3, <2>4, RowTimesFacts
  <2> QED BY <2>3, <2>5 DEF RowTimed
<1>13. ASSUME NEW u \in DOMAIN f.time, NEW row \in 1..p.rows[u] PROVE f.time[u][row] \in 0..EffectiveEnd(s, u)
  <2>1. CASE u = t
    BY <1>8, <1>12, <1>13, <2>1
  <2>2. CASE u # t
    <3>1. u \in DOMAIN d.rows /\ Timed(s, u) /\ u \in DOMAIN d.time
      BY <1>5, <1>8, <2>2
    <3> QED BY <1>10, <1>13, <3>1 DEF Lags
  <2> QED BY <2>1, <2>2
<1>14. ASSUME NEW u \in DOMAIN f.rows, Lagged(s, p, f, u) PROVE Behind(s, f, u)
  <2>1. CASE u # t
    <3>1. u \in DOMAIN d.rows
      BY <1>5, <2>1
    <3>2. Lagged(s, p, d, u) /\ LagKey(s, f, u) = LagKey(s, d, u) /\ LagKeys(s, d, u) # {}
      BY <1>10, <1>14, <3>1 DEF Lagged, LagKey
    <3> DEFINE i == LagKey(s, d, u)
    <3>3. i \in Incoming(s, u) /\ ParentOf(s, i) \in DOMAIN d.time
      BY <1>1, <3>2, LagKeyFacts DEF LagKeys
    <3>4. f.key[i] = d.key[i] /\ f.time[ParentOf(s, i)] = d.time[ParentOf(s, i)]
      BY <1>8, <1>10, <3>1, <3>3
    <3>5. Timed(s, u)
      BY <1>1, <1>14, <1>8, EventTimed DEF Lagged, Planned, TemporalFamily, Fits
    <3>6. Behind(s, d, u) /\ f.time[u] = d.time[u] /\ f.rows[u] = d.rows[u]
      BY <1>5, <1>10, <2>1, <3>1, <3>2, <3>5 DEF Lags
    <3> QED BY <3>2, <3>4, <3>6 DEF Behind
  <2>2. CASE u = t
    <3>1. Lagged(s, p, e, t) /\ LagKey(s, f, t) = LagKey(s, e, t) /\ LagKeys(s, e, t) # {}
      BY <1>11, <1>14, <2>2 DEF Lagged, LagKey
    <3>2. PICK i : i = LagKey(s, e, t)
      OBVIOUS
    <3>3. i \in Incoming(s, t) /\ ParentOf(s, i) \in DOMAIN d.time /\ ParentOf(s, i) # t
      BY <1>1, <1>7, <1>8, <3>1, <3>2, LagKeyFacts DEF LagKeys
    <3>4. Timed(s, t)
      BY <1>1, <1>14, <2>2, EventTimed DEF Lagged, Planned, TemporalFamily
    <3> DEFINE P == ParentOf(s, i)
    <3>5. P \in TimedTables(s) /\ t \in TimedTables(s) /\ Key(s, P, t) /\ P \in DOMAIN d.rows
      BY <1>1, <1>8, <3>3, <3>4, SchemaBasics DEF TimedTables, Key, Incoming
    <3>6. EffectiveEnd(s, P) \in Nat /\ EffectiveEnd(s, t) \in Nat /\ EffectiveEnd(s, P) < EffectiveEnd(s, t)
      BY <3>5, HeadroomFacts
    <3>7. f.key[i] = keys[i] /\ f.time[P] = d.time[P] /\ KeyFits(s, p, i, keys[i])
      <4>1. f.key[i] = keys[i] /\ i \in DOMAIN f.key
        BY <1>5, <1>9, <3>3 DEF Joined
      <4>2. f.time[P] = d.time[P]
        BY <1>10, <3>5 DEF TimedTables
      <4> QED BY <1>8, <4>1, <4>2
    <3>8. ASSUME NEW row \in 1..f.rows[t], f.key[i][row] # 0 PROVE f.time[t][row] > f.time[P][f.key[i][row]]
      <4>1. row \in 1..p.rows[t]
        BY <1>5
      <4>2. keys[i][row] \in 1..p.rows[P]
        <5>1. ChildOf(s, i) = t
          BY <3>3 DEF Incoming
        <5>2. keys[i] \in [1..p.rows[t] -> 0..p.rows[P]]
          BY <3>7, <5>1 DEF KeyFits
        <5>3. keys[i][row] \in 0..p.rows[P] /\ keys[i][row] # 0
          BY <3>7, <3>8, <4>1, <5>2
        <5> HIDE DEF P
        <5>4. p.rows[P] \in Nat
          BY <3>5 DEF Planned, TimedTables
        <5> QED BY <5>3, <5>4
      <4>3. PICK after \in 0..CalendarEnd, lag \in Nat \ {0} :
              after = d.time[P][keys[i][row]] /\ f.time[t][row] = AtMost(after + lag, EffectiveEnd(s, t))
        BY <1>12, <3>1, <3>2, <3>4, <3>7, <3>8, <4>1
      <4>4. after \in 0..EffectiveEnd(s, P)
        BY <3>3, <4>2, <4>3 DEF Lags
      <4>5. f.time[P][f.key[i][row]] = after
        BY <3>7, <4>3
      <4> QED BY <3>6, <4>3, <4>4, <4>5 DEF AtMost
    <3> QED BY <2>2, <3>1, <3>2, <3>8 DEF Behind
  <2> QED BY <2>1, <2>2
<1> QED BY <1>13, <1>14 DEF Lags

-----------------------------------------------------------------------------
(* Counted events, and what they are drawn from.                           *)

(* The owners of the events, in order: each has as many as were counted.   *)
LEMMA RepeatFacts ==
  ASSUME NEW n \in Nat, NEW counts \in [1..n -> Nat]
  PROVE  /\ Repeat(counts) \in [1..Total(counts) -> 1..n]
         /\ \A e \in 1..n : Cardinality({row \in 1..Total(counts) : Repeat(counts)[row] = e}) = counts[e]
<1>1. PICK sums : sums = Running(counts)
  OBVIOUS
<1>2. /\ sums \in [0..n -> Nat] /\ sums[0] = 0 /\ \A k \in 1..n : sums[k] = sums[k - 1] + counts[k]
      /\ Len(counts) = n /\ Total(counts) = sums[n] /\ Total(counts) \in Nat
  BY <1>1, RunningFacts
<1>3. \A j, k \in 0..n : j <= k => sums[j] <= sums[k]
  <2> SUFFICES ASSUME NEW j \in 0..n PROVE \A k \in 0..n : j <= k => sums[j] <= sums[k]
    OBVIOUS
  <2> DEFINE Bad == {k \in 0..n : j <= k /\ ~(sums[j] <= sums[k])}
  <2> SUFFICES ASSUME Bad # {} PROVE FALSE
    OBVIOUS
  <2>1. PICK k \in Bad : \A x \in Bad : k <= x
    <3>1. Bad \in SUBSET Nat
      OBVIOUS
    <3> HIDE DEF Bad
    <3> QED BY <3>1, LeastNatural
  <2>2. k # j
    BY <1>2, <2>1
  <2>3. k \in 1..n /\ k - 1 \in 0..n /\ j <= k - 1 /\ ~(k <= k - 1)
    BY <2>1, <2>2
  <2>4. sums[j] <= sums[k - 1]
    BY <2>1, <2>3
  <2>5. sums[k] = sums[k - 1] + counts[k] /\ counts[k] \in Nat /\ sums[k - 1] \in Nat /\ sums[j] \in Nat
    BY <1>2, <2>3
  <2>6. sums[j] <= sums[k]
    BY <2>4, <2>5
  <2> QED BY <2>1, <2>6
<1> DEFINE owns(e, row) == sums[e - 1] < row /\ row <= sums[e]
<1>4. ASSUME NEW row \in 1..Total(counts) PROVE \E e \in 1..n : owns(e, row)
  <2> DEFINE Ends == {e \in 0..n : row <= sums[e]}
  <2>1. Ends # {} /\ Ends \in SUBSET Nat
    <3>1. n \in Ends
      BY <1>2
    <3> QED BY <3>1
  <2>2. PICK e \in Ends : \A x \in Ends : e <= x
    <3> HIDE DEF Ends
    <3> QED BY <2>1, LeastNatural
  <2>3. e # 0
    BY <1>2, <2>2
  <2>4. e \in 1..n /\ e - 1 \in 0..n /\ ~(e <= e - 1)
    BY <2>2, <2>3
  <2>5. ~(row <= sums[e - 1])
    BY <2>2, <2>4
  <2>6. sums[e - 1] \in Nat
    BY <1>2, <2>4
  <2> QED BY <2>2, <2>4, <2>5, <2>6
<1>5. ASSUME NEW row \in 1..Total(counts), NEW e \in 1..n, NEW f \in 1..n, owns(e, row), owns(f, row), e < f PROVE FALSE
  <2>1. e <= f - 1 /\ f - 1 \in 0..n /\ e \in 0..n
    BY <1>5
  <2>2. sums[e] <= sums[f - 1]
    BY <1>3, <2>1
  <2>3. sums[e] \in Nat /\ sums[f - 1] \in Nat
    BY <1>2, <2>1
  <2> QED BY <1>5, <2>2, <2>3
<1>6. ASSUME NEW row \in 1..Total(counts)
      PROVE  Repeat(counts)[row] \in 1..n /\ \A e \in 1..n : owns(e, row) <=> Repeat(counts)[row] = e
  <2>1. Repeat(counts)[row] = CHOOSE e \in 1..n : owns(e, row)
    BY <1>1, <1>2 DEF Repeat
  <2>2. Repeat(counts)[row] \in 1..n /\ owns(Repeat(counts)[row], row)
    <3> HIDE DEF owns
    <3> QED BY <1>4, <2>1
  <2>3. ASSUME NEW e \in 1..n, owns(e, row) PROVE Repeat(counts)[row] = e
    <3> HIDE DEF owns
    <3>1. ~(Repeat(counts)[row] < e) /\ ~(e < Repeat(counts)[row])
      BY <1>5, <2>2, <2>3
    <3> QED BY <2>2, <2>3, <3>1
  <2> HIDE DEF owns
  <2> QED BY <2>2, <2>3
<1>7. Repeat(counts) \in [1..Total(counts) -> 1..n]
  <2>1. DOMAIN Repeat(counts) = 1..Total(counts) /\ Repeat(counts) = [row \in 1..Total(counts) |-> Repeat(counts)[row]]
    BY DEF Repeat
  <2> QED BY <1>6, <2>1
<1>8. ASSUME NEW e \in 1..n PROVE Cardinality({row \in 1..Total(counts) : Repeat(counts)[row] = e}) = counts[e]
  <2>1. e - 1 \in 0..n /\ e \in 0..n
    OBVIOUS
  <2>2. sums[e - 1] \in Nat /\ sums[e] \in Nat /\ sums[e] = sums[e - 1] + counts[e] /\ counts[e] \in Nat /\ sums[e] <= sums[n]
    BY <1>2, <1>3, <2>1
  <2>3. {row \in 1..Total(counts) : Repeat(counts)[row] = e} = (sums[e - 1] + 1)..sums[e]
    <3>1. {row \in 1..Total(counts) : Repeat(counts)[row] = e} = {row \in 1..Total(counts) : owns(e, row)}
      <4> HIDE DEF owns
      <4> QED BY <1>6
    <3>2. {row \in 1..sums[n] : owns(e, row)} = (sums[e - 1] + 1)..sums[e]
      <4>1. sums[n] \in Nat
        BY <1>2
      <4> QED BY <2>2, <4>1
    <3> QED BY <1>2, <3>1, <3>2
  <2>4. PICK a \in Int, b \in Int : a = sums[e - 1] + 1 /\ b = sums[e] /\ b - a + 1 = counts[e] /\ a <= b + 1
    BY <2>2
  <2>5. Cardinality(a..b) = counts[e]
    <3>1. Cardinality(a..b) = IF a > b THEN 0 ELSE b - a + 1
      BY FS_Interval
    <3>2. a > b => b - a + 1 = 0
      BY <2>4
    <3> QED BY <2>4, <3>1, <3>2
  <2> QED BY <2>3, <2>4, <2>5
<1> QED BY <1>7, <1>8

(* The tables above one, step by step.                                     *)
Above(steps, s, t, n) ==
  /\ steps \in [0..n -> Range(steps)] /\ steps[0] = {t}
  /\ \A k \in 1..n : steps[k] = WithParents(s, steps[k - 1])

(* The tables above a table, step by step; a digest has their rows.        *)
LEMMA AboveSteps ==
  ASSUME NEW s, NEW t, NEW n \in Nat, Len(s.roles) = n
  PROVE  \E steps : (\A rows : Digest(s, rows, t) = {<<u, rows[u]>> : u \in steps[n]}) /\ Above(steps, s, t, n)
<1> DEFINE Start == {t}
           Following(k, before) == WithParents(s, before)
           Solves(f, m) == f = [k \in 0..m |-> IF k = 0 THEN Start ELSE Following(k, f[k - 1])]
           steps == CHOOSE f : Solves(f, n)
<1>1. (\A rows : Digest(s, rows, t) = {<<u, rows[u]>> : u \in steps[n]})
  BY DEF Digest
<1> HIDE DEF Start, Following
<1>2. \A m \in Nat : \E f : Solves(f, m)
  <2> DEFINE Bad == {m \in Nat : ~\E f : Solves(f, m)}
  <2> SUFFICES ASSUME Bad # {} PROVE FALSE
    OBVIOUS
  <2>1. PICK m \in Bad : \A k \in Bad : m <= k
    <3>1. Bad \in SUBSET Nat
      OBVIOUS
    <3> HIDE DEF Bad
    <3> QED BY <3>1, LeastNatural
  <2>2. m # 0
    <3>1. Solves([k \in 0..0 |-> Start], 0)
      OBVIOUS
    <3> QED BY <2>1, <3>1
  <2>3. \E f : Solves(f, m - 1)
    <3>1. m - 1 \in Nat /\ ~(m <= m - 1)
      BY <2>1, <2>2
    <3> HIDE DEF Solves
    <3> QED BY <2>1, <3>1
  <2>4. PICK f : Solves(f, m - 1)
    BY <2>3
  <2> DEFINE g == [k \in 0..m |-> IF k < m THEN f[k] ELSE Following(m, f[m - 1])]
  <2>5. Solves(g, m)
    <3>1. \A k \in 0..(m - 1) : g[k] = f[k]
      BY <2>1, <2>2
    <3>2. \A k \in 0..m : g[k] = IF k = 0 THEN Start ELSE Following(k, g[k - 1])
      BY <2>1, <2>2, <2>4, <3>1
    <3> QED BY <3>2
  <2> HIDE DEF g, Solves
  <2> QED BY <2>1, <2>5
<1>3. Solves(steps, n)
  <2> HIDE DEF Solves
  <2> QED BY <1>2
<1> HIDE DEF steps
<1>4. steps[0] = Start /\ \A k \in 1..n : steps[k] = Following(k, steps[k - 1])
  BY <1>3
<1>5. steps \in [0..n -> Range(steps)]
  <2> DEFINE value == [k \in 0..n |-> IF k = 0 THEN Start ELSE Following(k, steps[k - 1])]
  <2>1. steps = value
    BY <1>3
  <2>2. value \in [DOMAIN value -> {value[x] : x \in DOMAIN value}] /\ DOMAIN value = 0..n
    OBVIOUS
  <2> HIDE DEF value
  <2> QED BY <2>1, <2>2 DEF Range
<1> QED BY <1>1, <1>4, <1>5 DEF Start, Following, Above

(* The events of an entity are drawn from entities and lookups only.       *)
LEMMA DigestSame ==
  ASSUME NEW s, BlueprintAccepted(s), NEW t \in TablesOf(s), s.roles[t] = "entity", NEW rows, NEW other,
         \A u \in TablesOf(s) \ Derived(s) : rows[u] = other[u]
  PROVE  Digest(s, rows, t) = Digest(s, other, t)
<1> DEFINE n == Len(s.roles)
           Base == TablesOf(s) \ Derived(s)
<1>1. n \in Nat
  BY DEF BlueprintAccepted
<1>2. PICK steps : (\A r : Digest(s, r, t) = {<<u, r[u]>> : u \in steps[n]}) /\ Above(steps, s, t, n)
  BY <1>1, AboveSteps
<1> HIDE DEF n
<1>3. steps[0] = {t} /\ \A k \in 1..n : steps[k] = WithParents(s, steps[k - 1])
  BY <1>2 DEF Above
<1>4. t \in Base
  BY DEF Derived
<1>5. ASSUME NEW tables, tables \subseteq Base PROVE WithParents(s, tables) \subseteq Base
  <2>1. ASSUME NEW i \in KeysOf(s), ChildOf(s, i) \in tables PROVE ParentOf(s, i) \in Base
    <3>1. ParentOf(s, i) \in TablesOf(s) /\ ChildOf(s, i) \in TablesOf(s)
      BY SchemaBasics
    <3>2. <<s.roles[ParentOf(s, i)], s.roles[ChildOf(s, i)]>> \in AllowedEdges
      BY DEF BlueprintAccepted, EdgeRoles
    <3>3. s.roles[ChildOf(s, i)] \in {"entity", "lookup"}
      BY <1>5, <2>1, <3>1 DEF Derived
    <3>4. s.roles[ParentOf(s, i)] \in {"entity", "lookup"}
      <4> DEFINE from == s.roles[ParentOf(s, i)]
                 to == s.roles[ChildOf(s, i)]
      <4>1. <<from, to>> \in AllowedEdges /\ to \in {"entity", "lookup"}
        BY <3>2, <3>3
      <4> HIDE DEF from, to
      <4>2. from \in {"entity", "lookup"}
        BY <4>1 DEF AllowedEdges, AuxiliaryEdges, StructuralEdges
      <4> QED BY <4>2 DEF from
    <3> QED BY <3>1, <3>4 DEF Derived
  <2> QED BY <1>5, <2>1 DEF WithParents
<1> HIDE DEF Base
<1>6. \A k \in 0..n : steps[k] \subseteq Base
  <2> DEFINE Bad == {k \in 0..n : ~(steps[k] \subseteq Base)}
  <2> SUFFICES ASSUME Bad # {} PROVE FALSE
    OBVIOUS
  <2>1. PICK k \in Bad : \A x \in Bad : k <= x
    <3>1. Bad \in SUBSET Nat
      BY <1>1
    <3> HIDE DEF Bad
    <3> QED BY <3>1, LeastNatural
  <2>2. k # 0
    BY <1>3, <1>4, <2>1
  <2>3. k \in 1..n /\ k - 1 \in 0..n /\ ~(k <= k - 1)
    BY <1>1, <2>1, <2>2
  <2>4. steps[k - 1] \subseteq Base
    BY <2>1, <2>3
  <2>5. steps[k] \subseteq Base
    BY <1>3, <1>5, <2>3, <2>4
  <2> QED BY <2>1, <2>5
<1>7. \A u \in steps[n] : rows[u] = other[u]
  BY <1>1, <1>6 DEF Base
<1>8. {<<u, rows[u]>> : u \in steps[n]} = {<<u, other[u]>> : u \in steps[n]}
  BY <1>7
<1> QED BY <1>2, <1>8

-----------------------------------------------------------------------------
(* Resolved plans.                                                         *)

(* The populations of a plan are of the kind of its prior.                 *)
Populated(s, pr, p) ==
  /\ Static(pr) => \A m \in p.populations : Drafted(s, m)
  /\ ~Static(pr) => \A m \in p.populations : Mechanism(s, m) /\ m.parent \in pr.states

(* What a resolved population stores is still true of the plan.            *)
Resolved(s, p) ==
  \A m \in Temporal(p) :
    m.table \in DOMAIN p.counts =>
      /\ p.counts[m.table].of \in CountDraws(p.rows[m.parent]) /\ Total(p.counts[m.table].of) = p.rows[m.table]
      /\ p.counts[m.table].digest = Digest(s, p.rows, m.parent)

WithRowsOnly(p, rows) == [p EXCEPT !.rows = rows]

(* A plan with other rows.                                                 *)
LEMMA RowsOnlySet ==
  ASSUME NEW s, NEW p, Planned(s, p), NEW rows \in [TablesOf(s) -> Nat \ {0}],
         NEW q, q = WithRowsOnly(p, rows)
  PROVE  /\ Planned(s, q) /\ q.rows = rows /\ q.counts = p.counts /\ q.populations = p.populations
         /\ q.states = p.states /\ q.trajectories = p.trajectories /\ q.columns = p.columns
BY DEF Planned, PlanFields, WithRowsOnly

(* Where a population is: a table of the schema, hanging on another.       *)
LEMMA PopulatedTables ==
  ASSUME NEW s, NEW pr, NEW p, Populated(s, pr, p), NEW m \in p.populations
  PROVE  /\ m.table \in TablesOf(s) /\ m.parent \in TablesOf(s)
         /\ m \in Temporal(p) =>
              /\ Mechanism(s, m) /\ m.parent \in pr.states /\ ~Static(pr)
              /\ m.table \in Derived(s) /\ m.parent \notin Derived(s) /\ s.roles[m.parent] = "entity"
<1>1. CASE Static(pr)
  <2>1. Drafted(s, m)
    BY <1>1 DEF Populated
  <2> QED BY <2>1 DEF Drafted, Temporal
<1>2. CASE ~Static(pr)
  <2>1. Mechanism(s, m) /\ m.parent \in pr.states
    BY <1>2 DEF Populated
  <2>2. PICK i \in KeysOf(s) :
          /\ m = [table |-> ChildOf(s, i), parent |-> ParentOf(s, i), source |-> "temporal_event", key |-> i]
          /\ ChildOf(s, i) \in TablesOf(s) /\ s.roles[ChildOf(s, i)] = "event"
          /\ ParentOf(s, i) \in TablesOf(s) /\ s.roles[ParentOf(s, i)] = "entity"
    BY <2>1 DEF Mechanism
  <2>3. m.table = ChildOf(s, i) /\ m.parent = ParentOf(s, i)
    BY <2>2
  <2> QED BY <1>2, <2>1, <2>2, <2>3 DEF Derived
<1> QED BY <1>1, <1>2

(* Two processes of one table are one.                                     *)
LEMMA MechanismOfTable ==
  ASSUME NEW s, NEW m, Mechanism(s, m), NEW o, Mechanism(s, o)
  PROVE  /\ m.table = o.table => m = o
         /\ m.key = o.key => m = o
         /\ m.key \in KeysOf(s) /\ ChildOf(s, m.key) = m.table /\ ParentOf(s, m.key) = m.parent
         /\ s.roles[m.table] = "event" /\ Structural(s, m.table) = {m.key}
<1>1. PICK i \in KeysOf(s) :
        /\ m = [table |-> ChildOf(s, i), parent |-> ParentOf(s, i), source |-> "temporal_event", key |-> i]
        /\ Structural(s, ChildOf(s, i)) = {i} /\ s.roles[ChildOf(s, i)] = "event"
  BY DEF Mechanism
<1>2. PICK j \in KeysOf(s) :
        /\ o = [table |-> ChildOf(s, j), parent |-> ParentOf(s, j), source |-> "temporal_event", key |-> j]
        /\ Structural(s, ChildOf(s, j)) = {j}
  BY DEF Mechanism
<1>3. m.table = ChildOf(s, i) /\ m.parent = ParentOf(s, i) /\ m.key = i /\ o.table = ChildOf(s, j) /\ o.key = j
  BY <1>1, <1>2
<1>4. m.table = o.table => i = j
  BY <1>1, <1>2, <1>3
<1> QED BY <1>1, <1>2, <1>3, <1>4

(* One more population is resolved, and the others stay so.                *)
LEMMA ResolveFacts ==
  ASSUME NEW s, BlueprintAccepted(s), NEW pr, NEW p, Planned(s, p), Populated(s, pr, p), Resolved(s, p),
         NEW m \in Unresolved(p), NEW counts \in CountDraws(p.rows[m.parent]), NEW rows,
         PopulationIssues(Total(counts), rows) = {}, NEW q, q = ResolveOne(s, p, m, counts)
  PROVE  /\ Planned(s, q) /\ Populated(s, pr, q) /\ Resolved(s, q) /\ q.populations = p.populations
         /\ DOMAIN q.counts = DOMAIN p.counts \cup {m.table} /\ m.table \notin DOMAIN p.counts
<1>1. m \in p.populations /\ m.table \notin DOMAIN p.counts /\ (Temporal(p) # {} => m \in Temporal(p))
  BY DEF Unresolved, Temporal
<1>2. m.table \in TablesOf(s) /\ m.parent \in TablesOf(s)
  BY <1>1, PopulatedTables
<1>3. p.rows \in [TablesOf(s) -> Nat \ {0}]
  BY DEF Planned
<1>4. Total(counts) \in Nat \ {0}
  <2>1. p.rows[m.parent] \in Nat
    BY <1>2, <1>3
  <2>2. Total(counts) \in Nat
    BY <2>1, TotalNat
  <2>3. ~(Total(counts) < 1)
    BY DEF PopulationIssues
  <2> QED BY <2>2, <2>3
<1> DEFINE new == [p.rows EXCEPT ![m.table] = Total(counts)]
           entry == [of |-> counts, digest |-> Digest(s, p.rows, m.parent)]
           stored == Joined(p.counts, Single(m.table, entry))
<1>5. q = WithRowsSet(p, new, stored)
  BY DEF ResolveOne, ResolvedRows, WithRowsSet
<1>6. new \in [TablesOf(s) -> Nat \ {0}] /\ new[m.table] = Total(counts) /\ \A u \in TablesOf(s) \ {m.table} : new[u] = p.rows[u]
  BY <1>2, <1>3, <1>4
<1>7. /\ DOMAIN stored = DOMAIN p.counts \cup {m.table} /\ stored[m.table] = entry
      /\ \A x \in DOMAIN p.counts \ {m.table} : stored[x] = p.counts[x]
  <2>1. PICK f, x, e : f = p.counts /\ x = m.table /\ e = entry
    OBVIOUS
  <2> HIDE DEF entry
  <2>2. stored = Joined(f, Single(x, e))
    BY <2>1
  <2> HIDE DEF stored
  <2>3. /\ DOMAIN stored = DOMAIN f \cup {x} /\ stored[x] = e /\ \A y \in DOMAIN f \ {x} : stored[y] = f[y]
    BY <2>2 DEF Joined, Single
  <2> QED BY <2>1, <2>3
<1>8. entry.of = counts /\ entry.digest = Digest(s, p.rows, m.parent)
  OBVIOUS
<1> HIDE DEF new, stored, entry
<1>9. Planned(s, q) /\ q.rows = new /\ q.counts = stored /\ q.populations = p.populations
  BY <1>5, <1>6, RowsSet
<1>10. Populated(s, pr, q) /\ Temporal(q) = Temporal(p)
  BY <1>9 DEF Populated, Temporal
<1>11. ASSUME NEW o \in Temporal(q), o.table \in DOMAIN q.counts
       PROVE  /\ q.counts[o.table].of \in CountDraws(q.rows[o.parent]) /\ Total(q.counts[o.table].of) = q.rows[o.table]
              /\ q.counts[o.table].digest = Digest(s, q.rows, o.parent)
  <2>1. o \in Temporal(p) /\ o \in p.populations /\ m \in Temporal(p)
    BY <1>1, <1>10, <1>11 DEF Temporal
  <2>2. /\ Mechanism(s, o) /\ Mechanism(s, m) /\ s.roles[o.parent] = "entity" /\ o.parent \in TablesOf(s) /\ o.table \in TablesOf(s)
        /\ m.table \in Derived(s) /\ o.parent \notin Derived(s)
    BY <1>1, <2>1, PopulatedTables
  <2>3. \A u \in TablesOf(s) \ Derived(s) : p.rows[u] = new[u]
    BY <1>6, <2>2
  <2>4. Digest(s, p.rows, o.parent) = Digest(s, new, o.parent) /\ new[o.parent] = p.rows[o.parent]
    BY <2>2, <2>3, DigestSame
  <2>5. CASE o.table = m.table
    <3>1. o = m
      BY <2>2, <2>5, MechanismOfTable
    <3> QED BY <1>6, <1>7, <1>8, <1>9, <2>4, <3>1
  <2>6. CASE o.table # m.table
    <3>1. o.table \in DOMAIN p.counts /\ stored[o.table] = p.counts[o.table] /\ new[o.table] = p.rows[o.table]
      BY <1>6, <1>7, <1>9, <1>11, <2>2, <2>6
    <3>2. /\ p.counts[o.table].of \in CountDraws(p.rows[o.parent]) /\ Total(p.counts[o.table].of) = p.rows[o.table]
          /\ p.counts[o.table].digest = Digest(s, p.rows, o.parent)
      BY <2>1, <3>1 DEF Resolved
    <3> QED BY <1>9, <2>4, <3>1, <3>2
  <2> QED BY <2>5, <2>6
<1>12. Resolved(s, q)
  BY <1>11 DEF Resolved
<1> QED BY <1>1, <1>7, <1>9, <1>10, <1>12

(* What is replanned below the populations leaves them as they were.       *)
LEMMA FinalFacts ==
  ASSUME NEW s, BlueprintAccepted(s), NEW pr, NEW p, Planned(s, p), Populated(s, pr, p), Resolved(s, p), NEW q, q = FinalPlan(s, p)
  PROVE  /\ Planned(s, q) /\ Populated(s, pr, q) /\ Resolved(s, q) /\ q.populations = p.populations /\ q.counts = p.counts
<1>1. CASE Temporal(p) = {}
  BY <1>1 DEF FinalPlan
<1>2. CASE Temporal(p) # {}
  <2> DEFINE changed == {m.table : m \in Temporal(p)}
  <2>1. PICK new : new = Replanned(s, p, changed)
    OBVIOUS
  <2>2. q = WithRowsOnly(p, new)
    BY <1>2, <2>1 DEF FinalPlan, WithRowsOnly
  <2>3. \A m \in Temporal(p) : m \in p.populations /\ m.table \in Derived(s)
    BY PopulatedTables DEF Temporal
  <2>4. changed \in SUBSET Derived(s)
    BY <2>3
  <2>5. p.order = GenerationOrder(s) /\ p.factor \in [TablesOf(s) -> Nat] /\ p.rows \in [TablesOf(s) -> Nat \ {0}]
    BY DEF Planned
  <2>6. /\ new \in [TablesOf(s) -> Nat \ {0}]
        /\ \A u \in TablesOf(s) : u \in changed \/ u \notin Derived(s) => new[u] = p.rows[u]
    <3> HIDE DEF changed
    <3> QED BY <2>1, <2>4, <2>5, ReplannedFacts
  <2>7. Planned(s, q) /\ q.rows = new /\ q.counts = p.counts /\ q.populations = p.populations
    BY <2>2, <2>6, RowsOnlySet
  <2>8. Populated(s, pr, q) /\ Temporal(q) = Temporal(p)
    BY <2>7 DEF Populated, Temporal
  <2>9. ASSUME NEW o \in Temporal(q), o.table \in DOMAIN q.counts
        PROVE  /\ q.counts[o.table].of \in CountDraws(q.rows[o.parent]) /\ Total(q.counts[o.table].of) = q.rows[o.table]
               /\ q.counts[o.table].digest = Digest(s, q.rows, o.parent)
    <3>1. o \in Temporal(p) /\ o \in p.populations /\ o.table \in changed
      BY <2>8, <2>9 DEF Temporal
    <3>2. s.roles[o.parent] = "entity" /\ o.parent \in TablesOf(s) /\ o.table \in TablesOf(s) /\ o.parent \notin Derived(s)
      BY <3>1, PopulatedTables
    <3>3. \A u \in TablesOf(s) \ Derived(s) : p.rows[u] = new[u]
      BY <2>6
    <3>4. Digest(s, p.rows, o.parent) = Digest(s, new, o.parent) /\ new[o.parent] = p.rows[o.parent]
      BY <3>2, <3>3, DigestSame
    <3>5. new[o.table] = p.rows[o.table]
      BY <2>6, <3>1, <3>2
    <3>6. /\ p.counts[o.table].of \in CountDraws(p.rows[o.parent]) /\ Total(p.counts[o.table].of) = p.rows[o.table]
          /\ p.counts[o.table].digest = Digest(s, p.rows, o.parent)
      BY <2>7, <2>9, <3>1 DEF Resolved
    <3> QED BY <2>7, <3>4, <3>5, <3>6
  <2> QED BY <2>7, <2>8, <2>9 DEF Resolved
<1> QED BY <1>1, <1>2

-----------------------------------------------------------------------------
(* Overlays.                                                               *)

(* An overlaid table has the keys that were counted, and fits still.       *)
LEMMA OverlaidFacts ==
  ASSUME NEW s, BlueprintAccepted(s), NEW p, Planned(s, p), NEW d, Fits(s, p, d), NEW m, Mechanism(s, m),
         m.table \in DOMAIN d.rows, NEW counts \in CountDraws(p.rows[m.parent]), Total(counts) = d.rows[m.table],
         NEW f \in Overlaid(s, p, d, m, counts)
  PROVE  /\ Fits(s, p, f) /\ f.rows = d.rows /\ f.key[m.key] = Repeat(counts)
         /\ \A i \in DOMAIN d.key \ {m.key} : f.key[i] = d.key[i]
<1>1. /\ DOMAIN d = DbFields
      /\ \A u \in DOMAIN d.rows : u \in TablesOf(s) /\ d.rows[u] = p.rows[u]
      /\ DOMAIN d.key = {i \in KeysOf(s) : ChildOf(s, i) \in DOMAIN d.rows} /\ \A i \in DOMAIN d.key : KeyFits(s, p, i, d.key[i])
      /\ DOMAIN d.time = {u \in DOMAIN d.rows : Timed(s, u)}
      /\ CalendarEnd >= 2 => \A u \in DOMAIN d.time : d.time[u] \in [1..p.rows[u] -> 0..CalendarEnd]
      /\ DOMAIN d.missing = UNION {Nullable(s, u) : u \in DOMAIN d.rows}
      /\ \A u \in DOMAIN d.rows : \A c \in Nullable(s, u) : d.missing[c] \in MissingMasks(p.rows[u])
      /\ \A i \in KeysOf(s) : ChildOf(s, i) \in DOMAIN d.rows => ParentOf(s, i) \in DOMAIN d.rows
      /\ d.duplicate = {} /\ d.rows = [u \in DOMAIN d.rows |-> d.rows[u]]
  BY DEF Fits
<1>2. /\ m.key \in KeysOf(s) /\ ChildOf(s, m.key) = m.table /\ ParentOf(s, m.key) = m.parent
  BY MechanismOfTable
<1>3. PICK times \in [1..d.rows[m.table] -> Ticks], missing \in FeatureChoices(s, p, m.table) :
        f = AddEvents(s, d, m, counts, times, missing)
  BY DEF Overlaid
<1> DEFINE owners == Repeat(counts)
           gaps == [c \in DOMAIN d.missing |-> IF c \in Nullable(s, m.table) THEN missing[c] ELSE d.missing[c]]
           keys == [d.key EXCEPT ![m.key] = owners]
           moments == [d.time EXCEPT ![m.table] = times]
<1>4. DOMAIN f = DbFields /\ f.rows = d.rows /\ f.key = keys /\ f.time = moments /\ f.missing = gaps /\ f.duplicate = {}
  <2>1. f = [d EXCEPT !.key = keys, !.time = moments, !.missing = gaps]
    BY <1>3 DEF AddEvents
  <2> HIDE DEF keys, moments, gaps
  <2> QED BY <1>1, <2>1 DEF DbFields
<1>5. p.rows[m.parent] \in Nat \ {0} /\ p.rows[m.table] \in Nat \ {0}
  <2>1. m.parent \in TablesOf(s) /\ m.table \in TablesOf(s)
    BY <1>2, SchemaBasics
  <2> QED BY <2>1 DEF Planned
<1>6. KeyFits(s, p, m.key, owners)
  <2>1. PICK n \in Nat : n = p.rows[m.parent]
    BY <1>5
  <2>2. counts \in [1..n -> Nat]
    BY <2>1, LimitsGiven DEF CountDraws
  <2>3. owners \in [1..Total(counts) -> 1..n]
    BY <2>2, RepeatFacts
  <2>4. Total(counts) = p.rows[m.table]
    BY <1>1
  <2> HIDE DEF owners
  <2>5. owners \in [1..p.rows[m.table] -> 0..n] /\ \A row \in 1..p.rows[m.table] : owners[row] # 0
    BY <2>1, <2>3, <2>4
  <2> QED BY <1>2, <2>1, <2>5 DEF KeyFits
<1>7. DOMAIN f.key = DOMAIN d.key /\ m.key \in DOMAIN d.key /\ f.key[m.key] = owners /\ \A i \in DOMAIN d.key \ {m.key} : f.key[i] = d.key[i]
  <2>1. m.key \in DOMAIN d.key
    BY <1>1, <1>2
  <2> HIDE DEF owners
  <2> QED BY <1>4, <2>1
<1>8. DOMAIN f.time = DOMAIN d.time
      /\ \A u \in DOMAIN d.time : f.time[u] = IF u = m.table THEN times ELSE d.time[u]
  BY <1>4
<1>9. CalendarEnd >= 2 => \A u \in DOMAIN f.time : f.time[u] \in [1..p.rows[u] -> 0..CalendarEnd]
  <2>1. times \in [1..p.rows[m.table] -> 0..CalendarEnd]
    <3>1. Ticks \subseteq 0..CalendarEnd
      BY TicksGiven
    <3>2. d.rows[m.table] = p.rows[m.table]
      BY <1>1
    <3> QED BY <3>1, <3>2
  <2> QED BY <1>1, <1>8, <2>1
<1>10. DOMAIN f.missing = DOMAIN d.missing
       /\ \A c \in DOMAIN d.missing : f.missing[c] = IF c \in Nullable(s, m.table) THEN missing[c] ELSE d.missing[c]
  BY <1>4
<1>11. \A u, v, c : c \in Nullable(s, u) /\ c \in Nullable(s, v) => u = v
  BY DEF Nullable, Features, ColumnsOfKind
<1>12. missing \in [Nullable(s, m.table) -> MissingMasks(p.rows[m.table])]
  BY DEF FeatureChoices
<1>13. ASSUME NEW u \in DOMAIN f.rows, NEW c \in Nullable(s, u) PROVE f.missing[c] \in MissingMasks(p.rows[u])
  <2>1. c \in DOMAIN d.missing /\ u \in DOMAIN d.rows
    BY <1>1, <1>4
  <2>2. CASE u = m.table
    BY <1>10, <1>12, <2>1, <2>2
  <2>3. CASE u # m.table
    <3>1. c \notin Nullable(s, m.table)
      BY <1>11, <2>3
    <3> QED BY <1>1, <1>10, <2>1, <3>1
  <2> QED BY <2>2, <2>3
<1> HIDE DEF owners, gaps, keys, moments
<1>14. \A i \in DOMAIN f.key : KeyFits(s, p, i, f.key[i])
  BY <1>1, <1>6, <1>7
<1>15. Fits(s, p, f)
  BY <1>1, <1>4, <1>7, <1>8, <1>9, <1>10, <1>13, <1>14 DEF Fits
<1> QED BY <1>4, <1>7, <1>15 DEF owners

Overwritten(d, n, e) ==
  /\ DOMAIN e = DbFields /\ e.rows = d.rows /\ e.key = d.key /\ e.time = d.time /\ e.duplicate \subseteq n.overwritten
  /\ DOMAIN e.missing = DOMAIN d.missing
  /\ \A c \in DOMAIN d.missing : e.missing[c] = IF c \in n.overwritten THEN {} ELSE d.missing[c]

(* Overwriting changes columns that are overwritten.                       *)
LEMMA OverwriteFacts ==
  ASSUME NEW s, NEW d, DOMAIN d = DbFields, NEW n, NEW e \in Overwrite(s, d, n)
  PROVE  Overwritten(d, n, e)
<1> DEFINE gaps == [c \in DOMAIN d.missing |-> IF c \in n.overwritten THEN {} ELSE d.missing[c]]
<1>1. PICK repeated : repeated \subseteq n.overwritten /\ e = [d EXCEPT !.missing = gaps, !.duplicate = repeated]
  BY DEF Overwrite
<1>2. DOMAIN e = DbFields /\ e.rows = d.rows /\ e.key = d.key /\ e.time = d.time /\ e.duplicate = repeated /\ e.missing = gaps
  <2> HIDE DEF gaps
  <2> QED BY <1>1 DEF DbFields
<1> QED BY <1>1, <1>2 DEF Overwritten

Masked(d, n, e) ==
  /\ DOMAIN e = DbFields /\ e.rows = d.rows /\ e.key = d.key /\ e.time = d.time /\ e.duplicate = d.duplicate
  /\ DOMAIN e.missing = DOMAIN d.missing
  /\ \A c \in DOMAIN d.missing \ n.masked : e.missing[c] = d.missing[c]

(* Masking changes columns that are masked.                                *)
LEMMA MaskFacts ==
  ASSUME NEW s, NEW d, DOMAIN d = DbFields, NEW n, NEW e \in Mask(s, d, n)
  PROVE  Masked(d, n, e)
<1>1. PICK f : e = [d EXCEPT !.missing = [c \in DOMAIN d.missing |-> IF c \in n.masked THEN d.missing[c] \cup f[c] ELSE d.missing[c]]]
  BY DEF Mask
<1> DEFINE gaps == [c \in DOMAIN d.missing |-> IF c \in n.masked THEN d.missing[c] \cup f[c] ELSE d.missing[c]]
<1>2. DOMAIN e = DbFields /\ e.rows = d.rows /\ e.key = d.key /\ e.time = d.time /\ e.duplicate = d.duplicate /\ e.missing = gaps
  <2>1. e = [d EXCEPT !.missing = gaps]
    BY <1>1
  <2> HIDE DEF gaps
  <2> QED BY <2>1 DEF DbFields
<1> QED BY <1>2 DEF Masked

Distracted(s, d, n, e) ==
  /\ DOMAIN e = DbFields /\ e.rows = d.rows /\ e.time = d.time /\ e.missing = d.missing /\ e.duplicate = d.duplicate
  /\ DOMAIN e.key = DOMAIN d.key \cup n.distracted
  /\ \A i \in n.distracted : e.key[i] \in Redraws(s, d, i)
  /\ \A i \in DOMAIN d.key \ n.distracted : e.key[i] = d.key[i]

(* Distracting changes keys that are distracted.                           *)
LEMMA DistractFacts ==
  ASSUME NEW s, NEW d, DOMAIN d = DbFields, NEW n, NEW e \in Distract(s, d, n)
  PROVE  Distracted(s, d, n, e)
<1> DEFINE choices == [i \in n.distracted |-> Redraws(s, d, i)]
<1>1. PICK redrawn \in EachOf(choices) : e = [d EXCEPT !.key = Joined(d.key, redrawn)]
  BY DEF Distract
<1>2. DOMAIN choices = n.distracted /\ \A i \in n.distracted : choices[i] = Redraws(s, d, i)
  OBVIOUS
<1> HIDE DEF choices
<1>3. DOMAIN redrawn = n.distracted /\ \A i \in n.distracted : redrawn[i] \in Redraws(s, d, i)
  BY <1>2, EachOfFacts
<1>4. PICK keys : keys = Joined(d.key, redrawn)
  OBVIOUS
<1>5. DOMAIN e = DbFields /\ e.rows = d.rows /\ e.key = keys /\ e.time = d.time /\ e.duplicate = d.duplicate /\ e.missing = d.missing
  BY <1>1, <1>4 DEF DbFields
<1>6. /\ DOMAIN keys = DOMAIN d.key \cup n.distracted
      /\ \A i \in n.distracted : keys[i] \in Redraws(s, d, i)
      /\ \A i \in DOMAIN d.key \ n.distracted : keys[i] = d.key[i]
  BY <1>3, <1>4 DEF Joined
<1> QED BY <1>5, <1>6 DEF Distracted

-----------------------------------------------------------------------------
(* The invariant of a run.                                                 *)

Planning == {"draft", "generate", "temporal", "validate"}

(* What a run has planned: the schema of its request, the prior of that    *)
(* schema, and a plan of both; a final plan has all its events counted.    *)
PlansSound ==
  /\ request \in Requests
  /\ stage \notin {"compile", "failed"} => schema \in Compile(request.columns, request.blueprint)
  /\ stage \notin {"compile", "prior", "failed"} => prior \in PriorPlans(schema, request.prior) \cup {NoPrior}
  /\ stage \in Planning => Planned(schema, plan) /\ Populated(schema, prior, plan) /\ Resolved(schema, plan)
  /\ stage \in {"draft", "generate"} => pending = Temporal(plan)
  /\ stage = "temporal" => pending \subseteq Temporal(plan)
  /\ stage \in {"generate", "temporal"} => \A m \in Temporal(plan) : m.table \in DOMAIN plan.counts

(* What it has generated: tables that fit the plan, each after its parents,*)
(* and the events that are overlaid already hang on those they were counted*)
(* for.                                                                    *)
RowsSound ==
  /\ stage = "draft" => db = Empty(schema, plan)
  /\ stage \in {"generate", "temporal"} => Fits(schema, plan, db)
  /\ stage = "temporal" => DOMAIN db.rows = TablesOf(schema)
  /\ stage = "temporal" => \A m \in Temporal(plan) \ pending : db.key[m.key] = Repeat(plan.counts[m.table].of)
  /\ stage = "validate" => db.rows = plan.rows
  /\ "schedule" \notin issues

Sound == PlansSound /\ RowsSound

(* A run starts with nothing planned.                                      *)
LEMMA InitSound == Init => Sound
  BY DEF Init, Sound, PlansSound, RowsSound, Planning

(* The schema of a request is one the compiler accepts.                    *)
LEMMA SchemaFacts ==
  ASSUME PlansSound, stage \notin {"compile", "failed"}
  PROVE  /\ BlueprintAccepted(schema) /\ CompilerConfigAccepted(request.columns) /\ BlueprintAccepted(request.blueprint)
         /\ TablesOf(schema) = TablesOf(request.blueprint) /\ schema.roles = request.blueprint.roles
<1>1. request \in Requests /\ schema \in Compile(request.columns, request.blueprint)
  BY DEF PlansSound
<1>2. BlueprintAccepted(request.blueprint) /\ CompilerConfigAccepted(request.columns)
  BY <1>1, RequestsAccepted
<1> QED BY <1>1, <1>2, CompileFacts

(* A refused attempt leaves the schema and the prior.                      *)
LEMMA RefuseSound ==
  ASSUME Sound, stage \notin {"compile", "prior", "failed"}, NEW reasons, "schedule" \notin reasons,
         Refuse(reasons), UNCHANGED <<request, schema, prior>>
  PROVE  Sound'
<1>1. stage' \in {"plan", "failed"} /\ issues' = reasons
  BY DEF Refuse
<1>2. PlansSound'
  <2>1. /\ request \in Requests /\ schema \in Compile(request.columns, request.blueprint)
        /\ prior \in PriorPlans(schema, request.prior) \cup {NoPrior}
    BY DEF Sound, PlansSound
  <2> QED BY <1>1, <2>1 DEF PlansSound, Planning
<1>3. RowsSound'
  BY <1>1 DEF RowsSound
<1> QED BY <1>2, <1>3 DEF Sound

(* CompileSchema.                                                          *)
LEMMA CompileSound == ASSUME Sound, CompileSchema PROVE Sound'
<1>1. /\ request' = request /\ prior' = prior
      /\ \/ stage' = "prior" /\ schema' \in Compile(request.columns, request.blueprint) /\ issues' = issues
         \/ stage' = "failed" /\ issues' = {"schema"}
  BY DEF CompileSchema
<1>2. PlansSound'
  BY <1>1 DEF Sound, PlansSound, Planning
<1>3. RowsSound'
  BY <1>1 DEF Sound, RowsSound
<1> QED BY <1>2, <1>3 DEF Sound

(* PlanPrior.                                                              *)
LEMMA PriorSound == ASSUME Sound, PlanPrior PROVE Sound'
<1>0. stage = "prior"
  BY DEF PlanPrior
<1>1. /\ request' = request /\ schema' = schema
      /\ \/ stage' = "plan" /\ prior' \in PriorPlans(schema, request.prior) \cup {NoPrior} /\ issues' = issues
         \/ stage' = "failed" /\ issues' \in {{"construction"}, {"prior"}}
  BY DEF PlanPrior
<1>2. PlansSound'
  <2>1. request \in Requests /\ schema \in Compile(request.columns, request.blueprint)
    BY <1>0 DEF Sound, PlansSound
  <2> QED BY <1>1, <2>1 DEF PlansSound, Planning
<1>3. RowsSound'
  BY <1>1 DEF Sound, RowsSound
<1> QED BY <1>2, <1>3 DEF Sound

(* A bound plan has the populations of its prior.                          *)
LEMMA BoundPopulated ==
  ASSUME NEW s, NEW pr, NEW p, Bound(s, pr, p)
  PROVE  Planned(s, p) /\ Populated(s, pr, p) /\ p.counts = << >>
  BY DEF Bound, PartlyBound, Populated, Static

(* PlanInstance: the plan is bound to the prior, and nothing is generated. *)
LEMMA PlanSound == ASSUME Sound, PlanInstance PROVE Sound'
<1>0. /\ stage = "plan" /\ BlueprintAccepted(schema) /\ request \in Requests /\ schema \in Compile(request.columns, request.blueprint)
      /\ prior \in PriorPlans(schema, request.prior) \cup {NoPrior} /\ UNCHANGED <<request, schema, prior>>
  BY SchemaFacts DEF PlanInstance, Sound, PlansSound
<1>1. PICK p \in InstancePlans(schema) : \E o \in Bind(schema, request.prior, p, prior) :
       LET found == IF o.issues # {} THEN o.issues
                    ELSE IF ~PlanConstructs(o.plan) THEN {"construction"} ELSE PlanIssues(schema, o.plan, prior)
       IN IF found # {} THEN Refuse(found)
          ELSE /\ plan' = [o.plan EXCEPT !.columns = {}] /\ pending' = Temporal(o.plan) /\ issues' = {}
               /\ stage' = (IF NeedsDraft(o.plan) THEN "draft" ELSE "generate")
               /\ db' = Empty(schema, o.plan) /\ UNCHANGED attempt
  BY DEF PlanInstance
<1>2. PICK o \in Bind(schema, request.prior, p, prior) :
       LET found == IF o.issues # {} THEN o.issues
                    ELSE IF ~PlanConstructs(o.plan) THEN {"construction"} ELSE PlanIssues(schema, o.plan, prior)
       IN IF found # {} THEN Refuse(found)
          ELSE /\ plan' = [o.plan EXCEPT !.columns = {}] /\ pending' = Temporal(o.plan) /\ issues' = {}
               /\ stage' = (IF NeedsDraft(o.plan) THEN "draft" ELSE "generate")
               /\ db' = Empty(schema, o.plan) /\ UNCHANGED attempt
  BY <1>1
<1> DEFINE found == IF o.issues # {} THEN o.issues
                    ELSE IF ~PlanConstructs(o.plan) THEN {"construction"} ELSE PlanIssues(schema, o.plan, prior)
<1>3. o.issues \subseteq BindingIssues /\ (o.issues = {} => Bound(schema, prior, o.plan))
  <2>1. PriorShaped(schema, prior)
    BY <1>0, PriorFacts
  <2> QED BY <1>0, <2>1, BindFacts
<1>4. CASE found # {}
  <2>1. Refuse(found)
    BY <1>2, <1>4
  <2>2. "schedule" \notin found
    <3>1. "schedule" \notin PlanIssues(schema, o.plan, prior)
      <4>1. PlanIssues(schema, o.plan, prior) \subseteq PlanIssueKinds
        BY DEF PlanIssues
      <4> QED BY <4>1 DEF PlanIssueKinds
    <3>2. "schedule" \notin o.issues
      BY <1>3 DEF BindingIssues
    <3> QED BY <3>1, <3>2
  <2> HIDE DEF found
  <2> QED BY <1>0, <2>1, <2>2, RefuseSound
<1>5. CASE found = {}
  <2>1. o.issues = {}
    BY <1>5
  <2>2. /\ plan' = WithColumns(o.plan, {}) /\ pending' = Temporal(o.plan) /\ issues' = {}
        /\ stage' = (IF NeedsDraft(o.plan) THEN "draft" ELSE "generate") /\ db' = Empty(schema, o.plan)
    BY <1>2, <1>5 DEF WithColumns
  <2>3. Bound(schema, prior, o.plan)
    BY <1>3, <2>1
  <2>4. Planned(schema, o.plan) /\ Populated(schema, prior, o.plan) /\ o.plan.counts = << >>
    BY <2>3, BoundPopulated
  <2>5. Planned(schema, plan') /\ plan'.counts = << >> /\ plan'.populations = o.plan.populations
    BY <2>2, <2>4, ColumnsSet
  <2>6. Populated(schema, prior, plan') /\ Temporal(plan') = Temporal(o.plan) /\ (~NeedsDraft(o.plan) => Temporal(plan') = {})
    BY <2>4, <2>5 DEF Populated, Temporal, NeedsDraft
  <2>7. Resolved(schema, plan')
    BY <2>5, EmptyFunction DEF Resolved
  <2>8. PlansSound'
    BY <1>0, <2>2, <2>5, <2>6, <2>7 DEF PlansSound, Planning
  <2>9. RowsSound'
    <3>1. db' = Empty(schema', plan') /\ Fits(schema', plan', db')
      BY <1>0, <2>2, EmptyFits DEF Empty
    <3> QED BY <2>2, <3>1 DEF RowsSound
  <2> QED BY <2>8, <2>9 DEF Sound
<1> QED BY <1>4, <1>5

(* ResolvePopulation.                                                      *)
LEMMA ResolveSound == ASSUME Sound, ResolvePopulation PROVE Sound'
<1>0. /\ stage = "draft" /\ BlueprintAccepted(schema) /\ UNCHANGED <<request, schema, prior>>
      /\ Planned(schema, plan) /\ Populated(schema, prior, plan) /\ Resolved(schema, plan)
  BY SchemaFacts DEF ResolvePopulation, Sound, PlansSound, Planning
<1>1a. PICK m \in Unresolved(plan) : \E counts \in CountDraws(plan.rows[m.parent]) :
        LET found == PopulationIssues(Total(counts), plan.rows[m.table])
        IN IF found # {} THEN Refuse(found)
           ELSE plan' = ResolveOne(schema, plan, m, counts) /\ UNCHANGED <<stage, db, pending, attempt, issues>>
  BY DEF ResolvePopulation
<1>1. PICK counts \in CountDraws(plan.rows[m.parent]) :
        LET found == PopulationIssues(Total(counts), plan.rows[m.table])
        IN IF found # {} THEN Refuse(found)
           ELSE plan' = ResolveOne(schema, plan, m, counts) /\ UNCHANGED <<stage, db, pending, attempt, issues>>
  BY <1>1a
<1> DEFINE found == PopulationIssues(Total(counts), plan.rows[m.table])
<1>2. CASE found # {}
  <2>1. Refuse(found)
    BY <1>1, <1>2
  <2>2. "schedule" \notin found
    BY DEF PopulationIssues
  <2> HIDE DEF found
  <2> QED BY <1>0, <2>1, <2>2, RefuseSound
<1>3. CASE found = {}
  <2>1. plan' = ResolveOne(schema, plan, m, counts) /\ UNCHANGED <<stage, db, pending, attempt, issues>>
    BY <1>1, <1>3
  <2>2. PICK q : q = ResolveOne(schema, plan, m, counts)
    OBVIOUS
  <2>3. Planned(schema, q) /\ Populated(schema, prior, q) /\ Resolved(schema, q) /\ q.populations = plan.populations
    BY <1>0, <1>3, <2>2, ResolveFacts
  <2>4. plan' = q /\ Temporal(q) = Temporal(plan)
    BY <2>1, <2>2, <2>3 DEF Temporal
  <2>5. PlansSound'
    BY <1>0, <2>1, <2>3, <2>4 DEF Sound, PlansSound, Planning
  <2>6. RowsSound'
    BY <1>0, <2>1 DEF Sound, RowsSound, Empty
  <2> QED BY <2>5, <2>6 DEF Sound
<1> QED BY <1>2, <1>3

(* FinalizePlan: the final plan has its events counted.                    *)
LEMMA FinalizeSound == ASSUME Sound, FinalizePlan PROVE Sound'
<1>0. /\ stage = "draft" /\ BlueprintAccepted(schema) /\ UNCHANGED <<request, schema, prior>> /\ db = Empty(schema, plan)
      /\ Planned(schema, plan) /\ Populated(schema, prior, plan) /\ Resolved(schema, plan) /\ pending = Temporal(plan)
  BY SchemaFacts DEF FinalizePlan, Sound, PlansSound, RowsSound, Planning
<1>1. plan' = FinalPlan(schema, plan) /\ stage' = "generate" /\ UNCHANGED <<db, pending, attempt, issues>> /\ Unresolved(plan) = {}
  BY DEF FinalizePlan
<1>2. PICK q : q = FinalPlan(schema, plan)
  OBVIOUS
<1>3. /\ Planned(schema, q) /\ Populated(schema, prior, q) /\ Resolved(schema, q) /\ q.populations = plan.populations
      /\ q.counts = plan.counts
  BY <1>0, <1>2, FinalFacts
<1>4. plan' = q /\ Temporal(q) = Temporal(plan)
  BY <1>1, <1>2, <1>3 DEF Temporal
<1>5. \A m \in Temporal(q) : m.table \in DOMAIN q.counts
  BY <1>1, <1>3, <1>4 DEF Unresolved
<1>6. PlansSound'
  BY <1>0, <1>1, <1>3, <1>4, <1>5 DEF Sound, PlansSound, Planning
<1>7. RowsSound'
  <2>1. Fits(schema', plan', db')
    BY <1>0, <1>1, EmptyFits DEF Empty
  <2> QED BY <1>1, <2>1 DEF Sound, RowsSound
<1> QED BY <1>6, <1>7 DEF Sound

(* The next table: its parents are generated.                              *)
LEMMA NextTable ==
  ASSUME Sound, stage = "generate", NEW k \in Missing, \A j \in Missing : k <= j
  PROVE  /\ plan.order[k] \in TablesOf(schema) /\ plan.order[k] \notin DOMAIN db.rows
         /\ \A i \in Incoming(schema, plan.order[k]) : ParentOf(schema, i) \in DOMAIN db.rows
         /\ Missing = {k} => DOMAIN db.rows \cup {plan.order[k]} = TablesOf(schema)
<1>1. /\ BlueprintAccepted(schema) /\ Planned(schema, plan) /\ Fits(schema, plan, db)
  BY SchemaFacts DEF Sound, PlansSound, RowsSound, Planning
<1> DEFINE n == Cardinality(TablesOf(schema))
           order == plan.order
<1>2. order = GenerationOrder(schema)
  BY <1>1 DEF Planned
<1>3. /\ n \in Nat /\ order \in [1..n -> TablesOf(schema)]
      /\ \A t \in TablesOf(schema) : \E j \in 1..n : order[j] = t
      /\ \A i, j \in 1..n : schema.ranks[order[i]] < schema.ranks[order[j]] => i < j
  BY <1>1, <1>2, GenerationFacts
<1>4. DOMAIN db.rows \subseteq TablesOf(schema)
  BY <1>1 DEF Fits
<1> HIDE DEF n, order
<1>5. Missing = {j \in 1..n : order[j] \notin DOMAIN db.rows}
  BY <1>3 DEF Missing, order
<1>6. k \in 1..n /\ order[k] \in TablesOf(schema) /\ order[k] \notin DOMAIN db.rows
  BY <1>3, <1>5
<1>7. ASSUME NEW i \in Incoming(schema, order[k]) PROVE ParentOf(schema, i) \in DOMAIN db.rows
  <2>1. /\ i \in KeysOf(schema) /\ ChildOf(schema, i) = order[k] /\ ParentOf(schema, i) \in TablesOf(schema)
        /\ schema.ranks[ParentOf(schema, i)] < schema.ranks[order[k]]
    BY <1>1, <1>7, SchemaBasics DEF Incoming, BlueprintAccepted
  <2>2. PICK j \in 1..n : order[j] = ParentOf(schema, i)
    BY <1>3, <2>1
  <2>3. j < k
    BY <1>3, <1>6, <2>1, <2>2
  <2>4. j \notin Missing
    BY <1>3, <1>6, <2>3
  <2> QED BY <1>5, <2>2, <2>4
<1>8. ASSUME Missing = {k} PROVE DOMAIN db.rows \cup {order[k]} = TablesOf(schema)
  <2>1. ASSUME NEW t \in TablesOf(schema) PROVE t \in DOMAIN db.rows \cup {order[k]}
    <3>1. PICK j \in 1..n : order[j] = t
      BY <1>3
    <3> QED BY <1>5, <1>8, <3>1
  <2> QED BY <1>4, <1>6, <2>1
<1> QED BY <1>6, <1>7, <1>8 DEF order

(* GenerateTable: the next table has its parents.                          *)
LEMMA GenerateSound == ASSUME Sound, GenerateTable PROVE Sound'
<1>0. /\ stage = "generate" /\ BlueprintAccepted(schema) /\ Planned(schema, plan) /\ Fits(schema, plan, db) /\ pending = Temporal(plan)
      /\ UNCHANGED <<request, schema, prior, plan, pending, attempt, issues>>
  BY SchemaFacts DEF GenerateTable, Sound, PlansSound, RowsSound, Planning
<1>1. PICK k \in Missing :
       /\ \A j \in Missing : k <= j
       /\ db' \in WithTable(schema, plan, db, plan.order[k])
       /\ stage' = IF Missing = {k} THEN "temporal" ELSE "generate"
  BY DEF GenerateTable
<1>2. PICK t : t = plan.order[k]
  OBVIOUS
<1>3. /\ t \in TablesOf(schema) /\ t \notin DOMAIN db.rows /\ \A i \in Incoming(schema, t) : ParentOf(schema, i) \in DOMAIN db.rows
      /\ Missing = {k} => DOMAIN db.rows \cup {t} = TablesOf(schema)
  BY <1>0, <1>1, <1>2, NextTable
<1>4. Fits(schema, plan, db') /\ DOMAIN db'.rows = DOMAIN db.rows \cup {t}
  BY <1>0, <1>1, <1>2, <1>3, TableFits
<1>5. PlansSound'
  BY <1>0, <1>1 DEF Sound, PlansSound, Planning
<1>6. RowsSound'
  BY <1>0, <1>1, <1>3, <1>4 DEF Sound, RowsSound
<1> QED BY <1>5, <1>6 DEF Sound

(* The schedule an event table is overlaid with is the one it was counted  *)
(* by.                                                                     *)
LEMMA ScheduleStored ==
  ASSUME Sound, stage = "temporal", NEW m \in pending, NEW counts \in ScheduleCounts(schema, plan, m)
  PROVE  /\ Mechanism(schema, m) /\ m \in Temporal(plan) /\ m.table \in DOMAIN db.rows /\ m.table \in DOMAIN plan.counts
         /\ counts = plan.counts[m.table].of /\ counts \in CountDraws(plan.rows[m.parent]) /\ Total(counts) = db.rows[m.table]
<1>1. /\ BlueprintAccepted(schema) /\ Planned(schema, plan) /\ Fits(schema, plan, db) /\ DOMAIN db.rows = TablesOf(schema)
      /\ m \in Temporal(plan) /\ Populated(schema, prior, plan) /\ Resolved(schema, plan) /\ m.table \in DOMAIN plan.counts
  BY SchemaFacts DEF Sound, PlansSound, RowsSound, Planning
<1>2. m \in plan.populations
  BY <1>1 DEF Temporal
<1>3. m.table \in TablesOf(schema) /\ Mechanism(schema, m)
  BY <1>1, <1>2, PopulatedTables
<1>4. /\ plan.counts[m.table].of \in CountDraws(plan.rows[m.parent]) /\ Total(plan.counts[m.table].of) = plan.rows[m.table]
      /\ plan.counts[m.table].digest = Digest(schema, plan.rows, m.parent)
  BY <1>1 DEF Resolved
<1>5. counts = plan.counts[m.table].of
  BY <1>4 DEF ScheduleCounts
<1>6. db.rows[m.table] = plan.rows[m.table]
  BY <1>1, <1>3 DEF Fits
<1> QED BY <1>1, <1>3, <1>4, <1>5, <1>6

(* OverlayEvents: the keys are those of the stored counts.                 *)
LEMMA OverlaySound == ASSUME Sound, OverlayEvents PROVE Sound'
<1>0. /\ stage = "temporal" /\ BlueprintAccepted(schema) /\ Planned(schema, plan) /\ Fits(schema, plan, db) /\ pending \subseteq Temporal(plan)
      /\ DOMAIN db.rows = TablesOf(schema) /\ Populated(schema, prior, plan)
      /\ \A m \in Temporal(plan) \ pending : db.key[m.key] = Repeat(plan.counts[m.table].of)
      /\ UNCHANGED <<request, schema, prior>>
  BY SchemaFacts DEF OverlayEvents, Sound, PlansSound, RowsSound, Planning
<1>1. PICK m \in pending : \E counts \in ScheduleCounts(schema, plan, m) :
            IF Total(counts) # db.rows[m.table] THEN Refuse({"schedule"})
            ELSE /\ db' \in Overlaid(schema, plan, db, m, counts)
                 /\ pending' = pending \ {m} /\ UNCHANGED <<stage, plan, attempt, issues>>
  BY DEF OverlayEvents
<1>2. PICK counts \in ScheduleCounts(schema, plan, m) :
            IF Total(counts) # db.rows[m.table] THEN Refuse({"schedule"})
            ELSE /\ db' \in Overlaid(schema, plan, db, m, counts)
                 /\ pending' = pending \ {m} /\ UNCHANGED <<stage, plan, attempt, issues>>
  BY <1>1
<1>3. /\ Mechanism(schema, m) /\ m.table \in DOMAIN db.rows /\ counts = plan.counts[m.table].of
      /\ counts \in CountDraws(plan.rows[m.parent]) /\ Total(counts) = db.rows[m.table]
  BY <1>0, ScheduleStored
<1>4. db' \in Overlaid(schema, plan, db, m, counts) /\ pending' = pending \ {m} /\ UNCHANGED <<stage, plan, attempt, issues>>
  BY <1>2, <1>3
<1>5. /\ Fits(schema, plan, db') /\ db'.rows = db.rows /\ db'.key[m.key] = Repeat(counts)
      /\ \A i \in DOMAIN db.key \ {m.key} : db'.key[i] = db.key[i]
  BY <1>0, <1>3, <1>4, OverlaidFacts
<1>6. ASSUME NEW o \in Temporal(plan) \ pending' PROVE db'.key[o.key] = Repeat(plan.counts[o.table].of)
  <2>1. CASE o = m
    BY <1>3, <1>5, <2>1
  <2>2. CASE o # m
    <3>1. o \in Temporal(plan) \ pending /\ o \in plan.populations
      BY <1>4, <1>6, <2>2 DEF Temporal
    <3>2. Mechanism(schema, o)
      BY <1>0, <3>1, PopulatedTables
    <3>3. o.key # m.key /\ o.key \in KeysOf(schema) /\ ChildOf(schema, o.key) \in TablesOf(schema)
      BY <1>0, <1>3, <2>2, <3>2, MechanismOfTable, SchemaBasics
    <3>4. o.key \in DOMAIN db.key
      BY <1>0, <3>3 DEF Fits
    <3> QED BY <1>0, <1>5, <3>1, <3>3, <3>4
  <2> QED BY <2>1, <2>2
<1>7. PlansSound'
  BY <1>0, <1>4 DEF Sound, PlansSound, Planning
<1>8. RowsSound'
  BY <1>0, <1>4, <1>5, <1>6 DEF Sound, RowsSound
<1> QED BY <1>7, <1>8 DEF Sound

(* ApplyNuisance: no overlay changes the number of rows.                   *)
LEMMA NuisanceSound == ASSUME Sound, ApplyNuisance PROVE Sound'
<1>0. /\ stage = "temporal" /\ stage' = "validate" /\ UNCHANGED <<request, schema, prior, plan, pending, attempt, issues>>
      /\ Planned(schema, plan) /\ Fits(schema, plan, db) /\ DOMAIN db.rows = TablesOf(schema)
  BY DEF ApplyNuisance, Sound, PlansSound, RowsSound, Planning
<1>1a. PICK d \in Overwrite(schema, db, Nuisance) : \E e \in Mask(schema, d, Nuisance) : db' \in Distract(schema, e, Nuisance)
  BY DEF ApplyNuisance
<1>1. PICK e \in Mask(schema, d, Nuisance) : db' \in Distract(schema, e, Nuisance)
  BY <1>1a
<1>2. DOMAIN db = DbFields
  BY <1>0 DEF Fits
<1>3. DOMAIN d = DbFields /\ d.rows = db.rows
  <2>1. Overwritten(db, Nuisance, d)
    BY <1>1, <1>2, OverwriteFacts
  <2> QED BY <2>1 DEF Overwritten
<1>4. PICK n, f : n = Nuisance /\ f = db' /\ e \in Mask(schema, d, n) /\ f \in Distract(schema, e, n)
  BY <1>1
<1>4a. DOMAIN e = DbFields /\ e.rows = db.rows
  <2>1. Masked(d, n, e)
    BY <1>3, <1>4, MaskFacts
  <2> QED BY <1>3, <2>1 DEF Masked
<1>5. db'.rows = db.rows
  <2>1. Distracted(schema, e, n, f)
    BY <1>4, <1>4a, DistractFacts
  <2> QED BY <1>4, <1>4a, <2>1 DEF Distracted
<1>6. db.rows = plan.rows
  <2>1. db.rows = [t \in TablesOf(schema) |-> db.rows[t]] /\ plan.rows = [t \in TablesOf(schema) |-> plan.rows[t]]
    <3>1. db.rows = [t \in DOMAIN db.rows |-> db.rows[t]] /\ plan.rows \in [TablesOf(schema) -> Nat \ {0}]
      BY <1>0 DEF Planned, Fits
    <3> QED BY <1>0, <3>1
  <2>2. \A t \in TablesOf(schema) : db.rows[t] = plan.rows[t]
    BY <1>0 DEF Fits
  <2> QED BY <2>1, <2>2
<1>7. PlansSound'
  BY <1>0 DEF Sound, PlansSound, Planning
<1>8. RowsSound'
  BY <1>0, <1>5, <1>6 DEF Sound, RowsSound
<1> QED BY <1>7, <1>8 DEF Sound

(* ValidateDatabase.                                                       *)
LEMMA ValidateSound == ASSUME Sound, ValidateDatabase PROVE Sound'
<1>1. stage = "validate" /\ UNCHANGED <<request, schema, prior>>
  BY DEF ValidateDatabase
<1>2. \/ Refuse(DatabaseIssues(schema, plan, db)) \/ Refuse({"programs"})
      \/ stage' = "done" /\ UNCHANGED <<plan, db, pending, attempt, issues>>
  BY DEF ValidateDatabase
<1>3. "schedule" \notin DatabaseIssues(schema, plan, db)
  BY DEF DatabaseIssues, DatabaseIssueKinds
<1>4. CASE Refuse(DatabaseIssues(schema, plan, db))
  <2>1. PICK found : found = DatabaseIssues(schema, plan, db)
    OBVIOUS
  <2> QED BY <1>1, <1>3, <1>4, <2>1, RefuseSound
<1>5. CASE Refuse({"programs"})
  BY <1>1, <1>5, RefuseSound
<1>6. CASE stage' = "done" /\ UNCHANGED <<plan, db, pending, attempt, issues>>
  <2>1. PlansSound'
    BY <1>1, <1>6 DEF Sound, PlansSound, Planning
  <2>2. RowsSound'
    BY <1>1, <1>6 DEF Sound, RowsSound
  <2> QED BY <2>1, <2>2 DEF Sound
<1> QED BY <1>2, <1>4, <1>5, <1>6

(* Each step of the worker.                                                *)
LEMMA StepSound == Sound /\ [Next]_vars => Sound'
<1>1. ASSUME Sound, UNCHANGED vars PROVE Sound'
  BY <1>1 DEF vars, Sound, PlansSound, RowsSound, Planning
<1> QED BY <1>1, CompileSound, PriorSound, PlanSound, ResolveSound, FinalizeSound, GenerateSound, OverlaySound, NuisanceSound,
           ValidateSound DEF Next, Ended

(* What a run has planned and generated fits together at every stage, for  *)
(* every request: the schema is compiled from its blueprint, the prior and *)
(* the plan are made for it, the counted events add up to the rows of      *)
(* their tables, every generated row has legal keys, times and gaps        *)
(* (_generate_one_database_instance).                                      *)
THEOREM RunSound == Spec => []Sound
  BY InitSound, StepSound, PTL DEF Spec

(* The events a final plan counted for an entity are the rows that hang on *)
(* it.                                                                     *)
THEOREM CountsRealizedHolds == Spec => []CountsRealized
<1>1. ASSUME Sound PROVE CountsRealized
  <2>1. "schedule" \notin issues /\ (stage = "validate" => db.rows = plan.rows)
    BY <1>1 DEF Sound, RowsSound
  <2>2. ASSUME stage = "temporal", NEW m \in Temporal(plan) \ pending, NEW e \in DOMAIN plan.counts[m.table].of
        PROVE  Cardinality({row \in DOMAIN db.key[m.key] : db.key[m.key][row] = e}) = plan.counts[m.table].of[e]
    <3>1. /\ Planned(schema, plan) /\ Populated(schema, prior, plan) /\ Resolved(schema, plan) /\ m.table \in DOMAIN plan.counts
          /\ db.key[m.key] = Repeat(plan.counts[m.table].of)
      BY <1>1, <2>2 DEF Sound, PlansSound, RowsSound, Planning
    <3>2. PICK counts : counts = plan.counts[m.table].of
      OBVIOUS
    <3>3. counts \in CountDraws(plan.rows[m.parent])
      BY <3>1, <3>2 DEF Resolved
    <3>4. plan.rows[m.parent] \in Nat
      <4>1. m \in plan.populations
        BY DEF Temporal
      <4>2. m.parent \in TablesOf(schema)
        BY <3>1, <4>1, PopulatedTables
      <4> QED BY <3>1, <4>2 DEF Planned
    <3>5. PICK n \in Nat : n = plan.rows[m.parent]
      BY <3>4
    <3>6. counts \in [1..n -> Nat]
      BY <3>3, <3>5, LimitsGiven DEF CountDraws
    <3>7. e \in 1..n
      BY <2>2, <3>2, <3>6
    <3>8. DOMAIN Repeat(counts) = 1..Total(counts) /\ Cardinality({row \in 1..Total(counts) : Repeat(counts)[row] = e}) = counts[e]
      BY <3>6, <3>7, RepeatFacts
    <3> QED BY <3>1, <3>2, <3>8
  <2> QED BY <2>1, <2>2 DEF CountsRealized
<1> QED BY <1>1, RunSound, PTL

(* No process replaces the times of a database with a static prior.        *)
LagSound == stage \in {"generate", "temporal"} /\ Static(prior) => Lags(schema, plan, db)

(* Without tables, none precedes its parent.                               *)
LEMMA EmptyLags == ASSUME NEW s, NEW p PROVE Lags(s, p, Empty(s, p))
<1>1. DOMAIN Empty(s, p).rows = {} /\ DOMAIN Empty(s, p).time = {}
  BY EmptyFunction DEF Empty
<1> QED BY <1>1 DEF Lags

(* Each step of the worker keeps the order of lagged rows.                 *)
LEMMA LagStep == ASSUME HeadroomSuffices, Sound, LagSound, [Next]_vars PROVE LagSound'
<1>1. CASE UNCHANGED vars
  BY <1>1 DEF vars, LagSound
<1>2. CASE CompileSchema
  BY <1>2 DEF CompileSchema, LagSound
<1>3. CASE PlanPrior
  <2>1. stage' \in {"plan", "failed"}
    BY <1>3 DEF PlanPrior
  <2> QED BY <2>1 DEF LagSound
<1>4. ASSUME NEW reasons, Refuse(reasons) PROVE LagSound'
  <2>1. stage' \in {"plan", "failed"}
    BY <1>4 DEF Refuse
  <2> QED BY <2>1 DEF LagSound
<1>5. CASE PlanInstance
  <2>1. (\E reasons : Refuse(reasons)) \/ \E p : db' = Empty(schema, p)
    BY <1>5 DEF PlanInstance
  <2>2. ASSUME NEW p, db' = Empty(schema, p) PROVE LagSound'
    <3>1. Lags(schema', plan', db')
      BY <2>2, EmptyLags DEF Empty
    <3> QED BY <3>1 DEF LagSound
  <2> QED BY <1>4, <2>1, <2>2
<1>6. CASE ResolvePopulation
  <2>1. stage = "draft" /\ ((\E reasons : Refuse(reasons)) \/ stage' = stage)
    BY <1>6 DEF ResolvePopulation
  <2>2. CASE stage' = stage
    BY <2>1, <2>2 DEF LagSound
  <2> QED BY <1>4, <2>1, <2>2
<1>7. CASE FinalizePlan
  <2>1. db' = Empty(schema', plan')
    BY <1>7 DEF FinalizePlan, Sound, RowsSound, Empty
  <2> QED BY <2>1, EmptyLags DEF LagSound
<1>8. CASE GenerateTable
  <2>0. /\ stage = "generate" /\ request \in Requests /\ schema \in Compile(request.columns, request.blueprint)
        /\ Planned(schema, plan) /\ Fits(schema, plan, db)
        /\ UNCHANGED <<request, schema, prior, plan, pending, attempt, issues>>
    BY <1>8 DEF GenerateTable, Sound, PlansSound, RowsSound, Planning
  <2>1. PICK k \in Missing : (\A j \in Missing : k <= j) /\ db' \in WithTable(schema, plan, db, plan.order[k])
    BY <1>8 DEF GenerateTable
  <2>2. PICK t : t = plan.order[k]
    OBVIOUS
  <2>3. t \in TablesOf(schema) /\ t \notin DOMAIN db.rows /\ \A i \in Incoming(schema, t) : ParentOf(schema, i) \in DOMAIN db.rows
    BY <2>0, <2>1, <2>2, NextTable
  <2>4. ASSUME Static(prior) PROVE Lags(schema, plan, db')
    <3>1. Lags(schema, plan, db)
      BY <2>0, <2>4 DEF LagSound
    <3> QED BY <2>0, <2>1, <2>2, <2>3, <3>1, LagsKept
  <2> QED BY <2>0, <2>4 DEF LagSound
<1>9. CASE OverlayEvents
  <2>1. /\ stage = "temporal" /\ pending \subseteq Temporal(plan) /\ pending # {} /\ Populated(schema, prior, plan)
        /\ prior' = prior
    BY <1>9 DEF OverlayEvents, Sound, PlansSound, Planning
  <2>2. PICK m \in pending : m \in Temporal(plan) /\ m \in plan.populations
    BY <2>1 DEF Temporal
  <2>3. ~Static(prior)
    BY <2>1, <2>2, PopulatedTables
  <2> QED BY <2>1, <2>3 DEF LagSound, Static
<1>10. CASE ApplyNuisance
  <2>1. stage' = "validate"
    BY <1>10 DEF ApplyNuisance
  <2> QED BY <2>1 DEF LagSound
<1>11. CASE ValidateDatabase
  <2>1. (\E reasons : Refuse(reasons)) \/ stage' = "done"
    BY <1>11 DEF ValidateDatabase
  <2> QED BY <1>4, <2>1 DEF LagSound
<1>12. CASE Ended
  BY <1>1, <1>12 DEF Ended
<1> QED BY <1>1, <1>2, <1>3, <1>5, <1>6, <1>7, <1>8, <1>9, <1>10, <1>11, <1>12 DEF Next

(* If the calendar has a tick for each event and detail table of a request *)
(* and two more, the rows of a lagged table come after those of their      *)
(* parents as long as the prior is static (_generate_time,                 *)
(* _max_time_lagged_depth).                                                *)
THEOREM LagUnderStaticPriorsHolds == ASSUME HeadroomSuffices PROVE Spec => []LagUnderStaticPriors
<1>1. Init => LagSound
  BY DEF Init, LagSound
<1>2. Sound /\ LagSound /\ [Next]_vars => LagSound'
  BY HeadroomSuffices, LagStep
<1>3. Sound /\ LagSound => LagUnderStaticPriors
  <2> SUFFICES ASSUME Sound, LagSound, stage \in {"generate", "temporal"}, Static(prior), NEW t \in LaggedTables PROVE RowsLag(t)
    BY DEF LagUnderStaticPriors
  <2>1. Lags(schema, plan, db) /\ t \in DOMAIN db.rows /\ Lagged(schema, plan, db, t)
    BY DEF LagSound, LaggedTables
  <2> QED BY <2>1 DEF Lags, Behind, RowsLag
<1> QED BY RunSound, <1>1, <1>2, <1>3, PTL DEF Spec

-----------------------------------------------------------------------------
(* What a database is refused for.                                         *)

(* The keys that are drawn together are those of a bridge.                 *)
LEMMA BridgeGroups ==
  ASSUME NEW s, BlueprintAccepted(s), NEW g \in RelationGroups(s), Cardinality(g) > 1
  PROVE  \E t \in TablesOf(s) : g = Structural(s, t) /\ s.roles[t] = "bridge" /\ ChildOfGroup(s, g) = t
<1>1. PICK t \in TablesOf(s) :
        g \in (IF Bridged(s, t) THEN {Structural(s, t)} ELSE {})
                \cup {{i} : i \in IF Bridged(s, t) THEN Incoming(s, t) \ Structural(s, t) ELSE Incoming(s, t)}
  BY DEF RelationGroups
<1>2. \A i : g # {i}
  <2>1. \A i : Cardinality({i}) = 1
    BY FS_Singleton
  <2> QED BY <2>1
<1>3. Bridged(s, t) /\ g = Structural(s, t)
  BY <1>1, <1>2
<1>4. g # {}
  BY FS_EmptySet
<1>5. (CHOOSE i \in g : TRUE) \in g
  BY <1>4
<1>6. ChildOfGroup(s, g) = t
  BY <1>3, <1>5 DEF ChildOfGroup, Structural, Incoming
<1> QED BY <1>3, <1>6 DEF Bridged

(* Whether the tuples of a bridge repeat depends on its keys.              *)
LEMMA BridgeKept ==
  ASSUME NEW s, NEW p, NEW g, NEW f, NEW h, \A i \in g : f[i] = h[i], BridgeTuples(s, p, g, f)
  PROVE  BridgeTuples(s, p, g, h)
<1>1. \A row : Tuple(g, f, row) = Tuple(g, h, row)
  BY DEF Tuple
<1>2. \A k : {Tuple(g, f, before) : before \in 1..k} = {Tuple(g, h, before) : before \in 1..k}
  BY <1>1
<1> QED BY <1>1, <1>2 DEF BridgeTuples

(* As long as there are combinations, no tuple of a bridge repeats.        *)
LEMMA TuplesDistinct ==
  ASSUME NEW s, NEW p, NEW g, NEW f, NEW n \in Nat, n = p.rows[ChildOfGroup(s, g)],
         BridgeTuples(s, p, g, f), Combinations(s, p.rows, g) \in Nat, n <= Combinations(s, p.rows, g)
  PROVE  Cardinality({Tuple(g, f, row) : row \in 1..n}) = n
<1> DEFINE Tuples(k) == {Tuple(g, f, row) : row \in 1..k}
           Bad == {k \in 0..n : ~(IsFiniteSet(Tuples(k)) /\ Cardinality(Tuples(k)) = k)}
<1>1. Bad = {}
  <2> SUFFICES ASSUME Bad # {} PROVE FALSE
    OBVIOUS
  <2>1. Bad \in SUBSET Nat
    OBVIOUS
  <2> HIDE DEF Bad
  <2>2. PICK k \in Bad : \A j \in Bad : k <= j
    BY <2>1, LeastNatural
  <2>3. k \in 0..n /\ ~(IsFiniteSet(Tuples(k)) /\ Cardinality(Tuples(k)) = k)
    BY DEF Bad
  <2>4. k # 0
    <3>1. 1..0 = {}
      OBVIOUS
    <3>2. Tuples(0) = {}
      BY <3>1
    <3> QED BY <2>3, <3>2, FS_EmptySet
  <2>5. k - 1 \in 0..n /\ k \in 1..n
    BY <2>3, <2>4
  <2>6. k - 1 \notin Bad
    BY <2>2, <2>3, <2>5
  <2>7. IsFiniteSet(Tuples(k - 1)) /\ Cardinality(Tuples(k - 1)) = k - 1
    BY <2>5, <2>6 DEF Bad
  <2>8. Tuple(g, f, k) \notin Tuples(k - 1)
    <3> SUFFICES ASSUME Tuple(g, f, k) \in Tuples(k - 1) PROVE FALSE
      OBVIOUS
    <3>1. Cardinality(Tuples(k - 1)) = Combinations(s, p.rows, g)
      BY <2>5 DEF BridgeTuples
    <3> QED BY <2>5, <2>7, <3>1
  <2>9. Tuples(k) = Tuples(k - 1) \cup {Tuple(g, f, k)}
    <3>1. 1..k = 1..(k - 1) \cup {k}
      BY <2>5
    <3> QED BY <3>1
  <2> HIDE DEF Tuples
  <2>10. IsFiniteSet(Tuples(k)) /\ Cardinality(Tuples(k)) = Cardinality(Tuples(k - 1)) + 1
    BY <2>7, <2>8, <2>9, FS_AddElement
  <2> QED BY <2>3, <2>5, <2>7, <2>10
<1>2. n \notin Bad
  BY <1>1
<1> QED BY <1>2

(* The combinations of parents a bridge may have are counted.              *)
LEMMA CombinationsCounted ==
  ASSUME NEW s, BlueprintAccepted(s), NEW rows \in [TablesOf(s) -> Nat], NEW t, NEW g, g = Structural(s, t)
  PROVE  Combinations(s, rows, g) \in Nat
<1> DEFINE keys == InOrder(g)
           counts == [k \in DOMAIN keys |-> rows[ParentOf(s, keys[k])]]
           n == Cardinality(g)
<1>1. g \in SUBSET Nat /\ IsFiniteSet(g) /\ n \in Nat /\ g \subseteq KeysOf(s)
  BY SchemaBasics, FS_CardinalityType DEF Structural, Incoming
<1>2. DOMAIN keys = 1..n /\ \A k \in 1..n : keys[k] \in g
  BY <1>1, InOrderFacts
<1>3. \A i \in g : ParentOf(s, i) \in TablesOf(s)
  BY <1>1, SchemaBasics
<1> HIDE DEF keys, n
<1>4. counts \in [1..n -> Nat]
  BY <1>2, <1>3
<1>5. Product(counts) \in Nat
  <2> HIDE DEF counts
  <2> QED BY <1>1, <1>4, ProductNat
<1> QED BY <1>5 DEF Combinations, keys

(* The bridges that are generated repeat no tuple they need not repeat.    *)
Bridges(s, p, d) ==
  \A g \in p.groups : Cardinality(g) > 1 /\ ChildOfGroup(s, g) \in DOMAIN d.rows => BridgeTuples(s, p, g, d.key)

(* One more table leaves them.                                             *)
LEMMA BridgesGrown ==
  ASSUME NEW s, BlueprintAccepted(s), NEW p, Planned(s, p), NEW d, Fits(s, p, d), NEW t \in TablesOf(s), t \notin DOMAIN d.rows,
         NEW f \in WithTable(s, p, d, t), Bridges(s, p, d)
  PROVE  Bridges(s, p, f)
<1>0. DOMAIN d = DbFields /\ DOMAIN d.key = {i \in KeysOf(s) : ChildOf(s, i) \in DOMAIN d.rows}
  BY DEF Fits
<1>1. PICK keys \in ChildAssignments(s, p, t) : \E times, missing : Grown(p, d, t, f, keys, times, missing)
  BY <1>0, WithTableShape
<1>2. f.key = Joined(d.key, keys) /\ DOMAIN f.rows = DOMAIN d.rows \cup {t}
  BY <1>1 DEF Grown
<1>3. DOMAIN keys = Incoming(s, t) /\ \A g \in p.groups : ChildOfGroup(s, g) = t /\ Cardinality(g) > 1 => BridgeTuples(s, p, g, keys)
  BY AssignmentFacts
<1> SUFFICES ASSUME NEW g \in p.groups, Cardinality(g) > 1, ChildOfGroup(s, g) \in DOMAIN f.rows PROVE BridgeTuples(s, p, g, f.key)
  BY DEF Bridges
<1>4. PICK u \in TablesOf(s) : g = Structural(s, u) /\ ChildOfGroup(s, g) = u
  BY BridgeGroups DEF Planned
<1>5. \A i \in g : i \in Incoming(s, u)
  BY <1>4 DEF Structural
<1>6. CASE u = t
  <2>1. BridgeTuples(s, p, g, keys)
    BY <1>3, <1>4, <1>6
  <2>2. \A i \in g : keys[i] = f.key[i]
    BY <1>2, <1>3, <1>5, <1>6 DEF Joined
  <2> QED BY <2>1, <2>2, BridgeKept
<1>7. CASE u # t
  <2>1. BridgeTuples(s, p, g, d.key)
    BY <1>2, <1>4, <1>7 DEF Bridges
  <2>2. \A i \in g : i \in DOMAIN d.key /\ i \notin DOMAIN keys
    BY <1>0, <1>2, <1>3, <1>4, <1>5, <1>7 DEF Incoming
  <2>3. \A i \in g : d.key[i] = f.key[i]
    BY <1>2, <2>2 DEF Joined
  <2> QED BY <2>1, <2>3, BridgeKept
<1> QED BY <1>6, <1>7

(* So does an overlay: it replaces the key of an event table.              *)
LEMMA BridgesOverlaid ==
  ASSUME NEW s, BlueprintAccepted(s), NEW p, Planned(s, p), NEW d, Fits(s, p, d), DOMAIN d.rows = TablesOf(s), NEW m, Mechanism(s, m),
         NEW f, f.rows = d.rows, \A i \in DOMAIN d.key \ {m.key} : f.key[i] = d.key[i], Bridges(s, p, d)
  PROVE  Bridges(s, p, f)
<1>0. DOMAIN d.key = {i \in KeysOf(s) : ChildOf(s, i) \in DOMAIN d.rows}
  BY DEF Fits
<1> SUFFICES ASSUME NEW g \in p.groups, Cardinality(g) > 1, ChildOfGroup(s, g) \in DOMAIN f.rows PROVE BridgeTuples(s, p, g, f.key)
  BY DEF Bridges
<1>1. PICK u \in TablesOf(s) : g = Structural(s, u) /\ ChildOfGroup(s, g) = u /\ s.roles[u] = "bridge"
  BY BridgeGroups DEF Planned
<1>2. s.roles[ChildOf(s, m.key)] = "event"
  BY DEF Mechanism
<1>3. \A i \in g : i \in DOMAIN d.key \ {m.key}
  BY <1>0, <1>1, <1>2 DEF Structural, Incoming
<1>4. BridgeTuples(s, p, g, d.key)
  BY DEF Bridges
<1> QED BY <1>3, <1>4, BridgeKept

(* What an overlay of this kind may change.                                *)
Limited(n, kind) ==
  /\ kind \notin {"proxy", "spurious", "distractor"} => n.overwritten = {}
  /\ kind \notin {"mcar", "mar", "mnar"} => n.masked = {}
  /\ kind # "distractor" => n.distracted = {}

(* The overlay of a request is limited to what its kind is about.          *)
LEMMA OverlaysLimited ==
  ASSUME NEW s, NEW r, NEW kind, NEW n, n = NuisancePlanOf(s, r, kind)
  PROVE  Limited(n, kind) /\ n.distracted \subseteq KeysOf(s)
<1>1. CASE n = NoNuisance
  BY <1>1 DEF NoNuisance, Limited
<1>2. CASE n # NoNuisance
  BY <1>2 DEF NuisancePlanOf, Limited
<1> QED BY <1>1, <1>2

(* A generated database has keys and times where they belong, whatever     *)
(* overlay is put over it.                                                 *)
LEMMA KeysStand ==
  ASSUME NEW s, BlueprintAccepted(s), NEW p, Planned(s, p), NEW d, Fits(s, p, d), DOMAIN d.rows = TablesOf(s),
         NEW c, c.key = d.key, c.rows = d.rows, NEW e, NEW n, n.distracted \subseteq KeysOf(s), Distracted(s, c, n, e), NEW i \in KeysOf(s)
  PROVE  KeyFits(s, p, i, e.key[i])
<1>1. ChildOf(s, i) \in TablesOf(s) /\ ParentOf(s, i) \in TablesOf(s)
  BY SchemaBasics
<1>2. i \in DOMAIN d.key /\ KeyFits(s, p, i, d.key[i]) /\ d.rows[ParentOf(s, i)] = p.rows[ParentOf(s, i)]
  BY <1>1 DEF Fits
<1>3. CASE i \notin n.distracted
  BY <1>2, <1>3 DEF Distracted
<1>4. CASE i \in n.distracted
  <2>1. PICK f : f = e.key[i] /\ f \in Redraws(s, c, i)
    BY <1>4 DEF Distracted
  <2>2. DOMAIN d.key[i] = 1..p.rows[ChildOf(s, i)]
    BY <1>2 DEF KeyFits
  <2>3. /\ f \in [1..p.rows[ChildOf(s, i)] -> 0..p.rows[ParentOf(s, i)]]
        /\ \A row \in 1..p.rows[ChildOf(s, i)] : (f[row] = 0) = (d.key[i][row] = 0)
    BY <1>2, <2>1, <2>2 DEF Redraws
  <2> QED BY <1>2, <2>1, <2>3 DEF KeyFits
<1> QED BY <1>3, <1>4

(* What a generated database is refused for is what its overlay may spoil. *)
LEMMA OnlySpoiled ==
  ASSUME NEW s, BlueprintAccepted(s), NEW p, Planned(s, p), NEW d, Fits(s, p, d), DOMAIN d.rows = TablesOf(s), CalendarEnd >= 2,
         Bridges(s, p, d), NEW kind, NEW n, Limited(n, kind), n.distracted \subseteq KeysOf(s),
         NEW e, Overwritten(d, n, e), NEW f, Masked(e, n, f), NEW h, Distracted(s, f, n, h), h.rows = p.rows
  PROVE  DatabaseIssues(s, p, h) \subseteq Refusable(kind)
<1>0. /\ \A t \in TablesOf(s) : d.rows[t] = p.rows[t] /\ p.rows[t] \in Nat \ {0}
      /\ \A t \in DOMAIN d.time : d.time[t] \in [1..p.rows[t] -> 0..CalendarEnd]
      /\ DOMAIN d.missing = UNION {Nullable(s, t) : t \in TablesOf(s)}
      /\ \A t \in TablesOf(s) : \A c \in Nullable(s, t) : d.missing[c] \in MissingMasks(p.rows[t])
      /\ d.duplicate = {} /\ DOMAIN d.key = KeysOf(s)
  <2>1. \A i \in KeysOf(s) : ChildOf(s, i) \in TablesOf(s)
    BY SchemaBasics
  <2> QED BY <2>1 DEF Fits, Planned
<1>1. /\ f.key = d.key /\ f.rows = d.rows /\ f.time = d.time /\ e.key = d.key /\ e.rows = d.rows
      /\ h.time = d.time /\ h.missing = f.missing /\ h.duplicate = e.duplicate
  BY DEF Overwritten, Masked, Distracted
<1>2. \A i \in KeysOf(s) : KeyFits(s, p, i, h.key[i])
  BY <1>1, KeysStand
<1>3. ASSUME NEW i \in KeysOf(s) PROVE Len(h.key[i]) = h.rows[ChildOf(s, i)] /\ Range(h.key[i]) \subseteq 0..h.rows[ParentOf(s, i)]
                                        /\ (~Optional(s, i) => 0 \notin Range(h.key[i]))
  <2>1. PICK key, k, up : key = h.key[i] /\ k = p.rows[ChildOf(s, i)] /\ up = p.rows[ParentOf(s, i)]
    OBVIOUS
  <2>2. k \in Nat
    BY <1>0, <2>1, SchemaBasics
  <2>3. key \in [1..k -> 0..up] /\ (~Optional(s, i) => \A row \in 1..k : key[row] # 0)
    BY <1>2, <2>1 DEF KeyFits
  <2>4. Len(key) = k
    BY <2>2, <2>3, FunctionIsSeq
  <2>5. Range(key) \subseteq 0..up /\ (~Optional(s, i) => 0 \notin Range(key))
    BY <2>3 DEF Range
  <2> QED BY <2>1, <2>4, <2>5
<1>4. \A t \in DOMAIN h.time : Range(h.time[t]) \subseteq 0..CalendarEnd
  <2>1. ASSUME NEW t \in DOMAIN d.time PROVE Range(d.time[t]) \subseteq 0..CalendarEnd
    <3>1. PICK times, k : times = d.time[t] /\ times \in [1..k -> 0..CalendarEnd]
      BY <1>0
    <3>2. Range(times) \subseteq 0..CalendarEnd
      BY <3>1 DEF Range
    <3> QED BY <3>1, <3>2
  <2> QED BY <1>1, <2>1
<1>5. n.masked = {} => \A c \in DOMAIN h.missing : h.missing[c] # 1..h.rows[c[1]]
  <2> SUFFICES ASSUME n.masked = {}, NEW c \in DOMAIN h.missing PROVE h.missing[c] # 1..h.rows[c[1]]
    OBVIOUS
  <2>1. c \in DOMAIN d.missing /\ h.missing[c] \in {{}, d.missing[c]}
    BY <1>1 DEF Overwritten, Masked
  <2>2. PICK t \in TablesOf(s) : c \in Nullable(s, t)
    BY <1>0, <2>1
  <2>3. c[1] = t
    BY <2>2 DEF Nullable, Features, ColumnsOfKind
  <2>4. d.missing[c] # 1..p.rows[t] /\ p.rows[t] \in Nat \ {0}
    BY <1>0, <2>2 DEF MissingMasks
  <2>5. 1..p.rows[t] # {}
    BY <2>4
  <2> QED BY <2>1, <2>3, <2>4, <2>5
<1>6. n.distracted = {} => \A g \in p.groups : Cardinality(g) > 1 => ~BridgeDuplicates(s, p, h, g)
  <2> SUFFICES ASSUME n.distracted = {}, NEW g \in p.groups, Cardinality(g) > 1, BridgeDuplicates(s, p, h, g) PROVE FALSE
    OBVIOUS
  <2>1. PICK u \in TablesOf(s) : g = Structural(s, u) /\ ChildOfGroup(s, g) = u
    BY BridgeGroups DEF Planned
  <2>2. BridgeTuples(s, p, g, h.key)
    <3>1. \A i \in g : i \in KeysOf(s)
      BY <2>1 DEF Structural, Incoming
    <3>2. \A i \in g : d.key[i] = h.key[i]
      BY <1>0, <1>1, <3>1 DEF Distracted
    <3>3. BridgeTuples(s, p, g, d.key)
      BY <2>1 DEF Bridges
    <3> QED BY <3>2, <3>3, BridgeKept
  <2>3. Combinations(s, p.rows, g) \in Nat
    <3>1. p.rows \in [TablesOf(s) -> Nat]
      BY DEF Planned
    <3> QED BY <2>1, <3>1, CombinationsCounted
  <2>4. PICK k : k = p.rows[ChildOfGroup(s, g)] /\ k \in Nat
    BY <1>0, <2>1
  <2>5. k <= Combinations(s, p.rows, g) /\ Cardinality({Tuple(g, h.key, row) : row \in 1..k}) # k
    BY <2>4 DEF BridgeDuplicates
  <2> QED BY <2>2, <2>3, <2>4, <2>5, TuplesDistinct
<1>7. n.overwritten = {} => h.duplicate = {}
  BY <1>1 DEF Overwritten
<1>8. ASSUME NEW issue \in DatabaseIssues(s, p, h) PROVE issue \in Refusable(kind)
  <2>1. /\ issue \in {"bridge duplicate", "all missing", "duplicate"}
        /\ issue = "bridge duplicate" => n.distracted # {}
        /\ issue = "all missing" => n.masked # {}
        /\ issue = "duplicate" => n.overwritten # {}
    BY <1>3, <1>4, <1>5, <1>6, <1>7 DEF DatabaseIssues, DatabaseIssueKinds
  <2> QED BY <2>1 DEF Limited, Refusable
<1> QED BY <1>8

(* A calendar of two ticks holds the shortest of times.                    *)
CalendarSuffices == CalendarEnd >= 2

(* Bridges are generated as they should be, and what a database is or was  *)
(* refused for is what its overlay may spoil.                              *)
SpoiledSound ==
  /\ stage \in {"generate", "temporal"} => Bridges(schema, plan, db)
  /\ stage = "validate" => DatabaseIssues(schema, plan, db) \subseteq Refusable(request.prior.nuisance.of)
  /\ OnlyOverlaysAreRejected

(* What an attempt is refused for before its database is complete.         *)
EarlyReasons(reasons) == reasons \cap DatabaseIssueKinds = {}

(* A run is refused for nothing at its start.                              *)
LEMMA InitSpoiled == Init => SpoiledSound
  BY DEF Init, SpoiledSound, OnlyOverlaysAreRejected

(* A refused attempt has no database.                                      *)
LEMMA RefuseSpoiled ==
  ASSUME NEW reasons, Refuse(reasons), request' = request, reasons \cap DatabaseIssueKinds \subseteq Refusable(request.prior.nuisance.of)
  PROVE  SpoiledSound'
<1>1. stage' \in {"plan", "failed"} /\ issues' = reasons
  BY DEF Refuse
<1>2. OnlyOverlaysAreRejected'
  BY <1>1 DEF OnlyOverlaysAreRejected
<1> QED BY <1>1, <1>2 DEF SpoiledSound

(* No bridge is generated before the first table.                          *)
LEMMA EmptyBridges == ASSUME NEW s, NEW p PROVE Bridges(s, p, Empty(s, p))
<1>1. DOMAIN Empty(s, p).rows = {}
  BY EmptyFunction DEF Empty
<1> QED BY <1>1 DEF Bridges

(* PlanInstance and ResolvePopulation refuse for reasons of their own.     *)
LEMMA PlanSpoiled == ASSUME Sound, SpoiledSound, PlanInstance PROVE SpoiledSound'
<1>0. /\ stage = "plan" /\ BlueprintAccepted(schema) /\ request' = request
      /\ prior \in PriorPlans(schema, request.prior) \cup {NoPrior} /\ OnlyOverlaysAreRejected
  BY SchemaFacts DEF PlanInstance, Sound, PlansSound, SpoiledSound
<1>1. PICK p \in InstancePlans(schema) : \E o \in Bind(schema, request.prior, p, prior) :
       LET found == IF o.issues # {} THEN o.issues
                    ELSE IF ~PlanConstructs(o.plan) THEN {"construction"} ELSE PlanIssues(schema, o.plan, prior)
       IN IF found # {} THEN Refuse(found)
          ELSE /\ plan' = [o.plan EXCEPT !.columns = {}] /\ pending' = Temporal(o.plan) /\ issues' = {}
               /\ stage' = (IF NeedsDraft(o.plan) THEN "draft" ELSE "generate")
               /\ db' = Empty(schema, o.plan) /\ UNCHANGED attempt
  BY DEF PlanInstance
<1>2. PICK o \in Bind(schema, request.prior, p, prior) :
       LET found == IF o.issues # {} THEN o.issues
                    ELSE IF ~PlanConstructs(o.plan) THEN {"construction"} ELSE PlanIssues(schema, o.plan, prior)
       IN IF found # {} THEN Refuse(found)
          ELSE /\ plan' = [o.plan EXCEPT !.columns = {}] /\ pending' = Temporal(o.plan) /\ issues' = {}
               /\ stage' = (IF NeedsDraft(o.plan) THEN "draft" ELSE "generate")
               /\ db' = Empty(schema, o.plan) /\ UNCHANGED attempt
  BY <1>1
<1> DEFINE found == IF o.issues # {} THEN o.issues
                    ELSE IF ~PlanConstructs(o.plan) THEN {"construction"} ELSE PlanIssues(schema, o.plan, prior)
<1>3. found \cap DatabaseIssueKinds = {}
  <2>1. PriorShaped(schema, prior)
    BY <1>0, PriorFacts
  <2>2. o.issues \subseteq BindingIssues
    BY <1>0, <2>1, BindFacts
  <2>3. PlanIssues(schema, o.plan, prior) \subseteq PlanIssueKinds
    BY DEF PlanIssues
  <2>4. found \subseteq BindingIssues \cup {"construction"} \cup PlanIssueKinds
    BY <2>2, <2>3
  <2>5. (BindingIssues \cup {"construction"} \cup PlanIssueKinds) \cap DatabaseIssueKinds = {}
    BY DEF BindingIssues, PlanIssueKinds, DatabaseIssueKinds
  <2> QED BY <2>4, <2>5
<1>4. CASE found # {}
  <2>1. Refuse(found)
    BY <1>2, <1>4
  <2> HIDE DEF found
  <2> QED BY <1>0, <1>3, <2>1, RefuseSpoiled
<1>5. CASE found = {}
  <2>1. issues' = {} /\ stage' \in {"draft", "generate"} /\ db' = Empty(schema, o.plan)
    BY <1>2, <1>5
  <2>2. db' = Empty(schema', plan')
    BY <2>1 DEF Empty
  <2>3. Bridges(schema', plan', db')
    BY <2>2, EmptyBridges
  <2>4. OnlyOverlaysAreRejected'
    BY <2>1 DEF OnlyOverlaysAreRejected
  <2> QED BY <2>1, <2>3, <2>4 DEF SpoiledSound
<1> QED BY <1>4, <1>5

(* Overlays spoil a database by their kind.                                *)
LEMMA NuisanceSpoiled == ASSUME CalendarSuffices, Sound, SpoiledSound, ApplyNuisance PROVE SpoiledSound'
<1>0. /\ stage = "temporal" /\ stage' = "validate" /\ UNCHANGED <<request, schema, prior, plan, pending, attempt, issues>>
      /\ Planned(schema, plan) /\ Fits(schema, plan, db) /\ DOMAIN db.rows = TablesOf(schema) /\ BlueprintAccepted(schema)
      /\ Bridges(schema, plan, db) /\ OnlyOverlaysAreRejected
  BY SchemaFacts DEF ApplyNuisance, Sound, PlansSound, RowsSound, Planning, SpoiledSound
<1>1. PICK n, h, kind : n = Nuisance /\ h = db' /\ kind = request.prior.nuisance.of
  OBVIOUS
<1>2. PICK e \in Overwrite(schema, db, n) : \E f \in Mask(schema, e, n) : h \in Distract(schema, f, n)
  BY <1>1 DEF ApplyNuisance
<1>3. PICK f \in Mask(schema, e, n) : h \in Distract(schema, f, n)
  BY <1>2
<1>4. DOMAIN db = DbFields
  BY <1>0 DEF Fits
<1>5. Overwritten(db, n, e) /\ DOMAIN e = DbFields
  <2>1. Overwritten(db, n, e)
    BY <1>2, <1>4, OverwriteFacts
  <2> QED BY <2>1 DEF Overwritten
<1>6. Masked(e, n, f) /\ DOMAIN f = DbFields
  <2>1. Masked(e, n, f)
    BY <1>3, <1>5, MaskFacts
  <2> QED BY <2>1 DEF Masked
<1>7. Distracted(schema, f, n, h)
  BY <1>3, <1>6, DistractFacts
<1>8. Limited(n, kind) /\ n.distracted \subseteq KeysOf(schema)
  BY <1>1, OverlaysLimited DEF Nuisance
<1>9. h.rows = plan.rows
  <2>1. RowsSound'
    BY NuisanceSound DEF Sound
  <2> QED BY <1>0, <1>1, <2>1 DEF RowsSound
<1>10. DatabaseIssues(schema, plan, h) \subseteq Refusable(kind)
  BY <1>0, <1>5, <1>6, <1>7, <1>8, <1>9, OnlySpoiled DEF CalendarSuffices
<1>11. OnlyOverlaysAreRejected'
  BY <1>0 DEF OnlyOverlaysAreRejected
<1> QED BY <1>0, <1>1, <1>10, <1>11 DEF SpoiledSound

(* Each step of the worker.                                                *)
LEMMA SpoiledStep == ASSUME CalendarSuffices, Sound, SpoiledSound, [Next]_vars PROVE SpoiledSound'
<1>0. OnlyOverlaysAreRejected
  BY DEF SpoiledSound
<1>r. ASSUME NEW reasons, Refuse(reasons), request' = request, EarlyReasons(reasons) PROVE SpoiledSound'
  <2>1. reasons \cap DatabaseIssueKinds \subseteq Refusable(request.prior.nuisance.of)
    BY <1>r DEF EarlyReasons
  <2> QED BY <1>r, <2>1, RefuseSpoiled
<1>1. CASE UNCHANGED vars
  BY <1>1 DEF vars, SpoiledSound, OnlyOverlaysAreRejected
<1>2. CASE CompileSchema
  <2>1. stage' \in {"prior", "failed"} /\ issues' \in {issues, {"schema"}} /\ request' = request
    BY <1>2 DEF CompileSchema
  <2> QED BY <1>0, <2>1 DEF SpoiledSound, OnlyOverlaysAreRejected, DatabaseIssueKinds
<1>3. CASE PlanPrior
  <2>1. stage' \in {"plan", "failed"} /\ issues' \in {issues, {"construction"}, {"prior"}} /\ request' = request
    BY <1>3 DEF PlanPrior
  <2> QED BY <1>0, <2>1 DEF SpoiledSound, OnlyOverlaysAreRejected, DatabaseIssueKinds
<1>5. CASE PlanInstance
  BY <1>5, PlanSpoiled
<1>6. CASE ResolvePopulation
  <2>0. stage = "draft" /\ request' = request
    BY <1>6 DEF ResolvePopulation
  <2>1. (\E total, rows : Refuse(PopulationIssues(total, rows))) \/ UNCHANGED <<stage, db, pending, attempt, issues>>
    BY <1>6 DEF ResolvePopulation
  <2>2. ASSUME NEW total, NEW rows, Refuse(PopulationIssues(total, rows)) PROVE SpoiledSound'
    <3>1. EarlyReasons(PopulationIssues(total, rows))
      BY DEF EarlyReasons, PopulationIssues, DatabaseIssueKinds
    <3> QED BY <1>r, <2>0, <2>2, <3>1
  <2>3. CASE UNCHANGED <<stage, db, pending, attempt, issues>>
    BY <1>0, <2>0, <2>3 DEF SpoiledSound, OnlyOverlaysAreRejected
  <2> QED BY <2>1, <2>2, <2>3
<1>7. CASE FinalizePlan
  <2>1. /\ stage' = "generate" /\ UNCHANGED <<issues, request>> /\ db' = Empty(schema', plan')
    BY <1>7 DEF FinalizePlan, Sound, RowsSound, Empty
  <2>2. Bridges(schema', plan', db')
    BY <2>1, EmptyBridges
  <2> QED BY <1>0, <2>1, <2>2 DEF SpoiledSound, OnlyOverlaysAreRejected
<1>8. CASE GenerateTable
  <2>0. /\ stage = "generate" /\ stage' \in {"generate", "temporal"} /\ BlueprintAccepted(schema)
        /\ Planned(schema, plan) /\ Fits(schema, plan, db) /\ Bridges(schema, plan, db)
        /\ UNCHANGED <<request, schema, prior, plan, pending, attempt, issues>>
    BY <1>8, SchemaFacts DEF GenerateTable, Sound, PlansSound, RowsSound, Planning, SpoiledSound
  <2>1. PICK k \in Missing : (\A j \in Missing : k <= j) /\ db' \in WithTable(schema, plan, db, plan.order[k])
    BY <1>8 DEF GenerateTable
  <2>2. PICK t : t = plan.order[k]
    OBVIOUS
  <2>3. t \in TablesOf(schema) /\ t \notin DOMAIN db.rows
    BY <2>0, <2>1, <2>2, NextTable
  <2>4. Bridges(schema, plan, db')
    BY <2>0, <2>1, <2>2, <2>3, BridgesGrown
  <2> QED BY <1>0, <2>0, <2>4 DEF SpoiledSound, OnlyOverlaysAreRejected
<1>9. CASE OverlayEvents
  <2>0. /\ stage = "temporal" /\ BlueprintAccepted(schema) /\ Planned(schema, plan) /\ Fits(schema, plan, db)
        /\ DOMAIN db.rows = TablesOf(schema) /\ Bridges(schema, plan, db) /\ UNCHANGED <<request, schema, prior>>
    BY <1>9, SchemaFacts DEF OverlayEvents, Sound, PlansSound, RowsSound, Planning, SpoiledSound
  <2>1. PICK m \in pending : \E counts \in ScheduleCounts(schema, plan, m) :
            IF Total(counts) # db.rows[m.table] THEN Refuse({"schedule"})
            ELSE /\ db' \in Overlaid(schema, plan, db, m, counts)
                 /\ pending' = pending \ {m} /\ UNCHANGED <<stage, plan, attempt, issues>>
    BY <1>9 DEF OverlayEvents
  <2>2. PICK counts \in ScheduleCounts(schema, plan, m) :
            IF Total(counts) # db.rows[m.table] THEN Refuse({"schedule"})
            ELSE /\ db' \in Overlaid(schema, plan, db, m, counts)
                 /\ pending' = pending \ {m} /\ UNCHANGED <<stage, plan, attempt, issues>>
    BY <2>1
  <2>3. /\ Mechanism(schema, m) /\ m.table \in DOMAIN db.rows
        /\ counts \in CountDraws(plan.rows[m.parent]) /\ Total(counts) = db.rows[m.table]
    BY <2>0, ScheduleStored
  <2>4. db' \in Overlaid(schema, plan, db, m, counts) /\ UNCHANGED <<stage, plan, attempt, issues>>
    BY <2>2, <2>3
  <2>5. db'.rows = db.rows /\ \A i \in DOMAIN db.key \ {m.key} : db'.key[i] = db.key[i]
    BY <2>0, <2>3, <2>4, OverlaidFacts
  <2>6. Bridges(schema, plan, db')
    BY <2>0, <2>3, <2>5, BridgesOverlaid
  <2> QED BY <1>0, <2>0, <2>4, <2>6 DEF SpoiledSound, OnlyOverlaysAreRejected
<1>10. CASE ApplyNuisance
  BY <1>10, NuisanceSpoiled
<1>11. CASE ValidateDatabase
  <2>0. /\ stage = "validate" /\ request' = request
        /\ DatabaseIssues(schema, plan, db) \subseteq Refusable(request.prior.nuisance.of)
    BY <1>11 DEF ValidateDatabase, SpoiledSound
  <2>1. \/ Refuse(DatabaseIssues(schema, plan, db)) \/ Refuse({"programs"})
        \/ stage' = "done" /\ UNCHANGED <<plan, db, pending, attempt, issues>>
    BY <1>11 DEF ValidateDatabase
  <2>2. CASE Refuse(DatabaseIssues(schema, plan, db))
    <3>1. PICK found : found = DatabaseIssues(schema, plan, db)
      OBVIOUS
    <3> QED BY <2>0, <2>2, <3>1, RefuseSpoiled
  <2>3. CASE Refuse({"programs"})
    <3>1. EarlyReasons({"programs"})
      BY DEF EarlyReasons, DatabaseIssueKinds
    <3> QED BY <1>r, <2>0, <2>3, <3>1
  <2>4. CASE stage' = "done" /\ UNCHANGED <<plan, db, pending, attempt, issues>>
    BY <1>0, <2>0, <2>4 DEF SpoiledSound, OnlyOverlaysAreRejected
  <2> QED BY <2>1, <2>2, <2>3, <2>4
<1>12. CASE Ended
  BY <1>1, <1>12 DEF Ended
<1> QED BY <1>1, <1>2, <1>3, <1>5, <1>6, <1>7, <1>8, <1>9, <1>10, <1>11, <1>12 DEF Next

(* On a calendar of at least two ticks, what validate_database_instance    *)
(* may refuse a generated database for comes from the overlay of the       *)
(* request (NuisanceExecutor.apply, generate_affinity_bridge).             *)
THEOREM OnlyOverlaysAreRejectedHolds == ASSUME CalendarSuffices PROVE Spec => []OnlyOverlaysAreRejected
<1>1. Sound /\ SpoiledSound /\ [Next]_vars => SpoiledSound'
  BY CalendarSuffices, SpoiledStep
<1>2. SpoiledSound => OnlyOverlaysAreRejected
  BY DEF SpoiledSound
<1> QED BY InitSpoiled, RunSound, <1>1, <1>2, PTL DEF Spec

-----------------------------------------------------------------------------
(* Compiled schemas construct.                                             *)

(* A sorted number stands at its place, by how many are smaller.           *)
LEMMA InOrderPlace ==
  ASSUME NEW S \in SUBSET Nat, IsFiniteSet(S), NEW x \in S
  PROVE  LET below == {y \in S : y < x}
         IN Cardinality(below) + 1 \in 1..Cardinality(S) /\ InOrder(S)[Cardinality(below) + 1] = x
<1> DEFINE n == Cardinality(S)
           f == InOrder(S)
           below == {y \in S : y < x}
<1>1. /\ n \in Nat /\ f \in [1..n -> S]
      /\ \A y \in S : \E k \in 1..n : f[k] = y
      /\ \A j, k \in 1..n : j < k => f[j] < f[k]
  BY InOrderFacts
<1> HIDE DEF n, f
<1>2. PICK k \in 1..n : f[k] = x
  BY <1>1
<1> DEFINE g == [j \in 1..(k - 1) |-> f[j]]
<1>3. k \in Nat /\ k - 1 \in Nat /\ \A j \in 1..(k - 1) : j \in 1..n /\ j < k
  BY <1>1, <1>2
<1>4. \A j \in 1..n : f[j] < x => j \in 1..(k - 1)
  <2> SUFFICES ASSUME NEW j \in 1..n, f[j] < x, ~(j < k) PROVE FALSE
    BY <1>3
  <2>1. j = k \/ k < j
    BY <1>3
  <2>2. f[j] \in Nat /\ x \in Nat
    BY <1>1
  <2> QED BY <1>1, <1>2, <2>1, <2>2
<1>5. g \in Bijection(1..(k - 1), below)
  <2>1. g \in [1..(k - 1) -> below]
    <3>1. \A j \in 1..(k - 1) : f[j] \in S /\ f[j] < x
      BY <1>1, <1>2, <1>3
    <3> QED BY <3>1
  <2>2. \A i, j \in 1..(k - 1) : g[i] = g[j] => i = j
    <3> SUFFICES ASSUME NEW i \in 1..(k - 1), NEW j \in 1..(k - 1), i < j PROVE g[i] # g[j]
      BY <1>3
    <3>1. f[i] < f[j] /\ f[i] \in Nat /\ f[j] \in Nat
      BY <1>1, <1>3
    <3> QED BY <3>1
  <2>3. \A y \in below : \E j \in 1..(k - 1) : g[j] = y
    <3> SUFFICES ASSUME NEW y \in below PROVE \E j \in 1..(k - 1) : g[j] = y
      OBVIOUS
    <3>1. PICK j \in 1..n : f[j] = y
      BY <1>1
    <3>2. j \in 1..(k - 1)
      BY <1>4, <3>1
    <3> QED BY <3>1, <3>2
  <2> HIDE DEF g
  <2> QED BY <2>1, <2>2, <2>3 DEF Bijection, Injection, Surjection, IsInjective
<1>6. IsFiniteSet(1..(k - 1)) /\ Cardinality(1..(k - 1)) = k - 1
  BY <1>3, FS_Interval
<1> HIDE DEF g, below
<1>7. Cardinality(below) = k - 1
  <2>1. ExistsBijection(1..(k - 1), below)
    BY <1>5 DEF ExistsBijection
  <2> QED BY <1>6, <2>1, FS_Bijection
<1>8. Cardinality(below) + 1 = k
  BY <1>3, <1>7
<1> QED BY <1>2, <1>8 DEF n, f, below

(* The place of a key among those of its table.                            *)
Place(s, i) == Cardinality({j \in Incoming(s, ChildOf(s, i)) : j < i}) + 1

(* The column of a key is one, and of no other key.                        *)
LEMMA KeyPlace ==
  ASSUME NEW s, BlueprintAccepted(s), NEW i \in KeysOf(s)
  PROVE  LET keys == Incoming(s, ChildOf(s, i))
         IN Place(s, i) \in 1..Cardinality(keys) /\ InOrder(keys)[Place(s, i)] = i
<1> DEFINE keys == Incoming(s, ChildOf(s, i))
<1>1. keys \in SUBSET Nat /\ IsFiniteSet(keys)
  BY SchemaBasics
<1>2. i \in keys
  BY DEF Incoming
<1> HIDE DEF keys
<1>3. LET below == {j \in keys : j < i}
      IN Cardinality(below) + 1 \in 1..Cardinality(keys) /\ InOrder(keys)[Cardinality(below) + 1] = i
  BY <1>1, <1>2, InOrderPlace
<1> QED BY <1>3 DEF Place, keys

(* A compiled schema passes the checks of its constructors.                *)
LEMMA CompiledConstructs ==
  ASSUME NEW c, CompilerConfigAccepted(c), NEW b, BlueprintAccepted(b), NEW s \in Compile(c, b)
  PROVE  SchemaConstructs(s) /\ TraceConstructs(s, b)
<1>1. /\ s.roles = b.roles /\ s.edges = b.edges /\ s.ranks = b.ranks /\ TablesOf(s) = TablesOf(b) /\ KeysOf(s) = KeysOf(b)
      /\ \A t \in TablesOf(s) : s.columns[t] \in TableColumns(c, b, t)
      /\ BlueprintAccepted(s)
  BY CompileFacts
<1>2. /\ \A i : ChildOf(s, i) = ChildOf(b, i) /\ ParentOf(s, i) = ParentOf(b, i) /\ Optional(s, i) = Optional(b, i)
      /\ \A t : Incoming(s, t) = Incoming(b, t)
  BY <1>1 DEF ChildOf, ParentOf, Optional, EdgeRoles, Incoming
<1>3. ASSUME NEW t \in TablesOf(s) PROVE Cardinality(ColumnsOfKind(s, t, "primary")) = 1
  <2> DEFINE columns == s.columns[t]
             n == Cardinality(Incoming(b, t))
  <2>1. columns \in TableColumns(c, b, t)
    BY <1>1
  <2> HIDE DEF columns
  <2>2. /\ n \in Nat /\ DOMAIN columns = 1..Len(columns) /\ Len(columns) \in Nat /\ n + 1 <= Len(columns)
        /\ columns[1].kind = "primary"
        /\ \A k \in 1..n : columns[k + 1].kind = "key"
        /\ \A k \in (n + 2)..Len(columns) : columns[k].kind \in {"time", "feature"}
    BY <2>1, TableColumnsFacts
  <2> HIDE DEF n
  <2>3. \A k \in DOMAIN columns : columns[k].kind = "primary" <=> k = 1
    <3> SUFFICES ASSUME NEW k \in DOMAIN columns, k # 1 PROVE columns[k].kind # "primary"
      BY <2>2
    <3>1. CASE k - 1 \in 1..n
      <4>1. (k - 1) + 1 = k
        BY <2>2
      <4> QED BY <2>2, <3>1, <4>1
    <3>2. CASE k - 1 \notin 1..n
      <4>1. k \in (n + 2)..Len(columns)
        BY <2>2, <3>2
      <4> QED BY <2>2, <4>1
    <3> QED BY <3>1, <3>2
  <2>4. 1 \in DOMAIN columns
    BY <2>2
  <2>5. ColumnsOfKind(s, t, "primary") = {<<t, 1>>}
    BY <2>3, <2>4 DEF ColumnsOfKind, columns
  <2> QED BY <2>5, FS_Singleton
<1>4. \A i \in KeysOf(s) : KeyColumn(s, i) = <<ChildOf(s, i), Place(s, i) + 1>> /\ Place(s, i) \in Nat
  <2> SUFFICES ASSUME NEW i \in KeysOf(s)
               PROVE  KeyColumn(s, i) = <<ChildOf(s, i), Place(s, i) + 1>> /\ Place(s, i) \in Nat
    OBVIOUS
  <2> DEFINE below == {j \in Incoming(s, ChildOf(s, i)) : j < i}
  <2>1. IsFiniteSet(below)
    <3>1. IsFiniteSet(Incoming(s, ChildOf(s, i))) /\ below \subseteq Incoming(s, ChildOf(s, i))
      BY <1>1, SchemaBasics
    <3> QED BY <3>1, FS_Subset
  <2>2. KeyColumn(s, i) = <<ChildOf(s, i), 2 + Cardinality(below)>> /\ Place(s, i) = Cardinality(below) + 1
    BY DEF KeyColumn, Place
  <2> HIDE DEF below
  <2>3. Cardinality(below) \in Nat
    BY <2>1, FS_CardinalityType
  <2> QED BY <2>2, <2>3
<1>5. ASSUME NEW i \in KeysOf(s)
      PROVE  /\ ParentOf(s, i) # ChildOf(s, i)
             /\ ColumnOf(s, KeyColumn(s, i)).kind = "key"
             /\ ColumnOf(s, KeyColumn(s, i)).nullable = Optional(s, i)
  <2> DEFINE t == ChildOf(s, i)
             n == Cardinality(Incoming(b, t))
             columns == s.columns[t]
             k == Place(s, i)
  <2>1. ParentOf(s, i) # t
    <3>1. /\ s.ranks \in [TablesOf(s) -> Nat] /\ s.ranks[ParentOf(s, i)] < s.ranks[t]
          /\ ParentOf(s, i) \in TablesOf(s) /\ t \in TablesOf(s)
      BY <1>1, SchemaBasics DEF BlueprintAccepted
    <3>2. s.ranks[t] \in Nat
      BY <3>1
    <3> HIDE DEF t
    <3> QED BY <3>1, <3>2
  <2>2. k \in 1..n /\ InOrder(Incoming(b, t))[k] = i
    BY <1>1, <1>2, KeyPlace
  <2>3. columns \in TableColumns(c, b, t)
    BY <1>1, SchemaBasics
  <2>4. ColumnOf(s, KeyColumn(s, i)) = columns[k + 1]
    BY <1>4 DEF ColumnOf
  <2> HIDE DEF columns, k, t
  <2>5. columns[k + 1].kind = "key" /\ columns[k + 1].nullable = Optional(b, InOrder(Incoming(b, t))[k])
    BY <2>2, <2>3, TableColumnsFacts
  <2> QED BY <1>2, <2>1, <2>2, <2>4, <2>5 DEF t
<1>6. ASSUME NEW i \in KeysOf(s), NEW j \in KeysOf(s), KeyColumn(s, i) = KeyColumn(s, j) PROVE i = j
  <2>1. ChildOf(s, i) = ChildOf(s, j) /\ Place(s, i) + 1 = Place(s, j) + 1
    BY <1>4, <1>6
  <2>2. Place(s, i) = Place(s, j)
    BY <1>4, <2>1
  <2>3. InOrder(Incoming(s, ChildOf(s, i)))[Place(s, i)] = i /\ InOrder(Incoming(s, ChildOf(s, j)))[Place(s, j)] = j
    BY <1>1, KeyPlace
  <2> QED BY <2>1, <2>2, <2>3
<1>7. SchemaConstructs(s)
  BY <1>3, <1>5, <1>6 DEF SchemaConstructs
<1> QED BY <1>1, <1>7 DEF TraceConstructs

-----------------------------------------------------------------------------
(* Mechanisms of columns.                                                  *)

(* The columns of each table are a sequence.                               *)
ColumnsListed(s) ==
  \A t \in TablesOf(s) : DOMAIN s.columns[t] = 1..Len(s.columns[t]) /\ Len(s.columns[t]) \in Nat

(* A column is generated before another: by the rank of its table, and in  *)
(* one table by its place.                                                 *)
Precedes(s, c, d) == s.ranks[c[1]] < s.ranks[d[1]] \/ (c[1] = d[1] /\ c[2] < d[2])

(* Each column has one mechanism, and parents that precede it.             *)
Tidy(s, X) ==
  /\ \A x \in X : /\ x = [column |-> x.column, parents |-> x.parents]
                  /\ x.column \in AllFeatures(s) /\ x.parents \subseteq AllFeatures(s)
                  /\ \A q \in x.parents : Precedes(s, q, x.column)
  /\ \A x, y \in X : x.column = y.column => x = y

(* Columns are numbered within their tables.                               *)
LEMMA FeaturesAre ==
  ASSUME NEW s, BlueprintAccepted(s), ColumnsListed(s)
  PROVE  /\ \A t \in TablesOf(s) : \A c \in Features(s, t) : c = <<t, c[2]>> /\ c[2] \in 1..Len(s.columns[t])
         /\ \A c \in AllFeatures(s) : c = <<c[1], c[2]>> /\ c[1] \in TablesOf(s) /\ c[2] \in Nat
         /\ IsFiniteSet(AllFeatures(s))
<1>1. ASSUME NEW t \in TablesOf(s), NEW c \in Features(s, t) PROVE c = <<t, c[2]>> /\ c[2] \in 1..Len(s.columns[t])
  <2>1. PICK k \in DOMAIN s.columns[t] : c = <<t, k>>
    BY DEF Features, ColumnsOfKind
  <2> QED BY <2>1 DEF ColumnsListed
<1>2. ASSUME NEW c \in AllFeatures(s) PROVE c = <<c[1], c[2]>> /\ c[1] \in TablesOf(s) /\ c[2] \in Nat
  <2>1. PICK t \in TablesOf(s) : c \in Features(s, t)
    BY DEF AllFeatures
  <2>2. c = <<t, c[2]>> /\ c[2] \in 1..Len(s.columns[t])
    BY <1>1, <2>1
  <2> QED BY <2>1, <2>2
<1>3. IsFiniteSet(AllFeatures(s))
  <2> DEFINE all == {Features(s, t) : t \in TablesOf(s)}
  <2>1. ASSUME NEW t \in TablesOf(s) PROVE IsFiniteSet(Features(s, t))
    <3> DEFINE n == Len(s.columns[t])
               ordinals == [c \in Features(s, t) |-> c[2]]
    <3>1. n \in Nat
      BY DEF ColumnsListed
    <3>2. \A c \in Features(s, t) : c = <<t, c[2]>> /\ c[2] \in 1..n
      BY <1>1
    <3> HIDE DEF n
    <3>3. ordinals \in Injection(Features(s, t), 1..n)
      BY <3>2 DEF Injection, IsInjective
    <3>4. IsFiniteSet(1..n)
      BY <3>1, FS_Interval
    <3> HIDE DEF ordinals
    <3> QED BY <3>3, <3>4, FS_Injection
  <2>2. IsFiniteSet(all)
    <3>1. IsFiniteSet(TablesOf(s))
      BY SchemaBasics
    <3> DEFINE f == [t \in TablesOf(s) |-> Features(s, t)]
    <3>2. f \in Surjection(TablesOf(s), all)
      BY DEF Surjection
    <3> HIDE DEF f, all
    <3> QED BY <3>1, <3>2, FS_Surjection
  <2>3. \A T \in all : IsFiniteSet(T)
    BY <2>1
  <2> HIDE DEF all
  <2>4. IsFiniteSet(UNION all)
    BY <2>2, <2>3, FS_UNION
  <2> QED BY <2>4 DEF all, AllFeatures
<1> QED BY <1>1, <1>2, <1>3

(* A column that precedes another precedes what that one precedes, and none*)
(* precedes itself.                                                        *)
LEMMA PrecedesOrders ==
  ASSUME NEW s, BlueprintAccepted(s), ColumnsListed(s)
  PROVE  /\ \A c \in AllFeatures(s) : ~Precedes(s, c, c)
         /\ \A c, d, e \in AllFeatures(s) : Precedes(s, c, d) /\ Precedes(s, d, e) => Precedes(s, c, e)
<1>1. \A c \in AllFeatures(s) : c[1] \in TablesOf(s) /\ c[2] \in Nat /\ s.ranks[c[1]] \in Nat
  <2>1. s.ranks \in [TablesOf(s) -> Nat]
    BY DEF BlueprintAccepted
  <2> QED BY <2>1, FeaturesAre
<1>2. ASSUME NEW c \in AllFeatures(s) PROVE ~Precedes(s, c, c)
  BY <1>1 DEF Precedes
<1>3. ASSUME NEW c \in AllFeatures(s), NEW d \in AllFeatures(s), NEW e \in AllFeatures(s), Precedes(s, c, d), Precedes(s, d, e)
      PROVE  Precedes(s, c, e)
  BY <1>1, <1>3 DEF Precedes
<1> QED BY <1>2, <1>3

Mechanized(p) == {m.column : m \in p.columns}

(* The columns reached along parents, in more and more steps.              *)
Reachings(steps, p, n) ==
  /\ steps \in [0..n -> Range(steps)] /\ steps[0] = [c \in Mechanized(p) |-> ColumnParents(p, c)]
  /\ \A k \in 1..n : steps[k] = Reached(Mechanized(p), steps[k - 1])

(* The check for cycles follows them.                                      *)
LEMMA ReachSteps ==
  ASSUME NEW p, NEW n \in Nat, Cardinality(Mechanized(p)) = n
  PROVE  \E steps : Acyclic(p) = (\A c \in Mechanized(p) : c \notin steps[n][c]) /\ Reachings(steps, p, n)
<1> DEFINE Start == [c \in Mechanized(p) |-> ColumnParents(p, c)]
           Following(k, before) == Reached(Mechanized(p), before)
           Solves(f, m) == f = [k \in 0..m |-> IF k = 0 THEN Start ELSE Following(k, f[k - 1])]
           steps == CHOOSE f : Solves(f, n)
<1>1. Acyclic(p) = (\A c \in Mechanized(p) : c \notin steps[n][c])
  BY DEF Acyclic, Mechanized
<1> HIDE DEF Start, Following
<1>2. \A m \in Nat : \E f : Solves(f, m)
  <2> DEFINE Bad == {m \in Nat : ~\E f : Solves(f, m)}
  <2> SUFFICES ASSUME Bad # {} PROVE FALSE
    OBVIOUS
  <2>1. PICK m \in Bad : \A k \in Bad : m <= k
    <3>1. Bad \in SUBSET Nat
      OBVIOUS
    <3> HIDE DEF Bad
    <3> QED BY <3>1, LeastNatural
  <2>2. m # 0
    <3>1. Solves([k \in 0..0 |-> Start], 0)
      OBVIOUS
    <3> QED BY <2>1, <3>1
  <2>3. \E f : Solves(f, m - 1)
    <3>1. m - 1 \in Nat /\ ~(m <= m - 1)
      BY <2>1, <2>2
    <3> HIDE DEF Solves
    <3> QED BY <2>1, <3>1
  <2>4. PICK f : Solves(f, m - 1)
    BY <2>3
  <2> DEFINE g == [k \in 0..m |-> IF k < m THEN f[k] ELSE Following(m, f[m - 1])]
  <2>5. Solves(g, m)
    <3>1. \A k \in 0..(m - 1) : g[k] = f[k]
      BY <2>1, <2>2
    <3>2. \A k \in 0..m : g[k] = IF k = 0 THEN Start ELSE Following(k, g[k - 1])
      BY <2>1, <2>2, <2>4, <3>1
    <3> QED BY <3>2
  <2> HIDE DEF g, Solves
  <2> QED BY <2>1, <2>5
<1>3. Solves(steps, n)
  <2> HIDE DEF Solves
  <2> QED BY <1>2
<1> HIDE DEF steps
<1>4. steps[0] = Start /\ \A k \in 1..n : steps[k] = Following(k, steps[k - 1])
  BY <1>3
<1>5. steps \in [0..n -> Range(steps)]
  <2> DEFINE value == [k \in 0..n |-> IF k = 0 THEN Start ELSE Following(k, steps[k - 1])]
  <2>1. steps = value
    BY <1>3
  <2>2. value \in [DOMAIN value -> {value[x] : x \in DOMAIN value}] /\ DOMAIN value = 0..n
    OBVIOUS
  <2> HIDE DEF value
  <2> QED BY <2>1, <2>2 DEF Range
<1> QED BY <1>1, <1>4, <1>5 DEF Start, Following, Reachings

(* Columns with parents that precede them are in no cycle.                 *)
LEMMA TidyAccepted ==
  ASSUME NEW s, BlueprintAccepted(s), ColumnsListed(s), NEW p, Tidy(s, p.columns)
  PROVE  MechanismsUnique(p) /\ Acyclic(p) /\ ColumnsKnown(s, p)
<1>1. MechanismsUnique(p)
  BY DEF MechanismsUnique, Tidy
<1>2. ColumnsKnown(s, p)
  BY DEF ColumnsKnown, Tidy
<1> DEFINE columns == Mechanized(p)
           n == Cardinality(columns)
           Earlier(c) == {q \in AllFeatures(s) : Precedes(s, q, c)}
<1>3. columns \in SUBSET AllFeatures(s)
  BY DEF Mechanized, Tidy
<1>4. n \in Nat
  <2> HIDE DEF columns
  <2>1. IsFiniteSet(AllFeatures(s))
    BY FeaturesAre
  <2> QED BY <1>3, <2>1, FS_Subset, FS_CardinalityType
<1>5. \A c \in columns : ColumnParents(p, c) \subseteq Earlier(c)
  BY DEF ColumnParents, Tidy
<1> HIDE DEF n
<1>6. PICK steps : Acyclic(p) = (\A c \in columns : c \notin steps[n][c]) /\ Reachings(steps, p, n)
  BY <1>4, ReachSteps DEF n
<1>7. steps[0] = [c \in columns |-> ColumnParents(p, c)] /\ \A k \in 1..n : steps[k] = Reached(columns, steps[k - 1])
  BY <1>6 DEF Reachings
<1> HIDE DEF columns
<1>8. \A k \in 0..n : \A c \in columns : steps[k][c] \subseteq Earlier(c)
  <2> DEFINE Backward(k) == \A c \in columns : steps[k][c] \subseteq Earlier(c)
             Bad == {k \in 0..n : ~Backward(k)}
  <2> SUFFICES ASSUME Bad # {} PROVE FALSE
    OBVIOUS
  <2>1. PICK k \in Bad : \A j \in Bad : k <= j
    <3>1. Bad \in SUBSET Nat
      BY <1>4
    <3> HIDE DEF Bad
    <3> QED BY <3>1, LeastNatural
  <2>2. k # 0
    <3>1. Backward(0)
      BY <1>5, <1>7
    <3> HIDE DEF Backward
    <3> QED BY <2>1, <3>1
  <2>3. k \in 1..n /\ k - 1 \in 0..n /\ ~(k <= k - 1)
    <3> HIDE DEF Backward
    <3> QED BY <1>4, <2>1, <2>2
  <2>4. Backward(k - 1)
    <3> HIDE DEF Backward
    <3> QED BY <2>1, <2>3
  <2> DEFINE before == steps[k - 1]
  <2>5. steps[k] = [c \in columns |-> before[c] \cup UNION {before[d] : d \in before[c] \cap columns}]
    BY <1>7, <2>3 DEF Reached
  <2>6. \A c \in columns : before[c] \subseteq Earlier(c)
    BY <2>4
  <2> HIDE DEF before, Backward
  <2>7. ASSUME NEW c \in columns PROVE steps[k][c] \subseteq Earlier(c)
    <3>1. \A d \in before[c] \cap columns : before[d] \subseteq Earlier(c)
      <4> SUFFICES ASSUME NEW d \in before[c] \cap columns, NEW q \in before[d] PROVE q \in Earlier(c)
        OBVIOUS
      <4>1. d \in AllFeatures(s) /\ Precedes(s, d, c) /\ q \in AllFeatures(s) /\ Precedes(s, q, d) /\ c \in AllFeatures(s)
        BY <1>3, <2>6, <2>7
      <4>2. Precedes(s, q, c)
        BY <4>1, PrecedesOrders
      <4> QED BY <4>1, <4>2
    <3>2. steps[k][c] = before[c] \cup UNION {before[d] : d \in before[c] \cap columns}
      BY <2>5, <2>7
    <3> HIDE DEF Earlier
    <3> QED BY <2>6, <2>7, <3>1, <3>2
  <2>8. Backward(k)
    BY <2>7 DEF Backward
  <2> QED BY <2>1, <2>8
<1>9. n \in 0..n
  BY <1>4
<1>10. \A c \in columns : c \notin steps[n][c]
  <2> SUFFICES ASSUME NEW c \in columns, c \in steps[n][c] PROVE FALSE
    OBVIOUS
  <2>1. c \in Earlier(c)
    <3> HIDE DEF Earlier
    <3> QED BY <1>8, <1>9
  <2> QED BY <2>1, PrecedesOrders
<1> QED BY <1>1, <1>2, <1>6, <1>10

-----------------------------------------------------------------------------
(* Drawing the parents of columns.                                         *)

(* The columns of a compiled table are a sequence.                         *)
LEMMA CompiledListed ==
  ASSUME NEW c, CompilerConfigAccepted(c), NEW b, BlueprintAccepted(b), NEW s \in Compile(c, b)
  PROVE  ColumnsListed(s)
<1> SUFFICES ASSUME NEW t \in TablesOf(s) PROVE DOMAIN s.columns[t] = 1..Len(s.columns[t]) /\ Len(s.columns[t]) \in Nat
  BY DEF ColumnsListed
<1>1. s.columns[t] \in TableColumns(c, b, t)
  BY CompileFacts
<1> DEFINE columns == s.columns[t]
<1>2. columns \in TableColumns(c, b, t)
  BY <1>1
<1> HIDE DEF columns
<1>3. DOMAIN columns = 1..Len(columns) /\ Len(columns) \in Nat
  BY <1>2, TableColumnsFacts
<1> QED BY <1>3 DEF columns

(* The tables of an occurrence are tables of the schema.                   *)
LEMMA OccurrenceTables ==
  ASSUME NEW s, BlueprintAccepted(s), NEW k \in DOMAIN s.occurrences
  PROVE  s.occurrences[k].tables \subseteq TablesOf(s)
<1> DEFINE table == TablesOf(s) \cup {0}
           Occurrences == [tables : SUBSET TablesOf(s), entity : table, event : table, compatible : BOOLEAN]
<1>1. s.occurrences \in Seq(Occurrences)
  BY DEF BlueprintAccepted
<1>2. s.occurrences[k] \in Occurrences
  <2> HIDE DEF Occurrences
  <2> QED BY <1>1
<1> QED BY <1>2

(* What a feature may depend on precedes it.                               *)
LEMMA ChoicesPrecede ==
  ASSUME NEW s, BlueprintAccepted(s), ColumnsListed(s), NEW o, NEW t \in TablesOf(s), NEW depths,
         NEW c \in Features(s, t), NEW P \in ColumnChoices(s, o, t, depths, c)
  PROVE  P \subseteq AllFeatures(s) /\ \A q \in P : Precedes(s, q, c)
<1>1. P \subseteq EarlierFeatures(s, t, c) \cup ParentFeatures(s, o, t)
  BY DEF ColumnChoices
<1>2. c = <<t, c[2]>>
  BY FeaturesAre
<1>3. ASSUME NEW q \in EarlierFeatures(s, t, c) PROVE q \in AllFeatures(s) /\ Precedes(s, q, c)
  <2>1. q \in Features(s, t) /\ q[2] < c[2]
    BY <1>3 DEF EarlierFeatures
  <2>2. q = <<t, q[2]>>
    BY <2>1, FeaturesAre
  <2>3. q[1] = c[1]
    BY <1>2, <2>2
  <2> QED BY <2>1, <2>3 DEF AllFeatures, Precedes
<1>4. ASSUME NEW q \in ParentFeatures(s, o, t) PROVE q \in AllFeatures(s) /\ Precedes(s, q, c)
  <2>1. PICK i \in Incoming(s, t) : q \in Features(s, ParentOf(s, i))
    BY <1>4 DEF ParentFeatures
  <2>2. i \in KeysOf(s) /\ ChildOf(s, i) = t
    BY DEF Incoming
  <2>3. ParentOf(s, i) \in TablesOf(s)
    BY <2>2, SchemaBasics
  <2>4. s.ranks[ParentOf(s, i)] < s.ranks[t]
    BY <2>2 DEF BlueprintAccepted
  <2>5. q = <<ParentOf(s, i), q[2]>>
    BY <2>1, <2>3, FeaturesAre
  <2>6. q[1] = ParentOf(s, i) /\ c[1] = t
    BY <1>2, <2>5
  <2> QED BY <2>1, <2>3, <2>4, <2>6 DEF AllFeatures, Precedes
<1> QED BY <1>1, <1>3, <1>4

(* The mechanisms drawn for the first columns, one after the other.        *)
Drawings(steps, s, o, t, n) ==
  /\ steps \in [0..n -> Range(steps)] /\ steps[0] = {[mechanisms |-> {}, depths |-> << >>]}
  /\ \A k \in 1..n : steps[k] = DrawNext(s, o, t, steps[k - 1], k)

(* Parents are drawn column by column.                                     *)
LEMMA DrawSteps ==
  ASSUME NEW s, NEW o, NEW t, NEW n \in Nat, Len(s.columns[t]) = n
  PROVE  \E steps : ColumnDraws(s, o, t) = {d.mechanisms : d \in steps[n]} /\ Drawings(steps, s, o, t, n)
<1> DEFINE Start == {[mechanisms |-> {}, depths |-> << >>]}
           Following(k, before) == DrawNext(s, o, t, before, k)
           Solves(f, m) == f = [k \in 0..m |-> IF k = 0 THEN Start ELSE Following(k, f[k - 1])]
           steps == CHOOSE f : Solves(f, n)
<1>1. ColumnDraws(s, o, t) = {d.mechanisms : d \in steps[n]}
  BY DEF ColumnDraws
<1> HIDE DEF Start, Following
<1>2. \A m \in Nat : \E f : Solves(f, m)
  <2> DEFINE Bad == {m \in Nat : ~\E f : Solves(f, m)}
  <2> SUFFICES ASSUME Bad # {} PROVE FALSE
    OBVIOUS
  <2>1. PICK m \in Bad : \A k \in Bad : m <= k
    <3>1. Bad \in SUBSET Nat
      OBVIOUS
    <3> HIDE DEF Bad
    <3> QED BY <3>1, LeastNatural
  <2>2. m # 0
    <3>1. Solves([k \in 0..0 |-> Start], 0)
      OBVIOUS
    <3> QED BY <2>1, <3>1
  <2>3. \E f : Solves(f, m - 1)
    <3>1. m - 1 \in Nat /\ ~(m <= m - 1)
      BY <2>1, <2>2
    <3> HIDE DEF Solves
    <3> QED BY <2>1, <3>1
  <2>4. PICK f : Solves(f, m - 1)
    BY <2>3
  <2> DEFINE g == [k \in 0..m |-> IF k < m THEN f[k] ELSE Following(m, f[m - 1])]
  <2>5. Solves(g, m)
    <3>1. \A k \in 0..(m - 1) : g[k] = f[k]
      BY <2>1, <2>2
    <3>2. \A k \in 0..m : g[k] = IF k = 0 THEN Start ELSE Following(k, g[k - 1])
      BY <2>1, <2>2, <2>4, <3>1
    <3> QED BY <3>2
  <2> HIDE DEF g, Solves
  <2> QED BY <2>1, <2>5
<1>3. Solves(steps, n)
  <2> HIDE DEF Solves
  <2> QED BY <1>2
<1> HIDE DEF steps
<1>4. steps[0] = Start /\ \A k \in 1..n : steps[k] = Following(k, steps[k - 1])
  BY <1>3
<1>5. steps \in [0..n -> Range(steps)]
  <2> DEFINE value == [k \in 0..n |-> IF k = 0 THEN Start ELSE Following(k, steps[k - 1])]
  <2>1. steps = value
    BY <1>3
  <2>2. value \in [DOMAIN value -> {value[x] : x \in DOMAIN value}] /\ DOMAIN value = 0..n
    OBVIOUS
  <2> HIDE DEF value
  <2> QED BY <2>1, <2>2 DEF Range
<1> QED BY <1>1, <1>4, <1>5 DEF Start, Following, Drawings

(* Mechanisms of the first columns of a table.                             *)
DrawnTo(s, t, k, X) == Tidy(s, X) /\ \A x \in X : x.column \in Features(s, t) /\ x.column[2] <= k

(* A mechanism more.                                                       *)
LEMMA DrawnMore ==
  ASSUME NEW s, BlueprintAccepted(s), ColumnsListed(s), NEW o, NEW t \in TablesOf(s),
         NEW k \in 1..Len(s.columns[t]), s.columns[t][k].kind = "feature",
         NEW d, DrawnTo(s, t, k - 1, d.mechanisms), NEW P \in ColumnChoices(s, o, t, d.depths, <<t, k>>)
  PROVE  DrawnTo(s, t, k, WithMechanism(d, <<t, k>>, P).mechanisms)
<1> DEFINE c == <<t, k>>
           m == [column |-> c, parents |-> P]
           X == d.mechanisms
<1>0. k \in Nat
  BY DEF ColumnsListed
<1>1. WithMechanism(d, c, P).mechanisms = X \cup {m}
  BY DEF WithMechanism
<1>2. c \in Features(s, t)
  BY DEF Features, ColumnsOfKind, ColumnsListed
<1>3. P \subseteq AllFeatures(s) /\ \A q \in P : Precedes(s, q, c)
  <2> HIDE DEF c
  <2> QED BY <1>2, ChoicesPrecede DEF c
<1>4. m.column = c /\ m.parents = P /\ c[2] = k
  OBVIOUS
<1>5. m = [column |-> m.column, parents |-> m.parents]
  BY <1>4
<1>6. c \in AllFeatures(s)
  BY <1>2 DEF AllFeatures
<1>7. \A x \in X : /\ x.column \in Features(s, t) /\ x.column[2] <= k - 1
                   /\ x.column[2] \in Nat
  <2>1. \A x \in X : x.column \in Features(s, t) /\ x.column[2] <= k - 1
    BY DEF DrawnTo
  <2>2. \A q \in Features(s, t) : q[2] \in Nat
    BY FeaturesAre DEF ColumnsListed
  <2> HIDE DEF X
  <2> QED BY <2>1, <2>2
<1>8. Tidy(s, X)
  BY DEF DrawnTo
<1> HIDE DEF m, X
<1>9. \A x \in X : x.column[2] # k
  BY <1>0, <1>7
<1>10. \A x \in X : x.column # m.column
  BY <1>4, <1>9
<1> HIDE DEF c
<1>11. Tidy(s, X \cup {m})
  BY <1>3, <1>4, <1>5, <1>6, <1>8, <1>10 DEF Tidy
<1>12. \A x \in X \cup {m} : x.column \in Features(s, t) /\ x.column[2] <= k
  BY <1>0, <1>2, <1>4, <1>7
<1> QED BY <1>1, <1>11, <1>12 DEF DrawnTo, c

(* The mechanisms drawn for a table.                                       *)
LEMMA DrawsTidy ==
  ASSUME NEW s, BlueprintAccepted(s), ColumnsListed(s), NEW o, NEW t \in TablesOf(s), NEW X \in ColumnDraws(s, o, t)
  PROVE  Tidy(s, X) /\ \A x \in X : x.column \in Features(s, t)
<1> DEFINE n == Len(s.columns[t])
<1>1. n \in Nat
  BY DEF ColumnsListed
<1>2. PICK steps : ColumnDraws(s, o, t) = {d.mechanisms : d \in steps[n]} /\ Drawings(steps, s, o, t, n)
  BY <1>1, DrawSteps
<1>3. steps[0] = {[mechanisms |-> {}, depths |-> << >>]} /\ \A k \in 1..n : steps[k] = DrawNext(s, o, t, steps[k - 1], k)
  BY <1>2 DEF Drawings
<1>4. \A k \in 0..n : \A d \in steps[k] : DrawnTo(s, t, k, d.mechanisms)
  <2> DEFINE Good(k) == \A d \in steps[k] : DrawnTo(s, t, k, d.mechanisms)
             Bad == {k \in 0..n : ~Good(k)}
  <2> SUFFICES ASSUME Bad # {} PROVE FALSE
    OBVIOUS
  <2>1. PICK k \in Bad : \A j \in Bad : k <= j
    <3>1. Bad \in SUBSET Nat
      BY <1>1
    <3> HIDE DEF Bad
    <3> QED BY <3>1, LeastNatural
  <2>2. k # 0
    <3>1. Good(0)
      <4>1. \A d \in steps[0] : d.mechanisms = {}
        BY <1>3
      <4>2. DrawnTo(s, t, 0, {})
        BY DEF DrawnTo, Tidy
      <4> QED BY <4>1, <4>2
    <3> HIDE DEF Good
    <3> QED BY <2>1, <3>1
  <2>3. k \in 1..n /\ k - 1 \in 0..n /\ ~(k <= k - 1)
    <3> HIDE DEF Good, n
    <3> QED BY <1>1, <2>1, <2>2
  <2>4. Good(k - 1)
    <3> HIDE DEF Good
    <3> QED BY <2>1, <2>3
  <2>5. steps[k] = DrawNext(s, o, t, steps[k - 1], k)
    BY <1>3, <2>3
  <2>6. CASE s.columns[t][k].kind = "feature"
    <3>1. ASSUME NEW e \in steps[k] PROVE DrawnTo(s, t, k, e.mechanisms)
      <4>1. PICK d \in steps[k - 1] : e \in {WithMechanism(d, <<t, k>>, P) : P \in ColumnChoices(s, o, t, d.depths, <<t, k>>)}
        BY <2>5, <2>6, <3>1 DEF DrawNext
      <4>2. PICK P \in ColumnChoices(s, o, t, d.depths, <<t, k>>) : e = WithMechanism(d, <<t, k>>, P)
        BY <4>1
      <4>3. DrawnTo(s, t, k - 1, d.mechanisms)
        BY <2>4
      <4> QED BY <2>3, <2>6, <4>2, <4>3, DrawnMore
    <3> QED BY <2>1, <3>1
  <2>7. CASE s.columns[t][k].kind # "feature"
    <3>1. steps[k] = steps[k - 1]
      BY <2>5, <2>7 DEF DrawNext
    <3>2. ASSUME NEW Y, DrawnTo(s, t, k - 1, Y) PROVE DrawnTo(s, t, k, Y)
      <4>1. \A x \in Y : x.column \in Features(s, t) /\ x.column[2] <= k - 1 /\ Tidy(s, Y)
        BY <3>2 DEF DrawnTo
      <4>2. \A q \in Features(s, t) : q[2] \in Nat
        BY FeaturesAre DEF ColumnsListed
      <4>3. \A x \in Y : x.column[2] <= k
        BY <1>1, <2>3, <4>1, <4>2
      <4> QED BY <3>2, <4>3 DEF DrawnTo
    <3>3. Good(k)
      BY <2>4, <3>1, <3>2
    <3> HIDE DEF Good
    <3> QED BY <2>1, <3>3
  <2> QED BY <2>6, <2>7
<1>5. n \in 0..n
  BY <1>1
<1>6. PICK d \in steps[n] : X = d.mechanisms
  BY <1>2
<1>7. DrawnTo(s, t, n, X)
  BY <1>4, <1>5, <1>6
<1> QED BY <1>7 DEF DrawnTo

-----------------------------------------------------------------------------
(* Bundles agree.                                                          *)

(* A choice whose components fit together, and its family.                 *)
ChoiceSound(choice) ==
  LET c == choice.components
  IN /\ c = Composition(c.attribute, c.relation, c.temporal, c.process)
     /\ BundleConstructs(choice)
     /\ choice.family \in TemporalFamilies => c.temporal # "static"

(* A configured or default composition fits together.                      *)
LEMMA ChoiceFacts ==
  ASSUME NEW s, NEW r, PriorConfigAccepted(r), NEW choice \in PriorChoices(s, r)
  PROVE  ChoiceSound(choice)
<1>1. CASE r.compositions = {}
  <2>1. PICK f \in Families(s, r) : choice = [family |-> f, components |-> DefaultComposition(f)]
    BY <1>1 DEF PriorChoices
  <2>2. choice.family = f /\ choice.components = DefaultComposition(f)
    BY <2>1
  <2>3. DefaultComposition(f) \in
          {Composition("column_scm", "state_conditioned_event", "changing", "none"),
           Composition("column_scm", "state_conditioned_event", "changing", "rule"),
           Composition("tree", "tree", "static", "none"), Composition("column_scm", "scm", "static", "none"),
           Composition("legacy_scm", "latent_affinity", "static", "none")}
    BY DEF DefaultComposition
  <2>4. f \in TemporalFamilies => DefaultComposition(f).temporal = "changing"
    BY DEF DefaultComposition, Composition, TemporalFamilies
  <2>5. \A c \in {Composition("column_scm", "state_conditioned_event", "changing", "none"),
                  Composition("column_scm", "state_conditioned_event", "changing", "rule"),
                  Composition("tree", "tree", "static", "none"), Composition("column_scm", "scm", "static", "none"),
                  Composition("legacy_scm", "latent_affinity", "static", "none")} :
          /\ c = Composition(c.attribute, c.relation, c.temporal, c.process)
          /\ c.relation = "state_conditioned_event" \/ c.process \in {"state_machine", "workflow"} => c.temporal # "static"
    BY DEF Composition
  <2> HIDE DEF ChoiceSound
  <2>6. PICK c : c = choice.components
    OBVIOUS
  <2>7. /\ c = Composition(c.attribute, c.relation, c.temporal, c.process)
        /\ c.relation = "state_conditioned_event" \/ c.process \in {"state_machine", "workflow"} => c.temporal # "static"
        /\ choice.family \in TemporalFamilies => c.temporal # "static"
    BY <2>2, <2>3, <2>4, <2>5, <2>6
  <2> QED BY <2>6, <2>7 DEF ChoiceSound, BundleConstructs
<1>2. CASE r.compositions # {}
  <2>1. PICK c \in r.compositions : choice = [family |-> FamilyOf(s, c), components |-> c]
    BY <1>2 DEF PriorChoices
  <2>2. choice.family = FamilyOf(s, c) /\ choice.components = c
    BY <2>1
  <2>3. FamilyOf(s, c) \in TemporalFamilies => c.temporal # "static"
    BY DEF FamilyOf, TemporalFamilies
  <2>4. /\ c = Composition(c.attribute, c.relation, c.temporal, c.process)
        /\ c.relation = "state_conditioned_event" \/ c.process \in {"state_machine", "workflow"} => c.temporal # "static"
    BY DEF PriorConfigAccepted
  <2> QED BY <2>2, <2>3, <2>4 DEF ChoiceSound, BundleConstructs
<1> QED BY <1>1, <1>2

Legacy == Composition("legacy_scm", "latent_affinity", "static", "none")
Scm == Composition("column_scm", "scm", "static", "none")

(* A bundle has the mechanisms of the choice, or those every other gives   *)
(* way to.                                                                 *)
BundleAgrees(choice, b) ==
  IF choice.family = "relational_scm" THEN b.components = Scm
  ELSE b.components = Legacy
       \/ (b.components.attribute = choice.components.attribute /\ b.components.relation = choice.components.relation)

BundleSound(s, choice, b) == BundleConstructs(b) /\ BundleAgrees(choice, b) /\ Tidy(s, b.columns)

(* No mechanism is tidy.                                                   *)
LEMMA NoneTidy == \A s : Tidy(s, {})
  BY DEF Tidy

(* Mechanisms of several tables, each of its own columns, are tidy.        *)
LEMMA TidyUnion ==
  ASSUME NEW s, BlueprintAccepted(s), ColumnsListed(s), NEW T \in SUBSET TablesOf(s), NEW f, DOMAIN f = T,
         \A t \in T : Tidy(s, f[t]) /\ \A x \in f[t] : x.column \in Features(s, t)
  PROVE  Tidy(s, UNION Range(f))
<1>1. ASSUME NEW x \in UNION Range(f) PROVE \E t \in T : x \in f[t]
  BY <1>1 DEF Range
<1>2. ASSUME NEW x \in UNION Range(f)
      PROVE  /\ x = [column |-> x.column, parents |-> x.parents]
             /\ x.column \in AllFeatures(s) /\ x.parents \subseteq AllFeatures(s)
             /\ \A q \in x.parents : Precedes(s, q, x.column)
  <2>1. PICK t \in T : x \in f[t]
    BY <1>1, <1>2
  <2>2. Tidy(s, f[t])
    OBVIOUS
  <2> QED BY <2>1, <2>2 DEF Tidy
<1>3. ASSUME NEW x \in UNION Range(f), NEW y \in UNION Range(f), x.column = y.column PROVE x = y
  <2>1. PICK t \in T : x \in f[t]
    BY <1>1, <1>3
  <2>2. PICK u \in T : y \in f[u]
    BY <1>1, <1>3
  <2>3. x.column \in Features(s, t) /\ y.column \in Features(s, u)
    BY <2>1, <2>2
  <2>4. x.column = <<t, x.column[2]>> /\ y.column = <<u, y.column[2]>>
    BY <2>3, FeaturesAre
  <2>5. t = u
    BY <1>3, <2>4
  <2>6. Tidy(s, f[t])
    OBVIOUS
  <2> QED BY <1>3, <2>1, <2>2, <2>5, <2>6 DEF Tidy
<1> QED BY <1>2, <1>3 DEF Tidy

(* The bundle of a relational_scm prior.                                   *)
LEMMA ScmBundleSound ==
  ASSUME NEW s, BlueprintAccepted(s), ColumnsListed(s), NEW k \in DOMAIN s.occurrences,
         NEW b \in RelationalScmBundles(s, s.occurrences[k])
  PROVE  b.components = Scm /\ Tidy(s, b.columns)
<1> DEFINE o == s.occurrences[k]
           keys == {i \in KeysOf(s) : ChildOf(s, i) \in o.tables}
           populations == ScmPopulations(s, o)
           draws == [t \in o.tables |-> ColumnDraws(s, o, t)]
           base == Bundle("relational_scm", o.tables, keys, DefaultComposition("relational_scm"))
<1>1. PICK f \in EachOf(draws) : b = [base EXCEPT !.columns = UNION Range(f), !.populations = populations]
  BY DEF RelationalScmBundles
<1> DEFINE columns == UNION Range(f)
           tables == o.tables
           components == DefaultComposition("relational_scm")
<1>2. base = [family |-> "relational_scm", tables |-> tables, keys |-> keys, components |-> components, columns |-> {},
              populations |-> {}, entity |-> 0, event |-> 0]
  BY DEF Bundle
<1>3. b = [base EXCEPT !.columns = columns, !.populations = populations]
  BY <1>1
<1>4. o.tables \in SUBSET TablesOf(s)
  BY OccurrenceTables
<1>5. DOMAIN f = o.tables /\ \A t \in o.tables : f[t] \in ColumnDraws(s, o, t)
  <2>1. DOMAIN f = DOMAIN draws /\ \A t \in DOMAIN draws : f[t] \in draws[t]
    <3> HIDE DEF draws
    <3> QED BY EachOfFacts
  <2> QED BY <2>1
<1> HIDE DEF o, draws, keys, populations
<1>6. \A t \in o.tables : Tidy(s, f[t]) /\ \A x \in f[t] : x.column \in Features(s, t)
  BY <1>4, <1>5, DrawsTidy
<1>7. Tidy(s, columns)
  BY <1>4, <1>5, <1>6, TidyUnion
<1>8. components = Scm
  BY DEF DefaultComposition, Scm
<1> HIDE DEF base, columns, components, tables
<1>9. b.columns = columns /\ b.components = components
  BY <1>2, <1>3
<1> QED BY <1>7, <1>8, <1>9

(* A bundle about an entity and its event draws no columns.                *)
LEMMA TreeBundlePlain ==
  ASSUME NEW s, NEW r, NEW o, NEW choice
  PROVE  /\ TreeBundle(s, o, choice).columns = {} /\ TemporalBundle(s, r, o, choice).columns = {}
         /\ TreeBundle(s, o, choice).components = choice.components
BY TreeBundleFacts

(* A bundle with the attributes and the relation of the choice.            *)
TreeLike(choice, b) ==
  /\ BundleConstructs(b) /\ b.columns = {}
  /\ b.components.attribute = choice.components.attribute /\ b.components.relation = choice.components.relation

(* A bundle about an entity and its event has the components of the choice,*)
(* and perhaps another process.                                            *)
LEMMA TreeBundleSound ==
  ASSUME NEW s, NEW r, NEW o, NEW choice, ChoiceSound(choice),
         NEW b, b = TreeBundle(s, o, choice) \/ (choice.family \in TemporalFamilies /\ b = TemporalBundle(s, r, o, choice))
  PROVE  TreeLike(choice, b)
<1> DEFINE tree == TreeBundle(s, o, choice)
           c == choice.components
           timed == TemporalBundle(s, r, o, choice)
<1>0. tree.columns = {} /\ timed.columns = {} /\ tree.components = choice.components
  BY TreeBundlePlain
<1>1. b.columns = {}
  <2> HIDE DEF tree, timed
  <2>1. b = tree \/ b = timed
    BY DEF tree, timed
  <2> QED BY <1>0, <2>1
<1>2. tree.components = c
  BY <1>0
<1>3. c = [attribute |-> c.attribute, relation |-> c.relation, temporal |-> c.temporal, process |-> c.process]
  BY DEF ChoiceSound, Composition
<1>4. CASE b = tree
  BY <1>1, <1>2, <1>4 DEF ChoiceSound, BundleConstructs, TreeLike
<1>5. CASE b # tree
  <2>1. choice.family \in TemporalFamilies /\ b = [tree EXCEPT !.components.process = "state_machine"]
    BY <1>5 DEF TemporalBundle
  <2>2. c.temporal # "static"
    BY <2>1 DEF ChoiceSound
  <2>3. "components" \in DOMAIN tree
    BY DEF TreeBundle, Bundle
  <2> HIDE DEF tree, c
  <2>4. b.components = [tree.components EXCEPT !.process = "state_machine"]
    BY <2>1, <2>3
  <2>5. b.components = [c EXCEPT !.process = "state_machine"]
    BY <1>2, <2>4
  <2>6. b.components.attribute = c.attribute /\ b.components.relation = c.relation /\ b.components.temporal = c.temporal
    BY <1>3, <2>5
  <2>7. BundleConstructs(b)
    BY <2>2, <2>6 DEF BundleConstructs
  <2> QED BY <1>1, <2>6, <2>7 DEF c, TreeLike
<1> QED BY <1>4, <1>5

(* Every bundle of a choice.                                               *)
LEMMA BundlesSound ==
  ASSUME NEW s, BlueprintAccepted(s), ColumnsListed(s), NEW r, NEW k \in DOMAIN s.occurrences,
         NEW choice, ChoiceSound(choice), NEW b \in BundlesFor(s, r, s.occurrences[k], choice)
  PROVE  BundleSound(s, choice, b)
<1> DEFINE o == s.occurrences[k]
<1>1. CASE choice.family = "relational_scm"
  <2>1. b \in RelationalScmBundles(s, o)
    <3>1. BundlesFor(s, r, o, choice) = RelationalScmBundles(s, o)
      BY <1>1, Zenon DEF BundlesFor, TemporalFamilies
    <3> QED BY <3>1
  <2>2. b.components = Scm /\ Tidy(s, b.columns)
    BY <2>1, ScmBundleSound
  <2>3. BundleConstructs(b)
    BY <2>2 DEF BundleConstructs, Scm, Composition
  <2> QED BY <1>1, <2>2, <2>3 DEF BundleSound, BundleAgrees
<1>2. CASE choice.family # "relational_scm" /\ b = LegacyBundle(o)
  <2>1. b.components = Legacy /\ b.columns = {}
    BY <1>2 DEF LegacyBundle, Bundle, DefaultComposition, Legacy
  <2>2. BundleConstructs(b)
    BY <2>1 DEF BundleConstructs, Legacy, Composition
  <2> QED BY <1>2, <2>1, <2>2, NoneTidy DEF BundleSound, BundleAgrees
<1>3. CASE choice.family # "relational_scm" /\ b # LegacyBundle(o)
  <2>1. b = TreeBundle(s, o, choice) \/ (choice.family \in TemporalFamilies /\ b = TemporalBundle(s, r, o, choice))
    <3> HIDE DEF o
    <3> QED BY <1>3 DEF BundlesFor, o
  <2>2. TreeLike(choice, b)
    <3> HIDE DEF o
    <3> QED BY <2>1, TreeBundleSound
  <2> QED BY <1>3, <2>2, NoneTidy DEF BundleSound, BundleAgrees, TreeLike
<1> QED BY <1>1, <1>2, <1>3

(* What the validation and the construction of a plan ask of its prior.    *)
PriorBuilt(s, pr) ==
  /\ PriorConstructs(pr) /\ ClaimsAgree(pr)
  /\ \A k \in DOMAIN pr.bundles : Tidy(s, pr.bundles[k].columns)

(* Two bundles of one choice agree.                                        *)
LEMMA BundlesAgree ==
  ASSUME NEW choice, NEW b, NEW c, BundleAgrees(choice, b), BundleAgrees(choice, c)
  PROVE  /\ b.components.attribute = c.components.attribute \/ "legacy_scm" \in {b.components.attribute, c.components.attribute}
         /\ b.components.relation = c.components.relation \/ "latent_affinity" \in {b.components.relation, c.components.relation}
<1>1. Legacy.attribute = "legacy_scm" /\ Legacy.relation = "latent_affinity"
  BY DEF Legacy, Composition
<1> QED BY <1>1 DEF BundleAgrees

(* A planned prior has them.                                               *)
LEMMA PriorIsSound ==
  ASSUME NEW s, BlueprintAccepted(s), ColumnsListed(s), NEW r, PriorConfigAccepted(r), NEW pr \in PriorPlans(s, r) \cup {NoPrior}
  PROVE  PriorBuilt(s, pr)
<1>0. PriorShaped(s, pr)
  BY PriorFacts
<1>1. pr.trajectories \subseteq pr.states
  BY <1>0 DEF PriorShaped
<1>2. CASE pr = NoPrior
  <2>1. DOMAIN << >> = {} /\ Range(<< >>) = {}
    BY EmptyFunction DEF Range
  <2>2. pr.bundles = << >>
    BY <1>2 DEF NoPrior
  <2> QED BY <1>1, <2>1, <2>2 DEF PriorBuilt, PriorConstructs, ClaimsAgree
<1>3. CASE pr \in PriorPlans(s, r)
  <2>1. PICK choice \in PriorChoices(s, r) :
          \E bundles \in EachOf([k \in DOMAIN s.occurrences |-> BundlesFor(s, r, s.occurrences[k], choice)]) :
            pr = [family |-> choice.family, components |-> choice.components, bundles |-> bundles,
                  states |-> Owners(bundles), trajectories |-> Trajectories(r, bundles)]
    BY <1>3 DEF PriorPlans
  <2>2. PICK bundles \in EachOf([k \in DOMAIN s.occurrences |-> BundlesFor(s, r, s.occurrences[k], choice)]) :
            pr = [family |-> choice.family, components |-> choice.components, bundles |-> bundles,
                  states |-> Owners(bundles), trajectories |-> Trajectories(r, bundles)]
    BY <2>1
  <2>3. pr.bundles = bundles
    BY <2>2
  <2>4. DOMAIN bundles = DOMAIN s.occurrences /\ \A k \in DOMAIN bundles : bundles[k] \in BundlesFor(s, r, s.occurrences[k], choice)
    BY <2>2, EachOfFacts
  <2>5. ChoiceSound(choice)
    BY ChoiceFacts
  <2>6. \A k \in DOMAIN bundles : BundleSound(s, choice, bundles[k])
    BY <2>4, <2>5, BundlesSound
  <2>7. \A b \in Range(bundles) : BundleConstructs(b) /\ BundleAgrees(choice, b)
    BY <2>6 DEF BundleSound, Range
  <2>8. ClaimsAgree(pr)
    BY <2>3, <2>7, BundlesAgree DEF ClaimsAgree
  <2> QED BY <1>1, <2>3, <2>6, <2>7, <2>8 DEF PriorBuilt, PriorConstructs, BundleSound
<1> QED BY <1>2, <1>3

-----------------------------------------------------------------------------
(* The mechanisms of a bound plan.                                         *)

(* The columns of events that hang on an entity.                           *)
LEMMA GeneratedTidy ==
  ASSUME NEW s, BlueprintAccepted(s), ColumnsListed(s), NEW X, \A x \in X : Generated(s, x)
  PROVE  Tidy(s, X)
<1>1. ASSUME NEW x \in X
      PROVE  \E i \in KeysOf(s) : /\ Structural(s, ChildOf(s, i)) = {i} /\ ChildOf(s, i) \in TablesOf(s)
                                  /\ x.column \in Features(s, ChildOf(s, i)) /\ x.column = <<ChildOf(s, i), x.column[2]>>
                                  /\ x.parents = Features(s, ParentOf(s, i)) /\ x = [column |-> x.column, parents |-> x.parents]
  <2>1. PICK i \in KeysOf(s) :
          /\ Structural(s, ChildOf(s, i)) = {i} /\ ChildOf(s, i) \in TablesOf(s)
          /\ x.column \in Features(s, ChildOf(s, i)) /\ x = [column |-> x.column, parents |-> Features(s, ParentOf(s, i))]
    BY DEF Generated
  <2>2. x.parents = Features(s, ParentOf(s, i))
    BY <2>1
  <2>3. x.column = <<ChildOf(s, i), x.column[2]>>
    BY <2>1, FeaturesAre
  <2> QED BY <2>1, <2>2, <2>3
<1>2. ASSUME NEW x \in X
      PROVE  /\ x = [column |-> x.column, parents |-> x.parents]
             /\ x.column \in AllFeatures(s) /\ x.parents \subseteq AllFeatures(s)
             /\ \A q \in x.parents : Precedes(s, q, x.column)
  <2>1. PICK i \in KeysOf(s) : /\ ChildOf(s, i) \in TablesOf(s)
                               /\ x.column \in Features(s, ChildOf(s, i)) /\ x.column = <<ChildOf(s, i), x.column[2]>>
                               /\ x.parents = Features(s, ParentOf(s, i)) /\ x = [column |-> x.column, parents |-> x.parents]
    BY <1>1
  <2>2. ParentOf(s, i) \in TablesOf(s) /\ s.ranks[ParentOf(s, i)] < s.ranks[ChildOf(s, i)]
    BY SchemaBasics DEF BlueprintAccepted
  <2>3. x.column \in AllFeatures(s) /\ x.parents \subseteq AllFeatures(s)
    BY <2>1, <2>2 DEF AllFeatures
  <2>4. ASSUME NEW q \in x.parents PROVE Precedes(s, q, x.column)
    <3>1. q = <<ParentOf(s, i), q[2]>>
      BY <2>1, <2>2, FeaturesAre
    <3>2. q[1] = ParentOf(s, i) /\ x.column[1] = ChildOf(s, i)
      BY <2>1, <3>1
    <3> QED BY <2>2, <3>2 DEF Precedes
  <2> QED BY <2>1, <2>3, <2>4
<1>3. ASSUME NEW x \in X, NEW y \in X, x.column = y.column PROVE x = y
  <2>1. PICK i \in KeysOf(s) : /\ Structural(s, ChildOf(s, i)) = {i} /\ x.column = <<ChildOf(s, i), x.column[2]>>
                               /\ x.parents = Features(s, ParentOf(s, i)) /\ x = [column |-> x.column, parents |-> x.parents]
    BY <1>1
  <2>2. PICK j \in KeysOf(s) : /\ Structural(s, ChildOf(s, j)) = {j} /\ y.column = <<ChildOf(s, j), y.column[2]>>
                               /\ y.parents = Features(s, ParentOf(s, j)) /\ y = [column |-> y.column, parents |-> y.parents]
    BY <1>1
  <2>3. ChildOf(s, i) = ChildOf(s, j)
    BY <1>3, <2>1, <2>2
  <2>4. i = j
    BY <2>1, <2>2, <2>3
  <2>5. x.parents = y.parents
    BY <2>1, <2>2, <2>4
  <2> QED BY <1>3, <2>1, <2>2, <2>5
<1> QED BY <1>2, <1>3 DEF Tidy

(* Of several tidy bundles, the last one about each column.                *)
LEMMA LastTidy ==
  ASSUME NEW s, NEW K \in SUBSET Nat, NEW f, \A k \in K : Tidy(s, f[k]), NEW X,
         \A x \in X : \E k \in K : x \in f[k] /\ \A j \in K : x.column \in {n.column : n \in f[j]} => j <= k
  PROVE  Tidy(s, X)
<1>1. ASSUME NEW x \in X
      PROVE  /\ x = [column |-> x.column, parents |-> x.parents]
             /\ x.column \in AllFeatures(s) /\ x.parents \subseteq AllFeatures(s)
             /\ \A q \in x.parents : Precedes(s, q, x.column)
  <2>1. PICK k \in K : x \in f[k]
    OBVIOUS
  <2>2. Tidy(s, f[k])
    OBVIOUS
  <2> QED BY <2>1, <2>2 DEF Tidy
<1>2. ASSUME NEW x \in X, NEW y \in X, x.column = y.column PROVE x = y
  <2>1. PICK k \in K : x \in f[k] /\ \A j \in K : x.column \in {n.column : n \in f[j]} => j <= k
    OBVIOUS
  <2>2. PICK j \in K : y \in f[j] /\ \A i \in K : y.column \in {n.column : n \in f[i]} => i <= j
    OBVIOUS
  <2>3. j <= k
    BY <1>2, <2>1, <2>2
  <2>4. k <= j
    BY <1>2, <2>1, <2>2
  <2>5. j = k
    BY <2>3, <2>4
  <2>6. Tidy(s, f[k])
    OBVIOUS
  <2> QED BY <1>2, <2>1, <2>2, <2>5, <2>6 DEF Tidy
<1> QED BY <1>1, <1>2 DEF Tidy

(* Mechanisms without parents.                                             *)
LEMMA ParentlessTidy ==
  ASSUME NEW s, NEW X, \A x \in X : x.column \in AllFeatures(s) /\ x = [column |-> x.column, parents |-> {}]
  PROVE  Tidy(s, X)
<1>1. \A x \in X : x.parents = {}
  OBVIOUS
<1>2. ASSUME NEW x \in X
      PROVE  /\ x = [column |-> x.column, parents |-> x.parents]
             /\ x.column \in AllFeatures(s) /\ x.parents \subseteq AllFeatures(s)
             /\ \A q \in x.parents : Precedes(s, q, x.column)
  BY <1>1
<1>3. ASSUME NEW x \in X, NEW y \in X, x.column = y.column PROVE x = y
  BY <1>3
<1> QED BY <1>2, <1>3 DEF Tidy

(* A relational_scm prior, bound.                                          *)
LEMMA ScmColumns ==
  ASSUME NEW s, NEW pr, PriorShaped(s, pr), PriorBuilt(s, pr), NEW p, Planned(s, p)
  PROVE  Tidy(s, BindScm(p, pr).columns)
<1> DEFINE scm == {k \in DOMAIN pr.bundles : pr.bundles[k].family = "relational_scm"}
           last(k, m) == \A j \in scm : m.column \in {n.column : n \in pr.bundles[j].columns} => j <= k
           columns == UNION {{m \in pr.bundles[k].columns : last(k, m)} : k \in scm}
           f == [k \in scm |-> pr.bundles[k].columns]
           q == BindScm(p, pr)
<1>1. \E populations, family : q = [p EXCEPT !.columns = columns, !.populations = populations, !.family = family]
  BY Zenon DEF BindScm
<1> HIDE DEF columns, q
<1>2. PICK populations, family : q = WithMechanisms(p, columns, populations, family)
  BY <1>1 DEF WithMechanisms
<1>3. q.columns = columns
  BY <1>2, MechanismsSet
<1>4. scm \in SUBSET Nat
  BY DEF PriorShaped
<1>5. \A k \in scm : f[k] = pr.bundles[k].columns /\ Tidy(s, f[k])
  BY DEF PriorBuilt
<1>6. \A x \in columns : \E k \in scm : x \in pr.bundles[k].columns /\ last(k, x)
  BY DEF columns
<1>7. \A x \in columns : \E k \in scm : x \in f[k] /\ \A j \in scm : x.column \in {n.column : n \in f[j]} => j <= k
  <2> SUFFICES ASSUME NEW x \in columns
               PROVE  \E k \in scm : x \in f[k] /\ \A j \in scm : x.column \in {n.column : n \in f[j]} => j <= k
    OBVIOUS
  <2>1. PICK k \in scm : x \in pr.bundles[k].columns /\ last(k, x)
    BY <1>6
  <2>2. x \in f[k] /\ \A j \in scm : x.column \in {n.column : n \in f[j]} => j <= k
    BY <1>5, <2>1
  <2> QED BY <2>2
<1> HIDE DEF scm, f
<1>8. Tidy(s, columns)
  BY <1>4, <1>5, <1>7, LastTidy
<1> QED BY <1>3, <1>8 DEF q

(* A relational_tree prior, bound.                                         *)
LEMMA TreeColumns ==
  ASSUME NEW s, NEW pr, PriorShaped(s, pr), NEW p, Planned(s, p)
  PROVE  Tidy(s, BindTree(s, p, pr).columns)
<1> DEFINE trees == {b \in Range(pr.bundles) : b.family = "relational_tree"}
           attributes == {b \in trees : b.components.attribute = "tree"}
           columns == UNION {{[column |-> c, parents |-> {}] : c \in Features(s, b.event)} : b \in attributes}
           q == BindTree(s, p, pr)
<1>1. \E family : q = [p EXCEPT !.columns = columns, !.family = family]
  BY Zenon DEF BindTree
<1>2. \A b \in attributes : b.event \in TablesOf(s)
  <2> SUFFICES ASSUME NEW b \in attributes PROVE b.event \in TablesOf(s)
    OBVIOUS
  <2>1. PICK k \in DOMAIN pr.bundles : b = pr.bundles[k] /\ b.family = "relational_tree"
    BY DEF Range
  <2>2. Hung(s, b)
    BY <2>1 DEF PriorShaped
  <2> QED BY <2>2 DEF Hung
<1>3. \A x \in columns : \E b \in attributes : \E c \in Features(s, b.event) : x = [column |-> c, parents |-> {}]
  OBVIOUS
<1> HIDE DEF columns, q, attributes
<1>4. PICK family : q = WithFamilies(p, columns, family)
  BY <1>1 DEF WithFamilies
<1>5. q.columns = columns
  BY <1>4, FamiliesSet
<1>6. ASSUME NEW x \in columns PROVE x.column \in AllFeatures(s) /\ x = [column |-> x.column, parents |-> {}]
  <2>1. PICK b \in attributes : \E c \in Features(s, b.event) : x = [column |-> c, parents |-> {}]
    BY <1>3
  <2>2. PICK c \in Features(s, b.event) : x = [column |-> c, parents |-> {}]
    BY <2>1
  <2>3. c \in AllFeatures(s)
    BY <1>2 DEF AllFeatures
  <2> QED BY <2>2, <2>3
<1>7. Tidy(s, columns)
  BY <1>6, ParentlessTidy
<1> QED BY <1>5, <1>7 DEF q

(* Whatever the prior, a bound plan has one mechanism for a column, with   *)
(* parents that precede it.                                                *)
LEMMA BoundTidy ==
  ASSUME NEW s, BlueprintAccepted(s), ColumnsListed(s), NEW r, NEW pr, PriorShaped(s, pr), PriorBuilt(s, pr),
         NEW p \in InstancePlans(s), NEW o \in Bind(s, r, p, pr), o.issues = {}
  PROVE  Tidy(s, o.plan.columns)
<1> DEFINE states == pr.states
           trajectories == pr.trajectories
           given == [p EXCEPT !.states = states, !.trajectories = trajectories]
<1>1. Planned(s, given) /\ given.columns = {}
  <2>1. given = WithOwners(p, states, trajectories)
    BY DEF WithOwners
  <2>2. Planned(s, p) /\ p.columns = {}
    BY InstancePlanFacts
  <2> HIDE DEF given, states, trajectories
  <2> QED BY <2>1, <2>2, OwnersSet
<1>2. o \in CASE pr.family \in TemporalFamilies -> BindTemporal(s, r, given, pr)
               [] pr.family = "relational_scm" -> {Fine(BindScm(given, pr))}
               [] pr.family = "relational_tree" -> {Fine(BindTree(s, given, pr))}
               [] OTHER -> {Fine(given)}
  BY DEF Bind
<1> HIDE DEF given
<1>3. CASE pr.family \in TemporalFamilies
  <2>1. Bound(s, pr, o.plan)
    BY BindFacts
  <2>2. \A x \in o.plan.columns : Generated(s, x)
    BY <1>3, <2>1 DEF Bound, PartlyBound
  <2>3. PICK X : X = o.plan.columns
    OBVIOUS
  <2> QED BY <2>2, <2>3, GeneratedTidy
<1>4. CASE pr.family = "relational_scm"
  <2>1. o = Fine(BindScm(given, pr))
    BY <1>2, <1>4 DEF TemporalFamilies
  <2>2. o.plan = BindScm(given, pr)
    BY <2>1 DEF Fine
  <2> QED BY <1>1, <2>2, ScmColumns
<1>5. CASE pr.family = "relational_tree"
  <2>1. o = Fine(BindTree(s, given, pr))
    BY <1>2, <1>5 DEF TemporalFamilies
  <2>2. o.plan = BindTree(s, given, pr)
    BY <2>1 DEF Fine
  <2> QED BY <1>1, <2>2, TreeColumns
<1>6. CASE pr.family \notin TemporalFamilies \cup {"relational_scm", "relational_tree"}
  <2>1. o = Fine(given)
    BY <1>2, <1>6
  <2>2. o.plan = given
    BY <2>1 DEF Fine
  <2> QED BY <1>1, <2>2, NoneTidy
<1> QED BY <1>3, <1>4, <1>5, <1>6

-----------------------------------------------------------------------------
(* Bound plans are accepted.                                               *)

(* Each table has its place in the order.                                  *)
LEMMA PositionFacts ==
  ASSUME NEW s, BlueprintAccepted(s), NEW p, Planned(s, p), NEW t \in TablesOf(s)
  PROVE  Position(p, t) \in 1..Cardinality(TablesOf(s)) /\ GenerationOrder(s)[Position(p, t)] = t
<1> DEFINE n == Cardinality(TablesOf(s))
           order == GenerationOrder(s)
<1>1. p.order = order
  BY DEF Planned
<1>2. DOMAIN order = 1..n /\ \E k \in 1..n : order[k] = t
  BY GenerationFacts
<1> HIDE DEF n, order
<1>3. Position(p, t) = CHOOSE k \in DOMAIN order : order[k] = t
  BY <1>1 DEF Position
<1>4. Position(p, t) \in 1..n /\ order[Position(p, t)] = t
  BY <1>2, <1>3
<1> QED BY <1>4 DEF n, order

(* Parents come first.                                                     *)
LEMMA PlannedOrdered ==
  ASSUME NEW s, BlueprintAccepted(s), NEW p, Planned(s, p)
  PROVE  ParentsFirst(s, p)
<1> SUFFICES ASSUME NEW i \in KeysOf(s) PROVE Position(p, ParentOf(s, i)) < Position(p, ChildOf(s, i))
  BY DEF ParentsFirst
<1> DEFINE t == ParentOf(s, i)
           u == ChildOf(s, i)
           order == GenerationOrder(s)
<1>1. t \in TablesOf(s) /\ u \in TablesOf(s) /\ s.ranks[t] < s.ranks[u]
  BY SchemaBasics DEF BlueprintAccepted
<1> HIDE DEF t, u, order
<1>2. Position(p, t) \in 1..Cardinality(TablesOf(s)) /\ order[Position(p, t)] = t
  BY <1>1, PositionFacts DEF order
<1>3. Position(p, u) \in 1..Cardinality(TablesOf(s)) /\ order[Position(p, u)] = u
  BY <1>1, PositionFacts DEF order
<1>4. \A j, k \in 1..Cardinality(TablesOf(s)) : s.ranks[order[j]] < s.ranks[order[k]] => j < k
  BY GenerationFacts DEF order
<1> QED BY <1>1, <1>2, <1>3, <1>4 DEF t, u

(* A plan constructs, and covers the tables.                               *)
LEMMA PlannedCovers ==
  ASSUME NEW s, BlueprintAccepted(s), NEW p, Planned(s, p)
  PROVE  /\ Coverage(s, p) /\ ToSet(p.order) = DOMAIN p.rows
         /\ Len(p.order) = Cardinality(DOMAIN p.rows)
<1> DEFINE n == Cardinality(TablesOf(s))
           order == GenerationOrder(s)
<1>1. p.order = order /\ DOMAIN p.rows = TablesOf(s)
  BY DEF Planned
<1>2. n \in Nat /\ order \in [1..n -> TablesOf(s)] /\ \A t \in TablesOf(s) : \E k \in 1..n : order[k] = t
  BY GenerationFacts
<1> HIDE DEF n, order
<1>3. Len(order) = n
  BY <1>2, FunctionIsSeq
<1>4. ToSet(order) = TablesOf(s)
  BY <1>2 DEF ToSet
<1> QED BY <1>1, <1>3, <1>4 DEF Coverage, n

(* The keys that are alone in their groups.                                *)
Alone(s, t) == IF Bridged(s, t) THEN Incoming(s, t) \ Structural(s, t) ELSE Incoming(s, t)

(* The group of keys of one table.                                         *)
GroupAt(s, t, g) == (Bridged(s, t) /\ g = Structural(s, t)) \/ \E i \in Alone(s, t) : g = {i}

(* Groups are of one table each.                                           *)
LEMMA GroupsAre == ASSUME NEW s PROVE \A g : g \in RelationGroups(s) <=> \E t \in TablesOf(s) : GroupAt(s, t, g)
<1> DEFINE of(t) == (IF Bridged(s, t) THEN {Structural(s, t)} ELSE {}) \cup {{i} : i \in Alone(s, t)}
<1>1. RelationGroups(s) = UNION {of(t) : t \in TablesOf(s)}
  BY DEF RelationGroups, Alone
<1>2. \A t, g : g \in of(t) <=> GroupAt(s, t, g)
  <2> SUFFICES ASSUME NEW t, NEW g PROVE g \in of(t) <=> GroupAt(s, t, g)
    OBVIOUS
  <2>1. CASE Bridged(s, t)
    BY <2>1 DEF GroupAt
  <2>2. CASE ~Bridged(s, t)
    BY <2>2 DEF GroupAt
  <2> QED BY <2>1, <2>2
<1> HIDE DEF of
<1> QED BY <1>1, <1>2

(* Each key is in one group, with keys of its table.                       *)
LEMMA PlannedGroups ==
  ASSUME NEW s, BlueprintAccepted(s), NEW p, Planned(s, p)
  PROVE  RelationsCover(s, p)
<1>1. p.groups = RelationGroups(s)
  BY DEF Planned
<1>2. \A t : Structural(s, t) \subseteq Incoming(s, t) /\ Alone(s, t) \subseteq Incoming(s, t)
  BY DEF Structural, Alone
<1>3. \A t, g : GroupAt(s, t, g) => g \subseteq Incoming(s, t)
  BY <1>2 DEF GroupAt
<1>4. \A t : \A i \in Incoming(s, t) : i \in KeysOf(s) /\ ChildOf(s, i) = t
  BY DEF Incoming
<1>5. UNION RelationGroups(s) = KeysOf(s)
  <2>1. ASSUME NEW g \in RelationGroups(s), NEW i \in g PROVE i \in KeysOf(s)
    <3>1. PICK t \in TablesOf(s) : GroupAt(s, t, g)
      BY GroupsAre
    <3> QED BY <1>3, <1>4, <2>1, <3>1
  <2>2. ASSUME NEW i \in KeysOf(s) PROVE \E g \in RelationGroups(s) : i \in g
    <3> DEFINE t == ChildOf(s, i)
    <3>1. t \in TablesOf(s) /\ i \in Incoming(s, t)
      BY SchemaBasics DEF Incoming
    <3> HIDE DEF t
    <3>2. CASE i \in Alone(s, t)
      <4>1. GroupAt(s, t, {i})
        BY <3>2 DEF GroupAt
      <4>2. {i} \in RelationGroups(s)
        BY <3>1, <4>1, GroupsAre
      <4> QED BY <4>2
    <3>3. CASE i \notin Alone(s, t)
      <4>1. Bridged(s, t) /\ i \in Structural(s, t)
        BY <3>1, <3>3 DEF Alone
      <4>2. GroupAt(s, t, Structural(s, t))
        BY <4>1 DEF GroupAt
      <4>3. Structural(s, t) \in RelationGroups(s)
        BY <3>1, <4>2, GroupsAre
      <4> QED BY <4>1, <4>3
    <3> QED BY <3>2, <3>3
  <2> QED BY <2>1, <2>2
<1>6. ASSUME NEW g \in RelationGroups(s), NEW h \in RelationGroups(s), g # h PROVE g \cap h = {}
  <2>1. PICK t \in TablesOf(s) : GroupAt(s, t, g)
    BY GroupsAre
  <2>2. PICK u \in TablesOf(s) : GroupAt(s, u, h)
    BY GroupsAre
  <2>3. CASE t # u
    BY <1>3, <1>4, <2>1, <2>2, <2>3
  <2>4. CASE t = u
    <3>1. CASE Bridged(s, t)
      <4>1. Alone(s, t) \cap Structural(s, t) = {}
        BY <3>1 DEF Alone
      <4> QED BY <1>6, <2>1, <2>2, <2>4, <4>1 DEF GroupAt
    <3>2. CASE ~Bridged(s, t)
      BY <1>6, <2>1, <2>2, <2>4, <3>2 DEF GroupAt
    <3> QED BY <3>1, <3>2
  <2> QED BY <2>3, <2>4
<1>7. ASSUME NEW g \in RelationGroups(s), NEW i \in g, NEW j \in g PROVE ChildOf(s, i) = ChildOf(s, j)
  <2>1. PICK t \in TablesOf(s) : GroupAt(s, t, g)
    BY GroupsAre
  <2> QED BY <1>3, <1>4, <1>7, <2>1
<1> QED BY <1>1, <1>5, <1>6, <1>7 DEF RelationsCover

(* The owners of states are the entities of temporal bundles.              *)
LEMMA StatesAreOwned ==
  ASSUME NEW s, NEW pr, PriorShaped(s, pr), NEW p, Bound(s, pr, p)
  PROVE  StatesOwned(s, p)
<1>1. /\ pr.states = Owners(pr.bundles) /\ pr.trajectories \in {{}, pr.states}
      /\ p.states = pr.states /\ p.trajectories = pr.trajectories
  BY DEF PriorShaped, Bound
<1>2. ASSUME NEW t \in pr.states PROVE s.roles[t] = "entity"
  <2>1. PICK b \in Range(pr.bundles) : b.family \in TemporalFamilies /\ t = b.entity
    BY <1>1, <1>2 DEF Owners
  <2>2. PICK k \in DOMAIN pr.bundles : b = pr.bundles[k]
    BY DEF Range
  <2>3. Hung(s, b)
    BY <2>1, <2>2 DEF PriorShaped
  <2> QED BY <2>1, <2>3 DEF Hung
<1>3. \A m \in p.populations : m.source = "temporal_event" => m.parent \in p.states
  <2>1. CASE pr.family \in TemporalFamilies
    BY <1>1, <2>1 DEF Bound, PartlyBound
  <2>2. CASE pr.family \notin TemporalFamilies
    BY <2>2 DEF Bound, Drafted
  <2> QED BY <2>1, <2>2
<1>4. \A t \in p.states \cup p.trajectories : s.roles[t] = "entity"
  BY <1>1, <1>2
<1>5. p.trajectories \subseteq p.states
  BY <1>1
<1> QED BY <1>3, <1>4, <1>5 DEF StatesOwned

(* validate_instance_plan finds nothing in a plan that was bound.          *)
LEMMA BoundAccepted ==
  ASSUME NEW s, BlueprintAccepted(s), ColumnsListed(s), NEW pr, PriorShaped(s, pr), PriorBuilt(s, pr),
         NEW p, Bound(s, pr, p), Tidy(s, p.columns)
  PROVE  PlanConstructs(p) /\ PlanIssues(s, p, pr) = {}
<1>1. Planned(s, p)
  BY DEF Bound
<1>2. Coverage(s, p) /\ ToSet(p.order) = DOMAIN p.rows /\ Len(p.order) = Cardinality(DOMAIN p.rows)
  BY <1>1, PlannedCovers
<1>3. StatesOwned(s, p)
  BY StatesAreOwned
<1>4. PlanConstructs(p)
  BY <1>2, <1>3 DEF PlanConstructs, StatesOwned
<1>5. RelationsCover(s, p)
  BY <1>1, PlannedGroups
<1>6. ParentsFirst(s, p)
  BY <1>1, PlannedOrdered
<1>7. ClaimsAgree(pr)
  BY DEF PriorBuilt
<1>8. MechanismsUnique(p) /\ Acyclic(p) /\ ColumnsKnown(s, p)
  BY TidyAccepted
<1>9. PlanIssues(s, p, pr) = {}
  BY <1>2, <1>3, <1>5, <1>6, <1>7, <1>8, Zenon DEF PlanIssues
<1> QED BY <1>4, <1>9

-----------------------------------------------------------------------------
(* No plan is refused for itself.                                          *)

(* What an attempt is not refused for.                                     *)
Unrefusable == PlanIssueKinds \cup {"schema", "construction"}

(* A run is refused for nothing at its start.                              *)
LEMMA InitAccepted == Init => PlansAccepted
  BY DEF Init, PlansAccepted

(* An attempt refused for something else.                                  *)
LEMMA RefuseAccepted ==
  ASSUME NEW reasons, Refuse(reasons), reasons \cap Unrefusable = {}
  PROVE  PlansAccepted'
<1>1. issues' = reasons
  BY DEF Refuse
<1> QED BY <1>1 DEF PlansAccepted, Unrefusable, PlanIssueKinds

(* An accepted configuration compiles.                                     *)
LEMMA CompileAccepted == ASSUME Sound, PlansAccepted, CompileSchema PROVE PlansAccepted'
<1>1. stage = "compile"
  BY DEF CompileSchema
<1>2. BlueprintAccepted(request.blueprint) /\ CompilerConfigAccepted(request.columns)
  BY <1>1, RequestsAccepted DEF Sound, PlansSound
<1>3. PICK s \in Compile(request.columns, request.blueprint) :
        (SchemaConstructs(s) /\ TraceConstructs(s, request.blueprint)) => issues' = issues
  BY DEF CompileSchema
<1>4. SchemaConstructs(s) /\ TraceConstructs(s, request.blueprint)
  BY <1>2, CompiledConstructs
<1> QED BY <1>3, <1>4 DEF PlansAccepted, PlanIssueKinds

(* An accepted prior configuration gives priors that construct.            *)
LEMMA PriorAccepted == ASSUME Sound, PlansAccepted, PlanPrior PROVE PlansAccepted'
<1>1. stage = "prior"
  BY DEF PlanPrior
<1>2. request \in Requests /\ schema \in Compile(request.columns, request.blueprint)
  BY <1>1 DEF Sound, PlansSound
<1>3. /\ BlueprintAccepted(request.blueprint) /\ CompilerConfigAccepted(request.columns)
      /\ PriorConfigAccepted(request.prior)
  BY <1>2, RequestsAccepted
<1>4. BlueprintAccepted(schema) /\ ColumnsListed(schema)
  BY <1>2, <1>3, CompileFacts, CompiledListed
<1>5. \A pr \in PriorPlans(schema, request.prior) \cup {NoPrior} : PriorConstructs(pr)
  <2> SUFFICES ASSUME NEW pr \in PriorPlans(schema, request.prior) \cup {NoPrior} PROVE PriorConstructs(pr)
    OBVIOUS
  <2>1. PriorBuilt(schema, pr)
    BY <1>3, <1>4, PriorIsSound
  <2> QED BY <2>1 DEF PriorBuilt
<1>6. issues' \in {issues, {"prior"}}
  <2>1. \/ issues' = {"prior"}
        \/ \E pr \in PriorPlans(schema, request.prior) \cup {NoPrior} : PriorConstructs(pr) => issues' = issues
    BY DEF PlanPrior
  <2> QED BY <1>5, <2>1
<1> QED BY <1>6 DEF PlansAccepted, PlanIssueKinds

(* A plan is only refused by the binder.                                   *)
LEMMA PlanAccepted == ASSUME Sound, PlansAccepted, PlanInstance PROVE PlansAccepted'
<1>0. /\ stage = "plan" /\ request \in Requests /\ schema \in Compile(request.columns, request.blueprint)
      /\ prior \in PriorPlans(schema, request.prior) \cup {NoPrior}
  BY DEF PlanInstance, Sound, PlansSound
<1>1. /\ BlueprintAccepted(request.blueprint) /\ CompilerConfigAccepted(request.columns)
      /\ PriorConfigAccepted(request.prior)
  BY <1>0, RequestsAccepted
<1>2. BlueprintAccepted(schema) /\ ColumnsListed(schema)
  BY <1>0, <1>1, CompileFacts, CompiledListed
<1>3. PriorShaped(schema, prior) /\ PriorBuilt(schema, prior)
  BY <1>0, <1>1, <1>2, PriorFacts, PriorIsSound
<1>4. PICK p \in InstancePlans(schema) : \E o \in Bind(schema, request.prior, p, prior) :
       LET found == IF o.issues # {} THEN o.issues
                    ELSE IF ~PlanConstructs(o.plan) THEN {"construction"} ELSE PlanIssues(schema, o.plan, prior)
       IN IF found # {} THEN Refuse(found) ELSE issues' = {}
  BY DEF PlanInstance
<1>5. PICK o \in Bind(schema, request.prior, p, prior) :
       LET found == IF o.issues # {} THEN o.issues
                    ELSE IF ~PlanConstructs(o.plan) THEN {"construction"} ELSE PlanIssues(schema, o.plan, prior)
       IN IF found # {} THEN Refuse(found) ELSE issues' = {}
  BY <1>4
<1> DEFINE found == IF o.issues # {} THEN o.issues
                    ELSE IF ~PlanConstructs(o.plan) THEN {"construction"} ELSE PlanIssues(schema, o.plan, prior)
<1>6. o.issues \subseteq BindingIssues /\ (o.issues = {} => Bound(schema, prior, o.plan))
  BY <1>2, <1>3, BindFacts
<1>7. o.issues = {} => found = {}
  <2> SUFFICES ASSUME o.issues = {} PROVE found = {}
    OBVIOUS
  <2>1. Bound(schema, prior, o.plan)
    BY <1>6
  <2>2. Tidy(schema, o.plan.columns)
    BY <1>2, <1>3, BoundTidy
  <2>3. PlanConstructs(o.plan) /\ PlanIssues(schema, o.plan, prior) = {}
    BY <1>2, <1>3, <2>1, <2>2, BoundAccepted
  <2> QED BY <2>3
<1>8. found \subseteq BindingIssues
  BY <1>6, <1>7
<1>9. Refuse(found) \/ issues' = {}
  BY <1>5
<1> HIDE DEF found
<1>10. CASE Refuse(found)
  <2>1. found \cap Unrefusable = {}
    BY <1>8 DEF Unrefusable, BindingIssues, PlanIssueKinds
  <2> QED BY <1>10, <2>1, RefuseAccepted
<1>11. CASE issues' = {}
  BY <1>11 DEF PlansAccepted
<1> QED BY <1>9, <1>10, <1>11

(* Each step of the worker.                                                *)
LEMMA AcceptedStep == ASSUME Sound, PlansAccepted, [Next]_vars PROVE PlansAccepted'
<1>k. ASSUME issues' = issues PROVE PlansAccepted'
  BY <1>k DEF PlansAccepted, PlanIssueKinds
<1>1. CASE UNCHANGED vars
  BY <1>k, <1>1 DEF vars
<1>2. CASE CompileSchema
  BY <1>2, CompileAccepted
<1>3. CASE PlanPrior
  BY <1>3, PriorAccepted
<1>4. CASE PlanInstance
  BY <1>4, PlanAccepted
<1>5. CASE ResolvePopulation
  <2>1. (\E total, rows : Refuse(PopulationIssues(total, rows))) \/ issues' = issues
    BY <1>5 DEF ResolvePopulation
  <2>2. ASSUME NEW total, NEW rows, Refuse(PopulationIssues(total, rows)) PROVE PlansAccepted'
    <3>1. PopulationIssues(total, rows) \cap Unrefusable = {}
      BY DEF PopulationIssues, Unrefusable, PlanIssueKinds
    <3> QED BY <2>2, <3>1, RefuseAccepted
  <2> QED BY <1>k, <2>1, <2>2
<1>6. CASE FinalizePlan \/ GenerateTable \/ ApplyNuisance
  BY <1>k, <1>6 DEF FinalizePlan, GenerateTable, ApplyNuisance
<1>7. CASE OverlayEvents
  <2>1. Refuse({"schedule"}) \/ issues' = issues
    BY <1>7 DEF OverlayEvents
  <2>2. {"schedule"} \cap Unrefusable = {}
    BY DEF Unrefusable, PlanIssueKinds
  <2> QED BY <1>k, <2>1, <2>2, RefuseAccepted
<1>8. CASE ValidateDatabase
  <2>1. Refuse(DatabaseIssues(schema, plan, db)) \/ Refuse({"programs"}) \/ issues' = issues
    BY <1>8 DEF ValidateDatabase
  <2>2. {"programs"} \cap Unrefusable = {}
    BY DEF Unrefusable, PlanIssueKinds
  <2>3. DatabaseIssues(schema, plan, db) \cap Unrefusable = {}
    <3>1. DatabaseIssues(schema, plan, db) \subseteq DatabaseIssueKinds
      BY DEF DatabaseIssues
    <3>2. DatabaseIssueKinds \cap Unrefusable = {}
      BY DEF DatabaseIssueKinds, Unrefusable, PlanIssueKinds
    <3> QED BY <3>1, <3>2
  <2>4. PICK found : found = DatabaseIssues(schema, plan, db)
    OBVIOUS
  <2> QED BY <1>k, <2>1, <2>2, <2>3, <2>4, RefuseAccepted
<1>9. CASE Ended
  BY <1>1, <1>9 DEF Ended
<1> QED BY <1>1, <1>2, <1>3, <1>4, <1>5, <1>6, <1>7, <1>8, <1>9 DEF Next

(* A schema the compiler built constructs, a prior the planner drew        *)
(* constructs, and validate_instance_plan finds nothing in a plan that was *)
(* bound to it: a run is never refused for them, whatever occurrences      *)
(* overlap (compile_result, PriorPlanner.plan, validate_instance_plan).    *)
THEOREM PlansAcceptedHolds == Spec => []PlansAccepted
<1>1. Sound /\ PlansAccepted /\ [Next]_vars => PlansAccepted'
  BY AcceptedStep
<1> QED BY InitAccepted, RunSound, <1>1, PTL DEF Spec

-----------------------------------------------------------------------------
(* The end of a run.                                                       *)

(* The place of each stage within an attempt.                              *)
LEMMA Ranks ==
  /\ StageRank("compile") = 1 /\ StageRank("prior") = 2 /\ StageRank("plan") = 3
  /\ StageRank("draft") = 4 /\ StageRank("generate") = 5 /\ StageRank("temporal") = 6
  /\ StageRank("validate") = 7 /\ StageRank("done") = 8 /\ StageRank("failed") = 9
<1>1. DOMAIN Stages = 1..9
  BY DEF Stages
<1>2. \A k \in 1..9 : StageRank(Stages[k]) = k
  BY <1>1 DEF StageRank, Stages
<1> QED
  BY <1>2 DEF Stages

StageNames == {"compile", "prior", "plan", "draft", "generate", "temporal", "validate", "done", "failed"}

(* Only a run that has failed has used up its attempts.                    *)
Counted ==
  /\ attempt \in 0..MaxAttempts
  /\ stage \in StageNames
  /\ stage # "failed" => attempt < MaxAttempts

(* What the action property says of a step.                                *)
Progress ==
  /\ attempt' <= MaxAttempts
  /\ \/ attempt' > attempt
     \/ attempt' = attempt /\ StageRank(stage') > StageRank(stage)
     \/ /\ attempt' = attempt /\ stage' = stage
        /\ \/ stage = "draft" /\ DOMAIN plan.counts \subseteq DOMAIN plan'.counts /\ plan'.counts # plan.counts
           \/ stage = "generate" /\ DOMAIN db.rows \subseteq DOMAIN db'.rows /\ db'.rows # db.rows
           \/ stage = "temporal" /\ pending' \subseteq pending /\ pending' # pending

(* A run starts with all its attempts.                                     *)
LEMMA InitCounted == Init => Counted
  BY RequestsAccepted DEF Init, Counted, StageNames

(* A refused attempt is counted, and the last one ends the run.            *)
LEMMA RefuseProgresses ==
  ASSUME Counted, NEW reasons, Refuse(reasons), stage # "failed"
  PROVE  Counted' /\ Progress
<1>1. Attempts \in Nat /\ Attempts <= MaxAttempts
  BY RequestsAccepted DEF Attempts
<1>2. attempt' = attempt + 1
  BY DEF Refuse, NextAttempt
<1>3. stage' = IF attempt + 1 >= Attempts THEN "failed" ELSE "plan"
  BY DEF Refuse, NextAttempt
<1>4. attempt \in Nat /\ attempt < MaxAttempts /\ MaxAttempts \in Nat
  BY RequestsAccepted DEF Counted
<1> QED
  BY <1>1, <1>2, <1>3, <1>4 DEF Counted, Progress, StageNames

(* A population of the draft is counted, or refuses it.                    *)
LEMMA PopulationCounted ==
  ASSUME Sound, ResolvePopulation
  PROVE  \/ \E found : Refuse(found)
         \/ /\ DOMAIN plan.counts \subseteq DOMAIN plan'.counts /\ plan'.counts # plan.counts
            /\ stage' = stage /\ attempt' = attempt
<1>0. /\ stage = "draft" /\ BlueprintAccepted(schema)
      /\ Planned(schema, plan) /\ Populated(schema, prior, plan) /\ Resolved(schema, plan)
  BY SchemaFacts DEF ResolvePopulation, Sound, PlansSound, Planning
<1>1a. PICK m \in Unresolved(plan) : \E counts \in CountDraws(plan.rows[m.parent]) :
        LET found == PopulationIssues(Total(counts), plan.rows[m.table])
        IN IF found # {} THEN Refuse(found)
           ELSE plan' = ResolveOne(schema, plan, m, counts) /\ UNCHANGED <<stage, db, pending, attempt, issues>>
  BY DEF ResolvePopulation
<1>1. PICK counts \in CountDraws(plan.rows[m.parent]) :
        LET found == PopulationIssues(Total(counts), plan.rows[m.table])
        IN IF found # {} THEN Refuse(found)
           ELSE plan' = ResolveOne(schema, plan, m, counts) /\ UNCHANGED <<stage, db, pending, attempt, issues>>
  BY <1>1a
<1>2. CASE PopulationIssues(Total(counts), plan.rows[m.table]) # {}
  BY <1>1, <1>2
<1>3. CASE PopulationIssues(Total(counts), plan.rows[m.table]) = {}
  <2>1. PICK q : q = plan' /\ q = ResolveOne(schema, plan, m, counts)
    BY <1>1, <1>3
  <2>2. DOMAIN q.counts = DOMAIN plan.counts \cup {m.table} /\ m.table \notin DOMAIN plan.counts
    BY <1>0, <1>3, <2>1, ResolveFacts
  <2> QED
    BY <1>1, <1>3, <2>1, <2>2
<1> QED
  BY <1>2, <1>3

(* Each step of the worker, by action.                                     *)
LEMMA StepProgresses ==
  ASSUME Sound, Counted, Next
  PROVE  Counted' /\ (vars' = vars \/ Progress)
<1> USE RequestsAccepted DEF Counted
<1>0. attempt <= MaxAttempts
  OBVIOUS
<1>1. CASE CompileSchema
  BY <1>0, <1>1, Ranks DEF CompileSchema, Progress, StageNames
<1>2. CASE PlanPrior
  <2>1. stage = "prior" /\ stage' \in {"plan", "failed"} /\ attempt' = attempt
    BY <1>2 DEF PlanPrior
  <2> QED
    BY <1>0, <2>1, Ranks DEF Progress, StageNames
<1>3. CASE PlanInstance
  <2>0. stage = "plan"
    BY <1>3 DEF PlanInstance
  <2>1. (\E found : Refuse(found)) \/ (stage' \in {"draft", "generate"} /\ attempt' = attempt)
    BY <1>3 DEF PlanInstance
  <2>2. CASE \E found : Refuse(found)
    BY <2>0, <2>2, RefuseProgresses
  <2>3. CASE stage' \in {"draft", "generate"} /\ attempt' = attempt
    BY <1>0, <2>0, <2>3, Ranks DEF Progress, StageNames
  <2> QED
    BY <2>1, <2>2, <2>3
<1>4. CASE ResolvePopulation
  <2>0. stage = "draft"
    BY <1>4 DEF ResolvePopulation
  <2>1. \/ \E found : Refuse(found)
        \/ /\ DOMAIN plan.counts \subseteq DOMAIN plan'.counts /\ plan'.counts # plan.counts
           /\ stage' = stage /\ attempt' = attempt
    BY <1>4, PopulationCounted
  <2>2. CASE \E found : Refuse(found)
    BY <2>0, <2>2, RefuseProgresses
  <2>3. CASE /\ DOMAIN plan.counts \subseteq DOMAIN plan'.counts /\ plan'.counts # plan.counts
             /\ stage' = stage /\ attempt' = attempt
    BY <1>0, <2>0, <2>3 DEF Progress, StageNames
  <2> QED
    BY <2>1, <2>2, <2>3
<1>4a. CASE FinalizePlan
  <2>1. stage = "draft" /\ stage' = "generate" /\ attempt' = attempt
    BY <1>4a DEF FinalizePlan
  <2> QED
    BY <1>0, <2>1, Ranks DEF Progress, StageNames
<1>5. CASE GenerateTable
  <2>1. PICK k \in Missing : db' \in WithTable(schema, plan, db, plan.order[k])
                              /\ stage' \in {"temporal", "generate"}
    BY <1>5 DEF GenerateTable
  <2>2. stage = "generate" /\ attempt' = attempt
    BY <1>5 DEF GenerateTable
  <2>3. DOMAIN db'.rows = DOMAIN db.rows \cup {plan.order[k]}
    <3>1. DOMAIN db = DbFields
      BY <2>2 DEF Sound, RowsSound, Fits
    <3>2. PICK f, t : f = db' /\ t = plan.order[k] /\ f \in WithTable(schema, plan, db, t)
      BY <2>1
    <3>3. DOMAIN f.rows = DOMAIN db.rows \cup {t}
      <4>1. \E keys, times, missing : Grown(plan, db, t, f, keys, times, missing)
        BY <3>1, <3>2, WithTableShape
      <4> QED
        BY <4>1 DEF Grown
    <3> QED
      BY <3>2, <3>3
  <2>4. plan.order[k] \notin DOMAIN db.rows
    BY DEF Missing
  <2>5. DOMAIN db.rows \subseteq DOMAIN db'.rows /\ db'.rows # db.rows
    BY <2>3, <2>4
  <2> QED
    BY <1>0, <2>1, <2>2, <2>3, <2>5, Ranks DEF Progress, StageNames
<1>6. CASE OverlayEvents
  <2>0. stage = "temporal"
    BY <1>6 DEF OverlayEvents
  <2>1. \/ \E found : Refuse(found)
        \/ \E m \in pending : pending' = pending \ {m} /\ UNCHANGED <<stage, attempt>>
    BY <1>6 DEF OverlayEvents
  <2>2. CASE \E found : Refuse(found)
    BY <2>0, <2>2, RefuseProgresses
  <2>3. CASE \E m \in pending : pending' = pending \ {m} /\ UNCHANGED <<stage, attempt>>
    BY <1>0, <2>0, <2>3 DEF Progress, StageNames
  <2> QED
    BY <2>1, <2>2, <2>3
<1>7. CASE ApplyNuisance
  <2>1. stage = "temporal" /\ stage' = "validate" /\ attempt' = attempt
    BY <1>7 DEF ApplyNuisance
  <2> QED
    BY <1>0, <2>1, Ranks DEF Progress, StageNames
<1>8. CASE ValidateDatabase
  <2>0. stage = "validate"
    BY <1>8 DEF ValidateDatabase
  <2>1. (\E found : Refuse(found)) \/ (stage' = "done" /\ attempt' = attempt)
    BY <1>8 DEF ValidateDatabase
  <2>2. CASE \E found : Refuse(found)
    BY <2>0, <2>2, RefuseProgresses
  <2>3. CASE stage' = "done" /\ attempt' = attempt
    BY <1>0, <2>0, <2>3, Ranks DEF Progress, StageNames
  <2> QED
    BY <2>1, <2>2, <2>3
<1>9. CASE Ended
  BY <1>9 DEF Ended, vars
<1> QED
  BY <1>1, <1>2, <1>3, <1>4, <1>4a, <1>5, <1>6, <1>7, <1>8, <1>9 DEF Next

(* The attempts of a run never exceed their limit, and before that only a  *)
(* run that has failed has none left (max_materialization_attempts in      *)
(* _generate_one_database_instance).                                       *)
THEOREM AttemptsBounded == Spec => []Counted
<1>1. Sound /\ Counted /\ [Next]_vars => Counted'
  BY StepProgresses DEF Counted, vars
<1> QED
  BY InitCounted, RunSound, <1>1, PTL DEF Spec

(* The worker comes to an end: each step is a later attempt, of which      *)
(* there is a limit, a later stage of the same attempt, one population more*)
(* counted, one table more generated or one event table fewer to overlay,  *)
(* for every schema,                                                       *)
(* configuration and limit (_generate_one_database_instance).              *)
THEOREM EveryStepProgressesHolds == Spec => EveryStepProgresses
<1>1. Sound /\ Counted /\ [Next]_vars => [Progress]_vars
  BY StepProgresses
<1> HIDE DEF Progress
<1>2. Spec => [][Progress]_vars
  BY AttemptsBounded, RunSound, <1>1, PTL DEF Spec
<1> QED
  BY <1>2 DEF EveryStepProgresses, Progress
=============================================================================
