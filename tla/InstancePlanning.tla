--------------------------- MODULE InstancePlanning ----------------------------
(***************************************************************************)
(* InstancePlanner.plan before a prior is bound: the order of generation,  *)
(* the rows of each table, its temporal family and the relation groups.    *)
(*                                                                         *)
(* Factors are counted in halves, so that a product of rows and factor can *)
(* lie between two whole numbers.  Parameters of the numeric mechanisms    *)
(* and all seeds are left out.                                             *)
(***************************************************************************)
EXTENDS PhysicalSchemas

CONSTANTS
  EntityRows,       \* <<entity_rows_min, entity_rows_max>>
  LookupRows,       \* <<lookup_rows_min, lookup_rows_max>>
  EventFanout,      \* <<event_fanout_min, event_fanout_max>>, in halves
  DetailFanout,     \* in halves
  BridgeFactor,     \* in halves
  ChildFactor,      \* entity_child_factor, in halves
  MaxRows,          \* max_rows_per_table
  OptionalRates,    \* the rates an optional key may get: 0 and 1 for "some"
  CalendarEnd       \* of a calendar that starts at 0

Within(range) == range[1]..range[2]

(* InstancePlannerConfig.__post_init__, as far as ranges go                *)
PlannerConfigAccepted ==
  /\ \A range \in {EntityRows, LookupRows, EventFanout, DetailFanout, BridgeFactor, ChildFactor} :
       range \in (Nat \ {0}) \X (Nat \ {0}) /\ range[1] <= range[2]
  /\ MaxRows \in Nat /\ MaxRows >= EntityRows[1]
  /\ OptionalRates \subseteq {0, 1}
  /\ CalendarEnd \in Nat \ {0}

ASSUME PlannerConfigured == PlannerConfigAccepted

(* Python's round() of n halves.                                           *)
RoundHalves(n) ==
  LET below == n \div 2
  IN IF n % 2 = 0 \/ below % 2 = 0 THEN below ELSE below + 1

AtLeast(x, low) == IF x < low THEN low ELSE x
AtMost(x, high) == IF x > high THEN high ELSE x

(* round() of half the root of q: n if 2n - 1 is no more than the root.     *)
RoundHalfRoot(q) ==
  LET n == Maximum({n \in 0..q : n = 0 \/ (2 * n - 1) * (2 * n - 1) <= q})
  IN IF (2 * n - 1) * (2 * n - 1) = q /\ n % 2 = 1 THEN n - 1 ELSE n

IntSqrt(n) == Maximum({r \in 0..n : r * r <= n})

(* By rank, then by ID.                                                    *)
Before(s) ==
  {e \in TablesOf(s) \X TablesOf(s) :
     s.ranks[e[1]] < s.ranks[e[2]] \/ (s.ranks[e[1]] = s.ranks[e[2]] /\ e[1] < e[2])}

GenerationOrder(s) == Sorted(TablesOf(s), Before(s))

Structural(s, t) == {i \in Incoming(s, t) : ~Lookup(s, i)}

Factors(role) ==
  CASE role = "event" -> Within(EventFanout)
    [] role = "detail" -> Within(DetailFanout)
    [] role = "bridge" -> Within(BridgeFactor)
    [] OTHER -> Within(ChildFactor)

(* The rows a table is scaled from, in the order of its keys.              *)
Basis(role, counts) ==
  IF role = "bridge" THEN IntSqrt(counts[1] * counts[Len(counts)]) ELSE Maximum(ToSet(counts))

(* _row_count: the rows and factors a table may get, given the rows of the *)
(* tables planned before it.  log(max + 1) may round up to max + 1.        *)
RowCounts(s, t, rows) ==
  LET role == s.roles[t]
      known == InOrder({i \in Structural(s, t) : ParentOf(s, i) \in DOMAIN rows})
      counts == [k \in DOMAIN known |-> rows[ParentOf(s, known[k])]]
  IN CASE role = "lookup" -> {<<n, 2>> : n \in LookupRows[1]..LookupRows[2] + 1}
       [] role # "lookup" /\ known = << >> -> {<<n, 2>> : n \in IF role = "entity" THEN Within(EntityRows) ELSE {}}
       [] OTHER -> {<<AtLeast(AtMost(RoundHalves(Basis(role, counts) * f), MaxRows), 1), f>> : f \in Factors(role)}

(* Rows and factors of the first k tables of the order.                    *)
RowPlans(s) ==
  LET order == GenerationOrder(s)
      plans[k \in 0..Len(order)] ==
        IF k = 0 THEN {[rows |-> << >>, factor |-> << >>]}
        ELSE UNION {{[rows |-> Joined(p.rows, Single(order[k], c[1])), factor |-> Joined(p.factor, Single(order[k], c[2]))] :
                     c \in RowCounts(s, order[k], p.rows)} : p \in plans[k - 1]}
  IN plans[Len(order)]

(* _temporal_family                                                        *)
TemporalFamily(s, t) ==
  CASE s.roles[t] # "event" -> "none"
    [] s.roles[t] = "event" /\ \E i \in Incoming(s, t) : s.roles[ParentOf(s, i)] = "event" -> "time_lagged"
    [] OTHER -> "parent_burst"

-----------------------------------------------------------------------------
(* The keys that are assigned together: the structural ones of a bridge,   *)
(* and every other key alone.                                              *)
Bridged(s, t) == s.roles[t] = "bridge" /\ Cardinality(Structural(s, t)) >= 2

RelationGroups(s) ==
  UNION {(IF Bridged(s, t) THEN {Structural(s, t)} ELSE {})
           \cup {{i} : i \in IF Bridged(s, t) THEN Incoming(s, t) \ Structural(s, t) ELSE Incoming(s, t)} :
         t \in TablesOf(s)}

ChildOfGroup(s, group) == ChildOf(s, CHOOSE i \in group : TRUE)

(* _relation_group: the family, and the rates of unassigned rows.          *)
GroupFamilies(s, group) ==
  LET i == CHOOSE i \in group : TRUE
  IN CASE Cardinality(group) > 1 -> {"affinity_bridge"}
       [] Cardinality(group) = 1 /\ Lookup(s, i) ->
            {"lookup_cpt", "lookup_softmax"}
              \cup (IF s.roles[ChildOf(s, i)] = "event" THEN {"lookup_transition"} ELSE {})
       [] OTHER -> {RelationStrategy(s, i)}

RatesOf(s, i) == IF Optional(s, i) THEN OptionalRates ELSE {0}

(* Only the lookup families are drawn, and they assign alike, so that one  *)
(* choice of them stands for all.                                          *)
InstancePlans(s) ==
  {[order |-> GenerationOrder(s), rows |-> p.rows, factor |-> p.factor,
    temporal |-> [t \in TablesOf(s) |-> TemporalFamily(s, t)],
    groups |-> RelationGroups(s),
    family |-> [group \in RelationGroups(s) |-> CHOOSE f \in GroupFamilies(s, group) : TRUE],
    rate |-> rate,
    columns |-> {}, populations |-> {}, counts |-> << >>, states |-> {}, trajectories |-> {}] :
   p \in RowPlans(s),
   rate \in {r \in [KeysOf(s) -> {0, 1}] : \A i \in KeysOf(s) : r[i] \in RatesOf(s, i)}}
=============================================================================
