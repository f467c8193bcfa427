----------------------------- MODULE PriorBinding ------------------------------
(***************************************************************************)
(* From a prior plan to the plan a database is generated from: binding the *)
(* bundles (priors/families/), validating the result (validation/checks),  *)
(* and resolving the populations of the draft (generation/).               *)
(*                                                                         *)
(* An outcome is [issues, plan]: with issues, the code has raised.  Counts *)
(* are drawn; which scores and rules they are drawn from is left out.      *)
(***************************************************************************)
EXTENDS PriorPlanning

CONSTANTS
  MaxPerOwner,   \* bound of the model: children drawn for one parent row
  HardFactor,    \* 4 in the code
  HardFloor      \* 128 in the code

ASSUME LimitsGiven == {MaxPerOwner, HardFactor, HardFloor} \subseteq Nat \ {0}

Fine(p) == [issues |-> {}, plan |-> p]
Raised(issue, p) == [issues |-> {issue}, plan |-> p]

HardLimit(rows) == AtLeast(HardFactor * rows, HardFloor)

(* What a drawn population is refused for.                                 *)
PopulationIssues(total, rows) ==
  CASE total < 1 -> {"no events"}
    [] total > HardLimit(rows) -> {"event limit"}
    [] OTHER -> {}

CountDraws(n) == [1..n -> 0..MaxPerOwner]

(* The events of the first owners.                                         *)
Running(counts) ==
  LET sums[e \in 0..Len(counts)] == IF e = 0 THEN 0 ELSE sums[e - 1] + counts[e]
  IN sums

Total(counts) == Running(counts)[Len(counts)]

-----------------------------------------------------------------------------
(* The compositions a temporal bundle may have.  A tree relation needs the *)
(* forest of the intensity.                                                *)
CompositionIssues(r, b) ==
  IF /\ b.components.attribute \in {"column_scm", "tree"}
     /\ b.components.relation \in {"state_conditioned_event", "scm", "tree"}
     /\ b.components.temporal # "static"
     /\ b.components.relation = "tree" => r.intensity
  THEN {} ELSE {"composition"}

TemporalMechanism(b) ==
  [table |-> b.event, parent |-> b.entity, source |-> "temporal_event", key |-> CHOOSE i \in b.keys : TRUE]

(* One bundle: provisional rows, one mechanism for each event feature, and *)
(* the relation family if the relation axis is scm.                        *)
BindTemporalBundle(s, r, p, b) ==
  LET totals == {Total(c) : c \in CountDraws(p.rows[b.entity])}
      issues(total) == CompositionIssues(r, b) \cup PopulationIssues(total, p.rows[b.event])
      bound(total) ==
        [p EXCEPT !.rows[b.event] = total,
                  !.populations = @ \cup {TemporalMechanism(b)},
                  !.columns = @ \cup {[column |-> c, parents |-> Features(s, b.entity)] : c \in Features(s, b.event)},
                  !.family = [g \in DOMAIN @ |-> IF g = b.keys /\ b.components.relation = "scm" THEN "scm" ELSE @[g]]]
  IN {IF issues(total) = {} THEN Fine(bound(total)) ELSE [issues |-> issues(total), plan |-> p] : total \in totals}

BindNext(s, r, before, b) ==
  UNION {IF o.issues # {} \/ b.family \notin TemporalFamilies THEN {o} ELSE BindTemporalBundle(s, r, o.plan, b) : o \in before}

(* bind_temporal_event_plan                                                *)
BindTemporal(s, r, p, prior) ==
  LET outcomes[k \in 0..Len(prior.bundles)] ==
        IF k = 0 THEN {Fine(p)} ELSE BindNext(s, r, outcomes[k - 1], prior.bundles[k])
  IN outcomes[Len(prior.bundles)]

(* bind_relational_scm_plan: of several bundles about a column, key or     *)
(* table the last one counts.                                              *)
BindScm(p, prior) ==
  LET scm == {k \in DOMAIN prior.bundles : prior.bundles[k].family = "relational_scm"}
      bundle(k) == prior.bundles[k]
      last(k, m) == \A j \in scm : m.column \in {n.column : n \in bundle(j).columns} => j <= k
      owner(k, m) == \A j \in scm : m.table \in {n.table : n \in bundle(j).populations} => j <= k
  IN [p EXCEPT !.columns = UNION {{m \in bundle(k).columns : last(k, m)} : k \in scm},
               !.populations = UNION {{m \in bundle(k).populations : owner(k, m)} : k \in scm},
               !.family = [g \in DOMAIN @ |->
                             IF Cardinality(g) = 1 /\ \E k \in scm : g \subseteq bundle(k).keys THEN "scm" ELSE @[g]]]

TreeFamily(b) ==
  CASE b.components.relation = "tree" -> "tree_propensity"
    [] b.components.relation = "scm" -> "scm"
    [] OTHER -> "latent_affinity"

(* bind_relational_tree_plan                                               *)
BindTree(s, p, prior) ==
  LET trees == {b \in Range(prior.bundles) : b.family = "relational_tree"}
      attributes == {b \in trees : b.components.attribute = "tree"}
  IN [p EXCEPT !.columns = UNION {{[column |-> c, parents |-> {}] : c \in Features(s, b.event)} : b \in attributes},
               !.family = [g \in DOMAIN @ |->
                             IF \E b \in trees : b.keys = g THEN TreeFamily(CHOOSE b \in trees : b.keys = g) ELSE @[g]]]

Bind(s, r, p, prior) ==
  LET given == [p EXCEPT !.states = prior.states, !.trajectories = prior.trajectories]
  IN CASE prior.family \in TemporalFamilies -> BindTemporal(s, r, given, prior)
       [] prior.family = "relational_scm" -> {Fine(BindScm(given, prior))}
       [] prior.family = "relational_tree" -> {Fine(BindTree(s, given, prior))}
       [] OTHER -> {Fine(given)}

(* InstancePlan, on construction                                           *)
PlanConstructs(p) ==
  ToSet(p.order) = DOMAIN p.rows /\ Len(p.order) = Cardinality(DOMAIN p.rows) /\ p.trajectories \subseteq p.states

-----------------------------------------------------------------------------
(* validate_instance_plan                                                  *)
Position(p, t) == CHOOSE k \in DOMAIN p.order : p.order[k] = t

Coverage(s, p) == ToSet(p.order) = TablesOf(s) /\ DOMAIN p.rows = TablesOf(s)

RelationsCover(s, p) ==
  /\ UNION p.groups = KeysOf(s)
  /\ \A g, h \in p.groups : g # h => g \cap h = {}
  /\ \A g \in p.groups : \A i, j \in g : ChildOf(s, i) = ChildOf(s, j)

ParentsFirst(s, p) == \A i \in KeysOf(s) : Position(p, ParentOf(s, i)) < Position(p, ChildOf(s, i))

(* Two bundles may not give one table, or one key, different mechanisms.   *)
ClaimsAgree(prior) ==
  \A b, c \in Range(prior.bundles) :
    /\ b.tables \cap c.tables # {} =>
         b.components.attribute = c.components.attribute \/ "legacy_scm" \in {b.components.attribute, c.components.attribute}
    /\ b.keys \cap c.keys # {} =>
         b.components.relation = c.components.relation \/ "latent_affinity" \in {b.components.relation, c.components.relation}

StatesOwned(s, p) ==
  /\ \A t \in p.states \cup p.trajectories : s.roles[t] = "entity"
  /\ p.trajectories \subseteq p.states
  /\ \A m \in p.populations : m.source = "temporal_event" => m.parent \in p.states

MechanismsUnique(p) == \A m, n \in p.columns : m.column = n.column => m = n

ColumnParents(p, c) == UNION {m.parents : m \in {m \in p.columns : m.column = c}}

(* What is reached in twice the steps.                                     *)
Reached(columns, before) == [c \in columns |-> before[c] \cup UNION {before[d] : d \in before[c] \cap columns}]

(* _column_dag_cycle                                                       *)
Acyclic(p) ==
  LET columns == {m.column : m \in p.columns}
      reach[k \in 0..Cardinality(columns)] ==
        IF k = 0 THEN [c \in columns |-> ColumnParents(p, c)] ELSE Reached(columns, reach[k - 1])
  IN \A c \in columns : c \notin reach[Cardinality(columns)][c]

ColumnsKnown(s, p) == UNION {{m.column} \cup m.parents : m \in p.columns} \subseteq AllFeatures(s)

PlanIssueKinds == {"coverage", "relations", "order", "claims", "states", "duplicate mechanism", "column cycle", "column reference"}

PlanIssues(s, p, prior) ==
  {issue \in PlanIssueKinds :
     ~CASE issue = "coverage" -> Coverage(s, p)
        [] issue = "relations" -> RelationsCover(s, p)
        [] issue = "order" -> ParentsFirst(s, p)
        [] issue = "claims" -> ClaimsAgree(prior)
        [] issue = "states" -> StatesOwned(s, p)
        [] issue = "duplicate mechanism" -> MechanismsUnique(p)
        [] issue = "column cycle" -> Acyclic(p)
        [] OTHER -> ColumnsKnown(s, p)}

-----------------------------------------------------------------------------
(* What the schedule of an entity's events is drawn from: the rows of the  *)
(* entity and of the tables its features depend on.                        *)
WithParents(s, tables) == tables \cup {ParentOf(s, i) : i \in {i \in KeysOf(s) : ChildOf(s, i) \in tables}}

Digest(s, rows, t) ==
  LET above[k \in 0..Len(s.roles)] == IF k = 0 THEN {t} ELSE WithParents(s, above[k - 1])
  IN {<<u, rows[u]>> : u \in above[Len(s.roles)]}

Product(counts) ==
  LET products[k \in 0..Len(counts)] == IF k = 0 THEN 1 ELSE products[k - 1] * counts[k]
  IN products[Len(counts)]

(* One table, if it is under a changed one, other than by lookups.         *)
ReplanTable(s, p, c, t) ==
  LET keys == InOrder({i \in Structural(s, t) : ParentOf(s, i) \in c.changed})
      counts == [k \in DOMAIN keys |-> c.rows[ParentOf(s, keys[k])]]
      target == IF s.roles[t] = "bridge" /\ Len(counts) > 1
                THEN RoundHalfRoot(p.factor[t] * p.factor[t] * Product(counts))
                ELSE RoundHalves(p.factor[t] * Maximum(ToSet(counts)))
  IN IF t \in c.changed \/ keys = << >> THEN c
     ELSE [rows |-> [c.rows EXCEPT ![t] = AtLeast(target, 1)], changed |-> c.changed \cup {t}]

(* _replan_downstream_populations, in the order of generation              *)
Replanned(s, p, changed) ==
  LET step[k \in 0..Len(p.order)] ==
        IF k = 0 THEN [rows |-> p.rows, changed |-> changed] ELSE ReplanTable(s, p, step[k - 1], p.order[k])
  IN step[Len(p.order)].rows

(* Slip: the counts are stored, and the rows of the draft are kept.        *)
KeptRows(p, t, total) == p.rows

ResolvedRows(p, t, total) == [p.rows EXCEPT ![t] = total]

(* One population of the draft: its counts, and the rows they add up to.   *)
ResolveOne(s, p, m, counts) ==
  [p EXCEPT !.rows = ResolvedRows(p, m.table, Total(counts)),
            !.counts = Joined(@, Single(m.table, [of |-> counts, digest |-> Digest(s, p.rows, m.parent)]))]

Temporal(p) == {m \in p.populations : m.source = "temporal_event"}

(* requires_finalization                                                   *)
NeedsDraft(p) == p.populations # {}

(* finalize_plan: the populations of the draft that are not counted yet;   *)
(* the tables under relational_scm populations keep their rows.            *)
Unresolved(p) ==
  {m \in (IF Temporal(p) = {} THEN p.populations ELSE Temporal(p)) : m.table \notin DOMAIN p.counts}

FinalPlan(s, p) ==
  IF Temporal(p) = {} THEN p ELSE [p EXCEPT !.rows = Replanned(s, p, {m.table : m \in Temporal(p)})]
=============================================================================
