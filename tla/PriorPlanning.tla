----------------------------- MODULE PriorPlanning -----------------------------
(***************************************************************************)
(* PriorPlanner.plan: the prior family of a database and one mechanism     *)
(* bundle for each motif occurrence (priors/planner.py, compatibility.py). *)
(*                                                                         *)
(* A request r has r.families (those with a positive weight; {} for no     *)
(* prior), r.compositions (one record if it is configured, or none),       *)
(* r.stateful (temporal_state.enabled), r.rules (rule_process.enabled),    *)
(* r.intensity (use_for_event_intensity) and the nuisance overlay.  Forests*)
(* and mechanism parameters are left out, as is the kind of a temporal     *)
(* prior that is not static.                                               *)
(***************************************************************************)
EXTENDS InstancePlanning

CONSTANTS
  MaxParents,   \* relational_scm.parent_count, upper bound
  MaxDepth      \* relational_scm.column_dag_depth, upper bound

ASSUME ColumnDagBounded == MaxParents \in Nat /\ MaxDepth \in Nat

TemporalFamilies == {"temporal_event", "rule_process"}

Composition(attribute, relation, temporal, process) ==
  [attribute |-> attribute, relation |-> relation, temporal |-> temporal, process |-> process]

(* PriorCompositionConfig and PriorPlannerConfig, on construction.         *)
PriorConfigAccepted(r) ==
  /\ \A c \in r.compositions :
       /\ c = Composition(c.attribute, c.relation, c.temporal, c.process)
       /\ c.relation = "state_conditioned_event" \/ c.process \in {"state_machine", "workflow"} => c.temporal # "static"
  /\ r.stateful =>
       IF r.compositions = {} THEN r.families \cap TemporalFamilies # {}
       ELSE \A c \in r.compositions : c.temporal # "static"

-----------------------------------------------------------------------------
(* entity_event_candidates: the event hangs on this entity alone, lookups  *)
(* apart.  o.compatible says whether the semantic roles fit.               *)
EventKey(s, o) == CHOOSE i \in Structural(s, o.event) : ParentOf(s, i) = o.entity

Candidate(s, o) ==
  /\ o.entity # 0 /\ o.event # 0
  /\ s.roles[o.entity] = "entity" /\ s.roles[o.event] = "event"
  /\ Cardinality(Structural(s, o.event)) = 1
  /\ \E i \in Structural(s, o.event) : ParentOf(s, i) = o.entity
  /\ o.compatible

Candidates(s) == {k \in DOMAIN s.occurrences : Candidate(s, s.occurrences[k])}

(* _default_composition                                                    *)
DefaultComposition(family) ==
  CASE family = "temporal_event" -> Composition("column_scm", "state_conditioned_event", "changing", "none")
    [] family = "rule_process" -> Composition("column_scm", "state_conditioned_event", "changing", "rule")
    [] family = "relational_tree" -> Composition("tree", "tree", "static", "none")
    [] family = "relational_scm" -> Composition("column_scm", "scm", "static", "none")
    [] OTHER -> Composition("legacy_scm", "latent_affinity", "static", "none")

(* _family                                                                 *)
Families(s, r) == {f \in r.families : f \in TemporalFamilies => Candidates(s) # {}}

(* The family a configured composition stands for; "" if there is none.    *)
FamilyOf(s, c) ==
  CASE c.temporal = "static" /\ "tree" \in {c.attribute, c.relation} -> "relational_tree"
    [] c.temporal = "static" /\ "tree" \notin {c.attribute, c.relation} ->
         IF c.attribute = "column_scm" \/ c.relation = "scm" THEN "relational_scm" ELSE "legacy_role_scm"
    [] c.temporal # "static" /\ Candidates(s) # {} -> IF c.process = "rule" THEN "rule_process" ELSE "temporal_event"
    [] OTHER -> ""

PriorChoices(s, r) ==
  IF r.compositions = {}
  THEN {[family |-> f, components |-> DefaultComposition(f)] : f \in Families(s, r)}
  ELSE {[family |-> FamilyOf(s, c), components |-> c] : c \in r.compositions} \ {[family |-> "", components |-> c] : c \in r.compositions}

-----------------------------------------------------------------------------
(* The parents a feature may get in a relational_scm bundle: features of   *)
(* the occurrence's parent tables, and features before it in its table.    *)
ParentFeatures(s, o, t) ==
  UNION {Features(s, ParentOf(s, i)) : i \in {i \in Incoming(s, t) : ParentOf(s, i) \in o.tables}}

(* Slip: all features of the table are offered, also later ones.           *)
AnyFeature(s, t, column) == Features(s, t) \ {column}

EarlierFeatures(s, t, column) == {c \in Features(s, t) : c[2] < column[2]}

Depth(depths, c) == IF c \in DOMAIN depths THEN depths[c] ELSE 0

(* The parents a feature may draw.                                         *)
ColumnChoices(s, o, t, depths, column) ==
  {P \in SUBSET {c \in EarlierFeatures(s, t, column) \cup ParentFeatures(s, o, t) : Depth(depths, c) < MaxDepth} :
     Cardinality(P) <= MaxParents}

(* The depth of a column counts from the parents of the same table only.   *)
WithMechanism(d, column, P) ==
  LET below == AtMost(1 + Maximum({Depth(d.depths, c) : c \in P}), MaxDepth)
  IN [mechanisms |-> d.mechanisms \cup {[column |-> column, parents |-> P]},
      depths |-> Joined(d.depths, Single(column, IF P = {} THEN 0 ELSE below))]

(* Mechanisms and depths of the features of t up to ordinal k.             *)
DrawNext(s, o, t, before, k) ==
  IF s.columns[t][k].kind # "feature" THEN before
  ELSE UNION {{WithMechanism(d, <<t, k>>, P) : P \in ColumnChoices(s, o, t, d.depths, <<t, k>>)} : d \in before}

ColumnDraws(s, o, t) ==
  LET draws[k \in 0..Len(s.columns[t])] ==
        IF k = 0 THEN {[mechanisms |-> {}, depths |-> << >>]} ELSE DrawNext(s, o, t, draws[k - 1], k)
  IN {d.mechanisms : d \in draws[Len(s.columns[t])]}

Bundle(family, tables, keys, components) ==
  [family |-> family, tables |-> tables, keys |-> keys, components |-> components, columns |-> {},
   populations |-> {}, entity |-> 0, event |-> 0]

(* _relational_scm_bundle: populations of the occurrence's event tables.   *)
ScmPopulations(s, o) ==
  LET owners(t) == {i \in Structural(s, t) : ParentOf(s, i) \in o.tables}
  IN {[table |-> t, parent |-> ParentOf(s, InOrder(owners(t))[1]), source |-> "relational_scm", key |-> 0] :
      t \in {t \in o.tables : s.roles[t] = "event" /\ owners(t) # {}}}

RelationalScmBundles(s, o) ==
  {[Bundle("relational_scm", o.tables, {i \in KeysOf(s) : ChildOf(s, i) \in o.tables}, DefaultComposition("relational_scm"))
      EXCEPT !.columns = columns, !.populations = ScmPopulations(s, o)] :
   columns \in {UNION Range(f) : f \in EachOf([t \in o.tables |-> ColumnDraws(s, o, t)])}}

(* _tree_bundle: about the entity and its event only.                      *)
TreeBundle(s, o, choice) ==
  [Bundle(choice.family, {o.entity, o.event}, {EventKey(s, o)}, choice.components)
     EXCEPT !.entity = o.entity, !.event = o.event]

(* _temporal_bundle: a state trajectory gives a bundle that has no process *)
(* a state machine.                                                        *)
TemporalBundle(s, r, o, choice) ==
  IF r.stateful /\ choice.components.process = "none"
  THEN [TreeBundle(s, o, choice) EXCEPT !.components.process = "state_machine"] ELSE TreeBundle(s, o, choice)

LegacyBundle(o) == Bundle("legacy_role_scm", o.tables, {}, DefaultComposition("legacy_role_scm"))

BundlesFor(s, r, o, choice) ==
  CASE choice.family = "relational_scm" -> RelationalScmBundles(s, o)
    [] choice.family = "relational_tree" /\ Candidate(s, o) -> {TreeBundle(s, o, choice)}
    [] choice.family \in TemporalFamilies /\ Candidate(s, o) -> {TemporalBundle(s, r, o, choice)}
    [] OTHER -> {LegacyBundle(o)}

(* Whether the draw of a rule plan is refused.                             *)
RulesRefused(s, r, choice) == choice.family = "rule_process" /\ choice.components.process = "rule" /\ ~r.rules

Owners(bundles) == {b.entity : b \in {b \in Range(bundles) : b.family \in TemporalFamilies}}

(* _temporal_state_plan, for each owner if trajectories are configured     *)
Trajectories(r, bundles) == IF r.stateful THEN Owners(bundles) ELSE {}

(* PriorPlanner.plan; none if it raises.  Each owner has one shared state. *)
PriorPlans(s, r) ==
  UNION {{[family |-> choice.family, components |-> choice.components, bundles |-> bundles,
           states |-> Owners(bundles), trajectories |-> Trajectories(r, bundles)] :
          bundles \in EachOf([k \in DOMAIN s.occurrences |-> BundlesFor(s, r, s.occurrences[k], choice)])} :
         choice \in {c \in PriorChoices(s, r) : ~RulesRefused(s, r, c)}}

(* MotifMechanismBundle, PriorCompositionPlan and DatabasePriorPlan, on    *)
(* construction.                                                           *)
BundleConstructs(b) ==
  b.components.relation = "state_conditioned_event" \/ b.components.process \in {"state_machine", "workflow"}
    => b.components.temporal # "static"

PriorConstructs(prior) ==
  prior.trajectories \subseteq prior.states /\ \A b \in Range(prior.bundles) : BundleConstructs(b)

NoPrior == [family |-> "none", components |-> DefaultComposition("legacy_role_scm"), bundles |-> << >>, states |-> {}, trajectories |-> {}]

Static(prior) == prior.family \notin TemporalFamilies
=============================================================================
