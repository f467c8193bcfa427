----------------------------- MODULE TaskPrograms -----------------------------
(***************************************************************************)
(* Task programs: drawn from the calendar and the motif bundles before a   *)
(* database exists, executed on the database that is then materialized.    *)
(***************************************************************************)
EXTENDS TaskValidation

CONSTANTS
  Bundles,               \* foreign keys, from event to entity, of the temporal bundles
  ProgramCutoffPercent,  \* percent of the calendar: <<cutoff_fraction_min, ..._max>>
  ProgramHorizonPercent, \* percent of the calendar: <<horizon_fraction_min, ..._max>>
  MinTotalRows,
  PositiveRate           \* percent: <<positive_rate_min, positive_rate_max>>

ASSUME BundlesJoin ==
  /\ Bundles \in Seq(DOMAIN Keys) /\ Bundles # << >>
  /\ \A i \in ToSet(Bundles) : Keys[i].child \in TimedEvents /\ Role[Keys[i].parent] = "entity"
(* TaskPolicyPlan.__post_init__.                                           *)
PolicyAccepted ==
  /\ MinTotalRows >= MinSupport + MinQuery
  /\ \A range \in {ProgramCutoffPercent, ProgramHorizonPercent, PositiveRate} :
       0 < range[1] /\ range[1] <= range[2] /\ range[2] < 100
ASSUME TaskPolicy == PolicyAccepted
ASSUME ProgramFractions ==
  {ProgramCutoffPercent, ProgramHorizonPercent, PositiveRate} \subseteq Nat \X Nat

Fraction(span, percent) == {Round(span * p, 100) : p \in percent[1]..percent[2]}

(* The programs that may be drawn for a family as number `index`.          *)
ProgramDraws(calendar, index, family) ==
  LET key == Bundles[1 + ((index - 1) % Len(Bundles))]
      span == calendar[2] - calendar[1]
      After(cutoff) == {[from |-> cutoff, to |-> MinOf(calendar[2], cutoff + MaxOf(1, h))] :
                          h \in Fraction(span, ProgramHorizonPercent)}
      columns == IF Features[Keys[key].child] = {} THEN {NoColumn} ELSE Features[Keys[key].child]
  IN {[family |-> family, key |-> key, cutoff |-> window.from, horizon |-> window.to,
       attribute |-> column, threshold |-> threshold] :
        window \in UNION {After(calendar[1] + c) : c \in Fraction(span, ProgramCutoffPercent)},
        column \in columns,
        threshold \in IF family = "future_event_attribute" THEN {-1, 0} ELSE {1}}

(* No family twice before all were used (`families` bounds the draws; all  *)
(* bundles support all families), and no empty horizon.                    *)
ProgramPlans(calendar, count, families) ==
  {plans \in UNION {[1..count -> UNION {ProgramDraws(calendar, index, family) :
                                          index \in 1..count, family \in families}]} :
     /\ \A index \in 1..count : plans[index] \in ProgramDraws(calendar, index, plans[index].family)
     /\ \A i, j \in 1..count : i # j => plans[i].family # plans[j].family}

ProgramPlanValid(program) == program.horizon > program.cutoff

-----------------------------------------------------------------------------
MechanismForFamily(family) ==
  IF family \in {"history_gated_future_active", "history_gated_future_inactive"}
  THEN family ELSE "entity_future_event_existence"

(* The slip of an interaction program whose code reads the threshold.      *)
SwappedCode ==
  [future_event_existence |-> 1, history_gated_future_active |-> 1, history_gated_future_inactive |-> 1,
   future_event_attribute |-> 2, temporal_aggregate |-> 4, interaction_response |-> 3,
   multi_hop_program |-> 5]

(* program_semantics_code: which labels are replayed.                      *)
SemanticsCode ==
  [future_event_existence |-> 1, history_gated_future_active |-> 1, history_gated_future_inactive |-> 1,
   future_event_attribute |-> 2, temporal_aggregate |-> 3, interaction_response |-> 4,
   multi_hop_program |-> 5]

(* EntityLabels: the labels of the executor, none if it raises.            *)
EntityLabels(d, program) ==
  LET event == Keys[program.key].child
      selected == {e \in RowsOf(d, event) : /\ d.ref[program.key][e] # 0
                                            /\ d.time[event][e] > program.cutoff
                                            /\ d.time[event][e] <= program.horizon}
      Count(r, events) == Cardinality({e \in events : d.ref[program.key][e] = r})
      PerEntity(Label(_)) == {[r \in RowsOf(d, Keys[program.key].parent) |-> Label(r)]}
      Attributed(r) == Bit(Count(r, {e \in selected : d.value[event][program.attribute][e] > program.threshold}) > 0)
      Some(r) == Bit(Count(r, selected) > 0)
      Many(r) == Bit(Count(r, selected) > program.threshold)
  IN CASE program.family = "future_event_existence" ->
            {FutureExistence(d, program.key, program.cutoff, program.horizon)}
       [] program.family = "history_gated_future_active" ->
            {HistoryGatedFuture(d, program.key, program.cutoff, program.horizon, TRUE)}
       [] program.family = "history_gated_future_inactive" ->
            {HistoryGatedFuture(d, program.key, program.cutoff, program.horizon, FALSE)}
       [] program.family = "future_event_attribute" ->
            IF program.attribute = NoColumn THEN {} ELSE PerEntity(Attributed)
       [] program.family = "interaction_response" -> PerEntity(Some)
       [] program.family \in {"temporal_aggregate", "multi_hop_program"} -> PerEntity(Many)

InRate(labels, rate) ==
  LET rows == Labelled(labels)
      positive == 100 * Cardinality({r \in rows : labels[r] = 1})
  IN positive >= rate[1] * Cardinality(rows) /\ positive <= rate[2] * Cardinality(rows)

(* The plan of an executed program, and every task with it.               *)
ProgramTaskPlan(program) ==
  [Plan(MechanismForFamily(program.family),
        [target |-> Keys[program.key].parent, source |-> Keys[program.key].child], <<program.key>>)
     EXCEPT !.from = program.attribute, !.key = program.key, !.cutoff = program.cutoff,
            !.horizon = program.horizon, !.rules = program.cutoff, !.threshold = program.threshold,
            !.semantics = SemanticsCode[program.family], !.strategy = "stratified_entities"]

ProgramTasks(plan, labels, rate) ==
  LET rows == Labelled(labels)
  IN IF rows = {} \/ Cardinality(rows) < MinTotalRows \/ ~InRate(labels, rate) THEN {}
     ELSE {[plan |-> plan, support |-> s.support, query |-> s.query,
            labels |-> [r \in rows |-> labels[r]]] : s \in StratifiedSplits(labels, rows)}

(* Every task a program may give on d; none where the executor answers     *)
(* None or raises.                                                         *)
Executions(d, program, rate) ==
  UNION {ProgramTasks(ProgramTaskPlan(program), labels, rate) : labels \in EntityLabels(d, program)}

===============================================================================
