---------------------------- MODULE TaskValidation ----------------------------
(***************************************************************************)
(* What a task must satisfy before it is stored: the checks of TaskPlan,   *)
(* the binding to the calendar of the database, and validate_task, which   *)
(* computes the labels again from the plan alone.                          *)
(***************************************************************************)
EXTENDS TaskBuilders

CONSTANTS
  Position,      \* table -> the place of each feature among its columns
  Nullable       \* table -> the features that may be null

ASSUME FeaturesPlaced ==
  \A t \in Tables :
    /\ Position[t] \in [Features[t] -> Nat] /\ IsInjective(Position[t])
    /\ Nullable[t] \subseteq Features[t]

(* The ID of a column is made from the ID of its node: no feature has the  *)
(* name under which a plan stores labels that are not a column.            *)
ASSUME LabelIsNoColumn == \A t \in Tables : "__label__" \notin Features[t]

HorizonMechanisms == {"entity_future_event_existence", "history_gated_future_activity",
                      "history_gated_future_inactive", "history_gated_future_active"}
AttributeMechanisms == {"relation_attribute", "random_column"}

(* The labels of a program that are not future existence: events in the    *)
(* horizon (2: with an attribute above the threshold), any of them (2, 4)  *)
(* or more of them than the threshold (3, 5).                              *)
ProgramEntityValues(d, plan) ==
  LET time == d.time[plan.source]
      selected == {e \in RowsOf(d, plan.source) :
                     /\ d.ref[plan.key][e] # 0
                     /\ time[e] > plan.cutoff /\ time[e] <= plan.horizon
                     /\ plan.semantics = 2 =>
                          d.value[plan.source][plan.from][e] > plan.threshold}
      Count(r) == Cardinality({e \in selected : d.ref[plan.key][e] = r})
  IN [r \in RowsOf(d, plan.target) |->
        Bit(IF plan.semantics \in {2, 4} THEN Count(r) > 0 ELSE Count(r) > plan.threshold)]

(* The label stream is replayed up to the pass that the builder kept.      *)
(* ReplayOneFewer is the slip of one pass too few.                         *)
ReplayOneFewer(plan) == plan.passes[MaxOf(1, plan.retries)]
Replayed(plan) == plan.passes[plan.retries + 1]

(* mechanism_labels: from the plan and the database only.                  *)
MechanismLabels(d, plan) ==
  LET path == CHOOSE p \in plan.paths : TRUE
      scores == PathSourceScores(d, plan.target, path, plan.source, plan.from)
      cutoffs == IF plan.rowCutoff THEN d.time[plan.target]
                 ELSE [r \in RowsOf(d, plan.target) |-> plan.cutoff]
      existence == FutureExistence(d, plan.key, plan.cutoff, plan.horizon)
  IN CASE plan.mechanism = "relational_classification" ->
            CompositeLabels(d, plan.target, CHOOSE s \in plan.spec : TRUE, plan.threshold, plan.cutoff)
       [] plan.mechanism = "random_column" ->
            Above(d.value[plan.target][plan.column], plan.threshold)
       [] plan.mechanism = "interaction_response" -> Replayed(plan)
       [] plan.mechanism = "entity_future_event_existence" ->
            IF \/ plan.semantics \in {3, 4, 5}
               \/ plan.semantics = 2 /\ plan.from # NoColumn
            THEN ProgramEntityValues(d, plan) ELSE existence
       [] plan.mechanism = "history_gated_future_activity" ->
            HistoryGated(d, plan.key, plan.cutoff, plan.horizon)
       [] plan.mechanism = "history_gated_future_inactive" ->
            HistoryGatedFuture(d, plan.key, plan.cutoff, plan.horizon, FALSE)
       [] plan.mechanism = "history_gated_future_active" ->
            HistoryGatedFuture(d, plan.key, plan.cutoff, plan.horizon, TRUE)
       [] plan.mechanism \in {"relation_attribute", "future_event_attribute_condition"} ->
            IF plan.classes > 0 THEN CategoricalQuantiles(scores, plan.classes)
            ELSE Above(scores, plan.threshold)
       [] plan.mechanism = "temporal_relational_aggregate" ->
            Above(WindowedAggregates(d, [target |-> plan.target, source |-> plan.source, path |-> path,
                                         operator |-> plan.operator, from |-> plan.from],
                                     cutoffs, plan.windows), plan.threshold)

-----------------------------------------------------------------------------
(* The windows that a plan measures from its cutoff.                       *)
SpecAggregates(plan) == UNION {ToSet(s.aggregates) \cup s.gate : s \in plan.spec}
Within(calendar, x) == calendar[1] <= x /\ x <= calendar[2]

(* AggregateSpec, CompositeTaskSpec: what their constructors refuse.  A    *)
(* window lies before the cutoff or after it.                              *)
AggregateWellFormed(a) ==
  /\ a.path # << >> /\ a.start < a.end
  /\ IF a.end <= 0 THEN a.start < 0 ELSE a.start >= 0
  /\ (a.operator = "count") = (a.column = NoColumn)

SpecWellFormed(spec) ==
  /\ spec.aggregates # << >>
  /\ \A a \in ToSet(spec.aggregates) \cup spec.gate : AggregateWellFormed(a)

(* TaskData.__post_init__.                                                 *)
DataWellFormed(task) == task.support # {} /\ task.query # {} /\ task.support \cap task.query = {}

(* TaskPlan.__post_init__: what the constructor refuses.                   *)
PlanWellFormed(plan) ==
  /\ plan.cutoff # NoTime /\ plan.horizon # NoTime => plan.horizon > plan.cutoff
  /\ plan.rowCutoff => plan.rules # NoTime /\ Timed # {}
  /\ plan.calendar # << >> =>
       /\ \A x \in {plan.cutoff, plan.horizon} \ {NoTime} : Within(plan.calendar, x)
       /\ plan.rules # NoTime /\ Timed # {} => Within(plan.calendar, plan.rules)
       /\ \A w \in ToSet(plan.windows) : w \in 0..(plan.calendar[2] - plan.calendar[1])
  /\ plan.mechanism \in HorizonMechanisms => plan.key # 0 /\ NoTime \notin {plan.cutoff, plan.horizon}
  /\ plan.mechanism = "interaction_response" => plan.key # 0 /\ plan.rowCutoff /\ plan.from # NoColumn
  /\ plan.mechanism \notin AttributeMechanisms => plan.paths # {}
  /\ \A spec \in plan.spec : SpecWellFormed(spec)

(* _bind_instance_calendar: a task outside of the calendar is dropped.     *)
(* Only the first window is looked at.                                     *)
FitsCalendar(plan, calendar) ==
  /\ \A x \in {plan.cutoff, plan.horizon} \ {NoTime} : Within(calendar, x)
  /\ plan.rules # NoTime /\ Timed # {} => Within(calendar, plan.rules)
  /\ plan.windows # << >> => plan.windows[1] \in 0..(calendar[2] - calendar[1])
  /\ plan.cutoff # NoTime =>
       \A a \in SpecAggregates(plan) : /\ Within(calendar, plan.cutoff + a.start)
                                       /\ Within(calendar, plan.cutoff + a.end)

BindCalendar(task, calendar) ==
  IF calendar = << >> THEN task
  ELSE IF FitsCalendar(task.plan, calendar) THEN [task EXCEPT !.plan.calendar = calendar]
  ELSE NoTask

-----------------------------------------------------------------------------
(* A required path: along foreign keys, through no table twice, and for    *)
(* one with an endpoint to the source table.                               *)
Contiguous(t, p) == <<t, p>> \in Routes
RoutesValid(plan) ==
  \A p \in plan.paths : /\ Contiguous(plan.target, p)
                        /\ plan.spec = {} => Endpoint(plan.target, p) = plan.source

LabelsValid(d, task) ==
  LET expected == MechanismLabels(d, task.plan)
  IN \A r \in task.support \cup task.query : task.labels[r] = expected[r]

TwoClasses(labels, rows) == Cardinality({labels[r] : r \in rows}) >= 2

(* Every timed table is cut at the cutoff of the task.                     *)
FutureHidden(plan) == plan.rules = plan.cutoff

CompositeValid(task) ==
  LET plan == task.plan
  IN /\ \A a \in SpecAggregates(plan) :
          /\ Contiguous(plan.target, a.path) /\ Endpoint(plan.target, a.path) \in Timed
          /\ a.operator # "count" => a.column # NoColumn
          /\ plan.calendar # << >> => /\ Within(plan.calendar, plan.cutoff + a.start)
                                      /\ Within(plan.calendar, plan.cutoff + a.end)
     /\ FutureHidden(plan)
     /\ \A r \in task.support \cup task.query : task.labels[r] >= 0

(* validate_task.                                                          *)
TaskValid(d, task) ==
  LET plan == task.plan
  IN /\ task.support \cup task.query \subseteq RowsInView(d, plan)
     /\ TwoClasses(task.labels, task.support) /\ TwoClasses(task.labels, task.query)
     /\ plan.rowCutoff => plan.target \in Timed
     /\ RoutesValid(plan)
     /\ LabelsValid(d, task)
     /\ plan.mechanism \in AttributeMechanisms => plan.column \in Features[plan.target]
     /\ plan.mechanism \in HorizonMechanisms => FutureHidden(plan)
     /\ plan.spec # {} => CompositeValid(task)

-----------------------------------------------------------------------------
(* NuisancePlanner: the first n other features of the table of a feature;  *)
(* an overlay of any kind records the first one as the source of the       *)
(* feature, and "mar" the first two as what drives its missing values.     *)
FirstOthers(t, c, n) ==
  {o \in Features[t] \ {c} :
     Cardinality({x \in Features[t] \ {c} : Position[t][x] < Position[t][o]}) < n}

Sources(t, c) == FirstOthers(t, c, 1)
Drivers(t, c) == FirstOthers(t, c, 2)

(* validate_nuisance_target_leakage: another feature is derived from the   *)
(* target column, or its missing values are driven by it.                  *)
Leaks(overlay, plan) ==
  /\ overlay # "legacy"
  /\ \E c \in Features[plan.target] \ {plan.column} :
       \/ plan.column \in Sources(plan.target, c)
       \/ overlay = "mar" /\ c \in Nullable[plan.target] /\ plan.column \in Drivers(plan.target, c)

===============================================================================
