----------------------------- MODULE TaskBuilders -----------------------------
(***************************************************************************)
(* The builders of task/mechanisms.py: for a candidate, every task that    *)
(* the draws of the builder may give, or NoTask.  A task is a plan, from   *)
(* which the labels can be computed again, and the rows of the support and *)
(* query sets with the labels that the builder gave them.                  *)
(***************************************************************************)
EXTENDS CompositeTasks

CONSTANTS
  MinSupport, MinQuery, MinClassCount,
  SupportFraction,       \* <<n, m>> for n / m
  CutoffQuantiles,       \* percent: <<cutoff_quantile_min, cutoff_quantile_max>>
  HorizonPercent,        \* percent: <<horizon_fraction_min, horizon_fraction_max>>
  ShortPercent,          \* percent: <<window_short_fraction_min, ..._max>>
  LongPercent,           \* percent: <<window_long_fraction_min, ..._max>>
  MaxLabelRetries        \* bound: 16 in the code

(* TaskPlannerConfig.__post_init__, of what the model reads.               *)
PlannerConfigAccepted ==
  /\ {MinSupport, MinQuery, MinClassCount, MaxCategories, MaxPathDepth} \subseteq Nat \ {0}
  /\ MaxPredicates \in Nat
  /\ SupportFraction[1] > 0 /\ SupportFraction[1] < SupportFraction[2]
  /\ \A range \in {CutoffQuantiles, HorizonPercent, ShortPercent, LongPercent} :
       0 < range[1] /\ range[1] <= range[2] /\ range[2] < 100
  /\ ShortPercent[2] <= LongPercent[1]
ASSUME PlannerConfig == PlannerConfigAccepted
ASSUME PlannerFractions ==
  {SupportFraction, CutoffQuantiles, HorizonPercent, ShortPercent, LongPercent} \subseteq Nat \X Nat

(* A plan before a mechanism fills in what it uses.  `rules` is the cutoff *)
(* of the observation rules of all timed tables; `passes` are the label    *)
(* draws that the seed of the plan leads to.                               *)
EmptyPlan ==
  [mechanism |-> "", target |-> "", source |-> "", column |-> "__label__", from |-> NoColumn,
   key |-> 0, item |-> 0, cutoff |-> NoTime, horizon |-> NoTime, rowCutoff |-> FALSE,
   rules |-> NoTime, paths |-> {}, operator |-> "", threshold |-> 0, windows |-> << >>,
   classes |-> 0, strategy |-> "", passes |-> << >>, retries |-> 0, spec |-> {},
   semantics |-> 1, calendar |-> << >>]

NoTask == [plan |-> EmptyPlan, support |-> {}, query |-> {}, labels |-> << >>]
IsTask(task) == task.support # {}

Draft(plan, labels) == [plan |-> plan, labels |-> labels]
Plan(mechanism, c, path) ==
  [EmptyPlan EXCEPT !.mechanism = mechanism, !.target = c.target, !.source = c.source, !.paths = {path}]

-----------------------------------------------------------------------------
(* Splits: every outcome of the shuffles; none if rows or classes are too  *)
(* few.                                                                    *)

ClassRows(labels, rows, v) == {r \in rows : labels[r] = v}

EnoughPerClass(labels, rows) ==
  LET classes == {labels[r] : r \in rows}
  IN /\ Cardinality(classes) >= 2
     /\ \A v \in classes : Cardinality(ClassRows(labels, rows, v)) >= 2 * MinClassCount

(* How many of n rows of a class go into the support.                      *)
Taken(n) ==
  MinOf(n - MinClassCount, MaxOf(MinClassCount, Round(n * SupportFraction[1], SupportFraction[2])))
SupportSize(labels, rows) ==
  MapThenSumSet(LAMBDA v : Taken(Cardinality(ClassRows(labels, rows, v))), {labels[r] : r \in rows})

StratifiedSplits(labels, rows) ==
  LET classes == {labels[r] : r \in rows}
      Size(v) == Taken(Cardinality(ClassRows(labels, rows, v)))
      total == SupportSize(labels, rows)
  IN IF \/ ~EnoughPerClass(labels, rows)
        \/ total < MinSupport \/ Cardinality(rows) - total < MinQuery
     THEN {}
     ELSE {[support |-> s, query |-> rows \ s] :
             s \in {s \in kSubset(total, rows) :
                      \A v \in classes : Cardinality(ClassRows(labels, s, v)) = Size(v)}}

(* The slip of a split by class where one by time is due.                  *)
SplitByClass(labels, rows, time) == StratifiedSplits(labels, rows)

(* The earliest rows are the support, equal times in the order of rows.    *)
TemporalSplits(labels, rows, time) ==
  LET n == Cardinality(rows)
      count == MinOf(MaxOf(MinSupport, Round(n * SupportFraction[1], SupportFraction[2])), n - MinQuery)
      Before(r) == {x \in rows : time[x] < time[r] \/ (time[x] = time[r] /\ x < r)}
      support == {r \in rows : Cardinality(Before(r)) < count}
  IN IF /\ EnoughPerClass(labels, rows)
        /\ count >= MinSupport
        /\ \A part \in {support, rows \ support} : \A v \in {labels[r] : r \in rows} :
             Cardinality(ClassRows(labels, part, v)) >= MinClassCount
     THEN {[support |-> support, query |-> rows \ support]}
     ELSE {}


(* The rows of the target table in the view of the plan.                   *)
RowsInView(d, plan) ==
  IF plan.rules = NoTime THEN RowsOf(d, plan.target) ELSE VisibleRows(d, plan.target, plan.rules)

(* A task if its rows are visible: _planned_if_visible.                    *)
TaskIfVisible(d, draft, split) ==
  IF split.support \cup split.query \subseteq RowsInView(d, draft.plan)
  THEN [plan |-> draft.plan, support |-> split.support, query |-> split.query,
        labels |-> [r \in split.support \cup split.query |-> draft.labels[r]]]
  ELSE NoTask

TasksOf(d, draft, splits) ==
  IF splits = {} THEN {NoTask} ELSE {TaskIfVisible(d, draft, s) : s \in splits}

Labelled(labels) == {r \in DOMAIN labels : labels[r] >= 0}
Stratified(d, draft) == TasksOf(d, draft, StratifiedSplits(draft.labels, Labelled(draft.labels)))

(* The cutoffs that a quantile of the times, between two percentages, may  *)
(* give.                                                                   *)
QuantileDraws(d, t, percent) ==
  LET n == d.rows[t]
      Order(k) == CHOOSE v \in Times(d, t) : /\ Cardinality({x \in 1..n : d.time[t][x] < v}) < k
                                             /\ Cardinality({x \in 1..n : d.time[t][x] <= v}) >= k
  IN Order(1 + ((percent[1] * (n - 1)) \div 100)) .. Order(1 + ((percent[2] * (n - 1) + 99) \div 100))

CutoffDraws(d, t) == QuantileDraws(d, t, CutoffQuantiles)

(* A threshold between two scores labels like the lower of them.           *)
ThresholdDraws(scores) == {scores[r] : r \in DOMAIN scores}

HasSpan(d, t) == Cardinality(Times(d, t)) >= 2
Span(d, t) == Max(Times(d, t)) - Min(Times(d, t))

(* Lengths of the part of the span between two percentages.                *)
Lengths(d, t, percent) ==
  MaxOf(1, Round(Span(d, t) * percent[1], 100)) .. MaxOf(1, Round(Span(d, t) * percent[2], 100))

-----------------------------------------------------------------------------
RelationAttributeTasks(d, c) ==
  LET scores == PathSourceScores(d, c.target, c.path, c.source, c.from)
      rows == RowsOf(d, c.target)
      timed == c.target \in Timed
      last == Max(Times(d, c.target))
      base == [Plan("relation_attribute", c, c.path) EXCEPT !.column = c.column, !.from = c.from,
                 !.strategy = IF timed THEN "temporal_rows" ELSE "stratified_rows",
                 !.cutoff = IF timed THEN last ELSE NoTime, !.rules = IF timed THEN last ELSE NoTime]
      drafts == IF c.categorical
                THEN {Draft([base EXCEPT !.classes = c.classes], CategoricalQuantiles(scores, c.classes))}
                ELSE {Draft([base EXCEPT !.threshold = q], Above(scores, q)) : q \in ThresholdDraws(scores)}
      Splits(labels) == IF timed THEN TemporalSplits(labels, rows, d.time[c.target])
                        ELSE StratifiedSplits(labels, rows)
  IN UNION {TasksOf(d, draft, Splits(draft.labels)) : draft \in drafts}

(* A threshold from the whole range of the column.                         *)
RandomColumnTasks(d, c) ==
  UNION { LET draft == Draft([Plan("random_column", [target |-> c.target, source |-> c.target], << >>)
                                EXCEPT !.column = choice[1], !.threshold = choice[2], !.paths = {},
                                       !.strategy = "stratified_rows"],
                             Above(d.value[c.target][choice[1]], choice[2]))
          IN Stratified(d, draft) :
          choice \in UNION {{column} \X Values(d, c.target, column) : column \in c.columns} }

(* The times of later events, clipped to between the shortest and longest  *)
(* horizon.                                                                *)
Horizons(d, t, cutoff) ==
  LET lengths == Lengths(d, t, HorizonPercent)
      Clipped(x) == MinOf(MaxOf(x, cutoff + Min(lengths)), cutoff + Max(lengths))
  IN {Clipped(x) : x \in {x \in Times(d, t) : x > cutoff}}

(* The labels of one cutoff and horizon under each mechanism that has one. *)
HorizonLabels(d, key, mechanism, cutoff, h) ==
  CASE mechanism = "entity_future_event_existence" -> FutureExistence(d, key, cutoff, h)
    [] mechanism = "history_gated_future_activity" -> HistoryGated(d, key, cutoff, h)
    [] OTHER -> HistoryGatedFuture(d, key, cutoff, h, mechanism = "history_gated_future_active")

(* The horizon whose rate of positives comes closest to the one that was   *)
(* drawn; the first of those with equal rates, so no earlier one has the   *)
(* same labels.                                                            *)
EntityHorizonTasks(d, c, mechanism) ==
  LET Labels(cutoff, h) == HorizonLabels(d, c.key, mechanism, cutoff, h)
      Base(cutoff) == [Plan(mechanism, c, <<c.key>>) EXCEPT !.key = c.key, !.cutoff = cutoff,
                         !.rules = cutoff, !.strategy = "stratified_entities"]
      Chosen(cutoff, h) == ~\E e \in Horizons(d, c.source, cutoff) :
                               e < h /\ Labels(cutoff, e) = Labels(cutoff, h)
      At(cutoff) == UNION {Stratified(d, Draft([Base(cutoff) EXCEPT !.horizon = h], Labels(cutoff, h))) :
                             h \in {h \in Horizons(d, c.source, cutoff) : Chosen(cutoff, h)}}
  IN IF ~HasSpan(d, c.source) THEN {NoTask}
     ELSE UNION {IF Horizons(d, c.source, cutoff) = {} THEN {NoTask} ELSE At(cutoff) :
                   cutoff \in CutoffDraws(d, c.source)}

FutureExistenceTasks(d, c) == EntityHorizonTasks(d, c, "entity_future_event_existence")
HistoryGatedTasks(d, c) == EntityHorizonTasks(d, c, "history_gated_future_activity")
HistoryGatedSubmodeTasks(d, c, mechanism) == EntityHorizonTasks(d, c, mechanism)

(* Targets are events; the rules hide nothing but what is after the last.  *)
FutureAttributeTasks(d, c) ==
  LET scores == PathSourceScores(d, c.target, <<c.key>>, c.source, c.from)
      base == [Plan("future_event_attribute_condition", c, <<c.key>>) EXCEPT !.column = c.column,
                 !.from = c.from, !.rowCutoff = TRUE, !.rules = Max(Times(d, c.target)),
                 !.strategy = "stratified_event_rows"]
  IN UNION {Stratified(d, Draft([base EXCEPT !.threshold = q], Above(scores, q))) : q \in ThresholdDraws(scores)}

(* One short or one long window, or both.                                  *)
WindowDraws(d, t) ==
  LET short == Lengths(d, t, ShortPercent)
      long == Lengths(d, t, LongPercent)
  IN {<<w>> : w \in short \cup long} \cup {<<w, x>> : w \in short, x \in long}

(* The plans of a windowed aggregate: with a cutoff for every row, where   *)
(* the target has times, or with one for the task.                         *)
ByRow(c) == Role[c.target] = "event" /\ c.target \in Timed

AggregateBase(c) ==
  [Plan("temporal_relational_aggregate", c, c.path) EXCEPT
     !.operator = c.operator, !.from = c.from, !.rowCutoff = ByRow(c), !.strategy = "stratified_rows"]

RowPlan(d, c) == [AggregateBase(c) EXCEPT !.rules = Max(Times(d, c.target))]

GlobalPlan(d, c, cutoff, windows) ==
  [AggregateBase(c) EXCEPT !.cutoff = cutoff, !.rules = cutoff,
                           !.horizon = MinOf(Max(Times(d, c.source)), cutoff + Max(ToSet(windows)))]

AggregateDrafts(d, c, cutoffs, plan, windows) ==
  LET values == WindowedAggregates(d, c, cutoffs, windows)
  IN {Draft([plan EXCEPT !.windows = windows, !.threshold = q], Above(values, q)) :
        q \in ThresholdDraws(values)}

TemporalAggregateTasks(d, c) ==
  LET Global(cutoff, windows) ==
        AggregateDrafts(d, c, [r \in RowsOf(d, c.target) |-> cutoff],
                        GlobalPlan(d, c, cutoff, windows), windows)
      PerRow(windows) == AggregateDrafts(d, c, d.time[c.target], RowPlan(d, c), windows)
      drafts == IF ByRow(c) THEN UNION {PerRow(w) : w \in WindowDraws(d, c.source)}
                ELSE UNION {Global(cutoff, w) : cutoff \in CutoffDraws(d, c.source), w \in WindowDraws(d, c.source)}
  IN IF ~HasSpan(d, c.source) THEN {NoTask}
     ELSE UNION {Stratified(d, draft) : draft \in drafts}

(* Labels are drawn anew while they have one class; the plan keeps how     *)
(* often.  The passes are what the label stream of the plan's seed gives.  *)
OneClass(labels) == Cardinality({labels[r] : r \in Labelled(labels)}) < 2

PassesAfter(passes, n) ==
  LET last == IF n < MaxLabelRetries THEN {p \in passes : ~OneClass(p)} ELSE passes
  IN {Append(earlier, p) : earlier \in [1..n -> {p \in passes : OneClass(p)}], p \in last}

PassSequences(passes) == UNION {PassesAfter(passes, n) : n \in 0..MaxLabelRetries}

InteractionTasks(d, c) ==
  LET base == [Plan("interaction_response", c, <<c.key>>) EXCEPT !.from = c.from, !.key = c.key,
                 !.item = c.item, !.rowCutoff = TRUE, !.rules = Max(Times(d, c.target)),
                 !.strategy = "stratified_rows"]
  IN IF ~HasSpan(d, c.target) \/ InteractionGated(d, c.key) = {} THEN {NoTask}
     ELSE UNION {Stratified(d, Draft([base EXCEPT !.passes = s, !.retries = Len(s) - 1], s[Len(s)])) :
                   s \in PassSequences(InteractionPasses(d, c.key))}

(* A composite plan and its outcomes: any score of an eligible row may be *)
(* the threshold.                                                          *)
CompositeBase(c, cutoff, spec) ==
  [Plan("relational_classification", [target |-> c.target, source |-> Endpoint(c.target, c.paths[1])], << >>)
     EXCEPT !.paths = ToSet(c.paths), !.cutoff = cutoff, !.rules = cutoff, !.spec = {spec},
            !.strategy = "stratified_rows"]

CompositeDrafts(d, c, cutoff, spec) ==
  LET scores == CompositeScores(d, c.target, spec, cutoff)
      eligible == EligibleRows(d, c.target, spec, cutoff)
  IN {Draft([CompositeBase(c, cutoff, spec) EXCEPT !.threshold = q],
            [r \in DOMAIN scores |-> IF r \in eligible THEN Bit(Passes(scores[r], spec.label, q)) ELSE -1]) :
        q \in {scores[r] : r \in eligible}}

(* The cutoff is a quantile of the pooled times of the sources, strictly   *)
(* within them; it lies between the quantiles of the sources.              *)
CompositeTasksOf(d, c) ==
  LET sources == {Endpoint(c.target, p) : p \in ToSet(c.paths)}
      pooled == UNION {Times(d, s) : s \in sources}
      draws == UNION {QuantileDraws(d, s, <<35, 65>>) : s \in sources}
      cutoffs == {x \in Min(draws)..Max(draws) : x > Min(pooled) /\ x < Max(pooled)}
  IN {NoTask} \cup UNION {UNION {UNION {Stratified(d, draft) : draft \in CompositeDrafts(d, c, cutoff, spec)} :
                                 spec \in SpecDraws(d, c, cutoff)} : cutoff \in cutoffs}
===============================================================================
