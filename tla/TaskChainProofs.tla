--------------------------- MODULE TaskChainProofs ---------------------------
(***************************************************************************)
(* What holds of every task on its way to a sample, for all schemas,       *)
(* databases and configurations.                                           *)
(***************************************************************************)
EXTENDS TaskChain, SequenceFacts, FiniteSetTheorems, WellFoundedInduction

-----------------------------------------------------------------------------
(* Rows and classes. *)

LEMMA RowsFinite ==
  ASSUME NEW d, DatabaseWellFormed(d), NEW t \in Tables
  PROVE  RowsOf(d, t) \subseteq Nat /\ IsFiniteSet(RowsOf(d, t))
<1>1. d.rows[t] \in Nat /\ d.rows[t] \in Int /\ 1 \in Int
  BY DEF DatabaseWellFormed
<1>2. IsFiniteSet(1..d.rows[t])
  BY <1>1, FS_Interval
<1> QED BY <1>1, <1>2 DEF RowsOf

(* round() of a fraction of natural numbers is a natural number.           *)
LEMMA RoundNat ==
  ASSUME NEW n \in Nat, NEW m \in Nat, m > 0
  PROVE  Round(n, m) \in Nat
<1>1. n \div m \in Nat
  OBVIOUS
<1> QED BY <1>1 DEF Round

(* A built task is one outcome of its split.                               *)
LEMMA TaskFromSplit ==
  ASSUME NEW d, NEW draft, NEW splits, NEW task \in TasksOf(d, draft, splits), IsTask(task)
  PROVE  \E s \in splits :
           /\ task = [plan |-> draft.plan, support |-> s.support, query |-> s.query,
                      labels |-> [r \in s.support \cup s.query |-> draft.labels[r]]]
           /\ s.support \cup s.query \subseteq RowsInView(d, draft.plan)
<1>1. task # NoTask
  BY DEF IsTask, NoTask
<1>2. PICK s \in splits : task = TaskIfVisible(d, draft, s)
  BY <1>1 DEF TasksOf
<1> QED BY <1>1, <1>2 DEF TaskIfVisible

(* A stratified split divides its rows.                                    *)
LEMMA StratifiedDivides ==
  ASSUME NEW labels, NEW rows, NEW s \in StratifiedSplits(labels, rows)
  PROVE  s.support \subseteq rows /\ s.query = rows \ s.support
BY DEF StratifiedSplits, kSubset

(* What a split keeps: enough rows in the support, and in either part      *)
(* enough rows of every class that there is.                               *)
SplitKept(labels, support, query) ==
  /\ Cardinality(support) >= MinSupport
  /\ \A part \in {support, query} : \A r \in support \cup query :
       Cardinality(ClassRows(labels, part, labels[r])) >= MinClassCount
  /\ Cardinality({labels[r] : r \in support \cup query}) >= 2

LEMMA KeptByRows ==
  ASSUME NEW labels, NEW support, NEW query, SplitKept(labels, support, query),
         NEW f, \A r \in support \cup query : f[r] = labels[r]
  PROVE  SplitKept(f, support, query)
<1>1. \A part \in {support, query} : \A v : ClassRows(f, part, v) = ClassRows(labels, part, v)
  BY DEF ClassRows
<1>2. {f[r] : r \in support \cup query} = {labels[r] : r \in support \cup query}
  OBVIOUS
<1> QED BY <1>1, <1>2 DEF SplitKept

LEMMA TakenBetween ==
  ASSUME NEW n \in Nat, n >= 2 * MinClassCount
  PROVE  Taken(n) \in Nat /\ MinClassCount <= Taken(n) /\ Taken(n) <= n - MinClassCount
<1>1. /\ SupportFraction[1] \in Nat /\ SupportFraction[2] \in Nat /\ SupportFraction[2] > 0
      /\ MinClassCount \in Nat
  BY PlannerConfig, PlannerFractions DEF PlannerConfigAccepted
<1>2. n * SupportFraction[1] \in Nat
  BY <1>1
<1>3. Round(n * SupportFraction[1], SupportFraction[2]) \in Nat
  BY <1>1, <1>2, RoundNat
<1> QED BY <1>1, <1>3 DEF Taken, MinOf, MaxOf

LEMMA StratifiedKeeps ==
  ASSUME NEW labels, NEW rows, IsFiniteSet(rows), NEW s \in StratifiedSplits(labels, rows)
  PROVE  SplitKept(labels, s.support, s.query)
<1> DEFINE total == SupportSize(labels, rows)
           classes == {labels[r] : r \in rows}
<1>1. /\ EnoughPerClass(labels, rows) /\ ~(total < MinSupport)
      /\ \E part \in kSubset(total, rows) :
           /\ \A v \in classes : Cardinality(ClassRows(labels, part, v)) = Taken(Cardinality(ClassRows(labels, rows, v)))
           /\ s = [support |-> part, query |-> rows \ part]
  <2> HIDE DEF total
  <2> QED BY DEF StratifiedSplits, total
<1>2. PICK part \in kSubset(total, rows) :
        /\ \A v \in classes : Cardinality(ClassRows(labels, part, v)) = Taken(Cardinality(ClassRows(labels, rows, v)))
        /\ s = [support |-> part, query |-> rows \ part]
  BY <1>1
<1> HIDE DEF total
<1>3. part \subseteq rows /\ Cardinality(part) = total
  BY DEF kSubset
<1>4. s.support \cup s.query = rows /\ s.support = part /\ s.query = rows \ part
  BY <1>2, <1>3
<1>5. Cardinality(part) >= MinSupport
  <2>1. Cardinality(part) \in Nat /\ MinSupport \in Nat
    BY <1>3, FS_Subset, FS_CardinalityType, PlannerConfig DEF PlannerConfigAccepted
  <2> QED BY <2>1, <1>1, <1>3
<1>6. ASSUME NEW v \in classes
      PROVE  /\ Cardinality(ClassRows(labels, part, v)) >= MinClassCount
             /\ Cardinality(ClassRows(labels, rows \ part, v)) >= MinClassCount
  <2> DEFINE all == ClassRows(labels, rows, v)
             given == ClassRows(labels, part, v)
  <2>1. all \subseteq rows /\ given = all \cap part /\ ClassRows(labels, rows \ part, v) = all \ given
    BY <1>3 DEF ClassRows
  <2>2. IsFiniteSet(all) /\ IsFiniteSet(given) /\ all \cap given = given
    BY <2>1, FS_Subset
  <2> HIDE DEF all, given
  <2>3. Cardinality(all \ given) = Cardinality(all) - Cardinality(given) /\ Cardinality(all) \in Nat
    BY <2>2, FS_Difference, FS_CardinalityType
  <2>4. Cardinality(all) >= 2 * MinClassCount /\ Cardinality(given) = Taken(Cardinality(all))
    BY <1>1, <1>2 DEF EnoughPerClass, all, given
  <2>5. Taken(Cardinality(all)) \in Nat /\ MinClassCount <= Taken(Cardinality(all))
        /\ Taken(Cardinality(all)) <= Cardinality(all) - MinClassCount
    BY <2>3, <2>4, TakenBetween
  <2>6. MinClassCount \in Nat
    BY PlannerConfig DEF PlannerConfigAccepted
  <2>7. Cardinality(given) >= MinClassCount /\ Cardinality(all \ given) >= MinClassCount
    BY <2>3, <2>4, <2>5, <2>6
  <2> QED BY <2>1, <2>7 DEF given
<1>7. Cardinality({labels[r] : r \in rows}) >= 2
  BY <1>1 DEF EnoughPerClass
<1> QED BY <1>3, <1>4, <1>5, <1>6, <1>7 DEF SplitKept

(* The rows that fewer than `count` rows come before are so many.          *)
Preceding(rows, time, r) == {x \in rows : time[x] < time[r] \/ (time[x] = time[r] /\ x < r)}

LEMMA EarliestMany ==
  ASSUME NEW rows, rows \subseteq Nat, IsFiniteSet(rows), NEW time \in [rows -> Nat],
         NEW count \in Int, count <= Cardinality(rows)
  PROVE  Cardinality({r \in rows : Cardinality(Preceding(rows, time, r)) < count}) >= count
<1> DEFINE Rank(r) == Cardinality(Preceding(rows, time, r))
           first == {r \in rows : Rank(r) < count}
           later == rows \ first
<1>1. \A r \in rows : /\ Preceding(rows, time, r) \subseteq rows
                      /\ IsFiniteSet(Preceding(rows, time, r)) /\ Rank(r) \in Nat
  <2> SUFFICES ASSUME NEW r \in rows PROVE /\ Preceding(rows, time, r) \subseteq rows
                                           /\ IsFiniteSet(Preceding(rows, time, r)) /\ Rank(r) \in Nat
    OBVIOUS
  <2>1. Preceding(rows, time, r) \subseteq rows
    BY DEF Preceding
  <2> QED BY <2>1, FS_Subset, FS_CardinalityType
<1>2. \A r \in rows : \A x \in Preceding(rows, time, r) : Rank(x) < Rank(r)
  <2> SUFFICES ASSUME NEW r \in rows, NEW x \in Preceding(rows, time, r) PROVE Rank(x) < Rank(r)
    OBVIOUS
  <2>1. x \in rows /\ time[x] \in Nat /\ time[r] \in Nat /\ x \in Nat /\ r \in Nat
    BY DEF Preceding
  <2>2. Preceding(rows, time, x) \subseteq Preceding(rows, time, r)
    <3> SUFFICES ASSUME NEW y \in Preceding(rows, time, x) PROVE y \in Preceding(rows, time, r)
      OBVIOUS
    <3>1. y \in rows /\ time[y] \in Nat /\ y \in Nat
      BY DEF Preceding
    <3> QED BY <2>1, <3>1 DEF Preceding
  <2>3. x \notin Preceding(rows, time, x)
    BY <2>1 DEF Preceding
  <2>4. Preceding(rows, time, x) # Preceding(rows, time, r)
    BY <2>3
  <2>5. IsFiniteSet(Preceding(rows, time, r))
    BY <1>1
  <2> QED BY <2>2, <2>4, <2>5, <2>1, <1>1, FS_Subset
<1>3. first \subseteq rows /\ IsFiniteSet(first) /\ Cardinality(first) \in Nat /\ Cardinality(rows) \in Nat
  <2>1. first \subseteq rows
    OBVIOUS
  <2> QED BY <2>1, FS_Subset, FS_CardinalityType
<1> SUFFICES ASSUME Cardinality(first) < count PROVE FALSE
  BY <1>3
<1>4. later # {}
  <2>1. later = {} => first = rows
    OBVIOUS
  <2> HIDE DEF first
  <2> QED BY <2>1, <1>3
<1> DEFINE T == {Rank(r) : r \in later}
<1>5. T \in SUBSET Nat /\ T # {}
  <2> HIDE DEF first, Rank
  <2> QED BY <1>1, <1>4
<1>6. PICK n \in T : \A y \in T : n <= y
  <2> HIDE DEF T
  <2> QED BY <1>5, LeastNatural
<1>7. PICK r \in later : n = Rank(r)
  <2> HIDE DEF Rank, later
  <2> QED BY <1>6
<1>8. \A x \in later : Rank(r) <= Rank(x)
  <2> HIDE DEF Rank, later
  <2> QED BY <1>6, <1>7
<1> HIDE DEF T, Rank
<1>9. r \in rows /\ Preceding(rows, time, r) \subseteq first
  <2>1. \A x \in Preceding(rows, time, r) : x \in rows /\ Rank(x) < Rank(r) /\ Rank(x) \in Nat /\ Rank(r) \in Nat
    BY <1>1, <1>2
  <2> HIDE DEF later
  <2>2. \A x \in Preceding(rows, time, r) : x \notin later
    BY <2>1, <1>8
  <2>3. r \in rows
    BY DEF later
  <2> QED BY <2>1, <2>2, <2>3 DEF later
<1>10. Rank(r) <= Cardinality(first)
  <2> HIDE DEF first
  <2> QED BY <1>3, <1>9, FS_Subset DEF Rank
<1>11. Rank(r) < count
  <2> HIDE DEF first
  <2> QED BY <1>10, <1>3, <1>1, <1>9
<1> QED BY <1>9, <1>11

LEMMA TemporalKeeps ==
  ASSUME NEW labels, NEW rows, rows \subseteq Nat, IsFiniteSet(rows), NEW time \in [rows -> Nat],
         NEW s \in TemporalSplits(labels, rows, time)
  PROVE  SplitKept(labels, s.support, s.query)
<1> DEFINE n == Cardinality(rows)
           count == MinOf(MaxOf(MinSupport, Round(n * SupportFraction[1], SupportFraction[2])), n - MinQuery)
           support == {r \in rows : Cardinality(Preceding(rows, time, r)) < count}
           Enough == /\ EnoughPerClass(labels, rows) /\ count >= MinSupport
                     /\ \A part \in {support, rows \ support} : \A v \in {labels[r] : r \in rows} :
                          Cardinality(ClassRows(labels, part, v)) >= MinClassCount
<1>1. /\ EnoughPerClass(labels, rows) /\ count >= MinSupport
      /\ s.support = support /\ s.query = rows \ support
      /\ \A part \in {support, rows \ support} : \A v \in {labels[r] : r \in rows} :
           Cardinality(ClassRows(labels, part, v)) >= MinClassCount
  <2>1. TemporalSplits(labels, rows, time) =
          IF Enough THEN {[support |-> support, query |-> rows \ support]} ELSE {}
    BY DEF TemporalSplits, Preceding
  <2> HIDE DEF support, Enough
  <2>2. Enough /\ s = [support |-> support, query |-> rows \ support]
    BY <2>1
  <2>3. s.support = support /\ s.query = rows \ support
    BY <2>2
  <2> QED BY <2>2, <2>3 DEF Enough
<1>2. n \in Nat /\ MinQuery \in Nat /\ MinSupport \in Nat
  BY FS_CardinalityType, PlannerConfig DEF PlannerConfigAccepted
<1>3. count \in Int /\ count <= n
  <2>1. /\ SupportFraction[1] \in Nat /\ SupportFraction[2] \in Nat /\ SupportFraction[2] > 0
    BY PlannerConfig, PlannerFractions DEF PlannerConfigAccepted
  <2>2. n * SupportFraction[1] \in Nat
    BY <1>2, <2>1
  <2>3. Round(n * SupportFraction[1], SupportFraction[2]) \in Nat
    BY <2>1, <2>2, RoundNat
  <2> QED BY <1>2, <2>3 DEF MinOf, MaxOf
<1> HIDE DEF count
<1>4. Cardinality(support) >= count
  BY <1>3, EarliestMany
<1>5. support \subseteq rows
  OBVIOUS
<1> HIDE DEF support
<1>6. Cardinality(support) >= MinSupport
  <2>1. Cardinality(support) \in Nat
    BY <1>5, FS_Subset, FS_CardinalityType
  <2> QED BY <2>1, <1>1, <1>2, <1>3, <1>4
<1>7. s.support \cup s.query = rows
  BY <1>1, <1>5
<1> QED BY <1>1, <1>6, <1>7 DEF SplitKept, EnoughPerClass

(* The earliest rows are the support: no query row is before one of them.  *)
LEMMA TemporalDivides ==
  ASSUME NEW labels, NEW rows, rows \subseteq Nat, IsFiniteSet(rows), NEW time \in [rows -> Nat],
         NEW s \in TemporalSplits(labels, rows, time)
  PROVE  /\ s.support \subseteq rows /\ s.query = rows \ s.support
         /\ \A x \in s.support, q \in s.query : time[x] <= time[q]
<1> DEFINE n == Cardinality(rows)
           count == MinOf(MaxOf(MinSupport, Round(n * SupportFraction[1], SupportFraction[2])), n - MinQuery)
           Before(r) == {x \in rows : time[x] < time[r] \/ (time[x] = time[r] /\ x < r)}
           support == {r \in rows : Cardinality(Before(r)) < count}
<1>1. s.support = support /\ s.query = rows \ support
  BY DEF TemporalSplits
<1>2. count \in Int
  <2>1. n \in Nat
    BY FS_CardinalityType
  <2>2. /\ SupportFraction[1] \in Nat /\ SupportFraction[2] \in Nat /\ SupportFraction[2] > 0
        /\ MinSupport \in Nat /\ MinQuery \in Nat
    BY PlannerConfig, PlannerFractions DEF PlannerConfigAccepted
  <2>3. n * SupportFraction[1] \in Nat
    BY <2>1, <2>2
  <2>4. Round(n * SupportFraction[1], SupportFraction[2]) \in Nat
    BY <2>2, <2>3, RoundNat
  <2> QED BY <2>1, <2>2, <2>4 DEF MinOf, MaxOf
<1>3. \A r \in rows : IsFiniteSet(Before(r)) /\ Cardinality(Before(r)) \in Nat
  <2> TAKE r \in rows
  <2>1. Before(r) \subseteq rows
    OBVIOUS
  <2> QED BY <2>1, FS_Subset, FS_CardinalityType
<1>4. ASSUME NEW x \in support, NEW q \in rows \ support, ~(time[x] <= time[q])
      PROVE  FALSE
  <2>0. x \in rows /\ q \in rows
    OBVIOUS
  <2>1. Before(q) \subseteq Before(x)
    <3>1. time[q] < time[x] /\ time[q] \in Nat /\ time[x] \in Nat
      BY <1>4, <2>0
    <3>2. \A y \in rows : time[y] \in Nat /\ (time[y] <= time[q] => time[y] < time[x])
      BY <3>1
    <3>3. \A y \in Before(q) : y \in rows /\ time[y] <= time[q]
      BY <3>1
    <3> QED BY <3>2, <3>3
  <2>2. Cardinality(Before(q)) <= Cardinality(Before(x))
    BY <2>0, <2>1, <1>3, FS_Subset
  <2>3. Cardinality(Before(x)) < count /\ ~(Cardinality(Before(q)) < count)
    OBVIOUS
  <2> QED BY <2>2, <2>3, <1>2, <1>3
<1> QED BY <1>1, <1>4

-----------------------------------------------------------------------------
(* What a builder settles about a task once and for all. *)

Rows(task) == task.support \cup task.query

(* The plan of a task about the future of an entity.                       *)
EntityPlan(plan) ==
  /\ plan.key \in DOMAIN Keys /\ plan.source = Keys[plan.key].child /\ plan.target = Keys[plan.key].parent
  /\ plan.source \in TimedEvents
  /\ plan.cutoff \in Int /\ plan.rules = plan.cutoff /\ ~plan.rowCutoff

(* The plan of a windowed aggregate: a timed target has a cutoff per row.  *)
AggregatePlan(plan) ==
  /\ plan.source \in Timed /\ plan.source # plan.target
  /\ plan.rowCutoff <=> plan.target \in Timed
  /\ plan.target \notin Timed => plan.cutoff \in Nat /\ plan.rules = plan.cutoff

HistoryGatedSubmodes == {"history_gated_future_active", "history_gated_future_inactive"}

PlanSound(plan) ==
  /\ DOMAIN plan = DOMAIN EmptyPlan
  /\ plan.target \in Tables
  /\ plan.mechanism \in HistoryGatedSubmodes \cup {"entity_future_event_existence"} => EntityPlan(plan)
  /\ plan.mechanism = "temporal_relational_aggregate" => AggregatePlan(plan)
  /\ plan.strategy = "temporal_rows" => plan.target \in Timed

(* A label is one of two or of up to MaxCategories classes, -1 that of no  *)
(* class.                                                                  *)
TopLabel == MaxOf(2, MaxCategories) - 1

TaskSound(d, task) ==
  /\ DOMAIN task = {"plan", "support", "query", "labels"}
  /\ PlanSound(task.plan)
  /\ Rows(task) \subseteq RowsOf(d, task.plan.target)
  /\ \A r \in Rows(task) : task.labels[r] \in 0..TopLabel
  /\ SplitKept(task.labels, task.support, task.query)
  /\ task.plan.mechanism \in HistoryGatedSubmodes =>
       Rows(task) \subseteq WithHistory(d, task.plan.key, task.plan.cutoff)
  /\ task.plan.strategy = "temporal_rows" =>
       \A s \in task.support, q \in task.query :
         d.time[task.plan.target][s] <= d.time[task.plan.target][q]

(* Binding a task to the calendar changes nothing of that.                 *)
LEMMA BoundSound ==
  ASSUME NEW d, NEW built, NEW calendar, TaskSound(d, built), IsTask(BindCalendar(built, calendar))
  PROVE  TaskSound(d, BindCalendar(built, calendar))
<1> DEFINE task == BindCalendar(built, calendar)
<1>0. CASE task = built
  BY <1>0
<1>1. CASE task # built
  <2>1. task = [built EXCEPT !.plan.calendar = calendar]
    BY <1>1 DEF BindCalendar, IsTask, NoTask
  <2>2. /\ DOMAIN task = DOMAIN built
        /\ task.support = built.support /\ task.query = built.query /\ task.labels = built.labels
        /\ task.plan = [built.plan EXCEPT !.calendar = calendar]
    BY <2>1 DEF TaskSound
  <2>3. /\ DOMAIN task.plan = DOMAIN built.plan
        /\ \A f \in DOMAIN EmptyPlan \ {"calendar"} : task.plan[f] = built.plan[f]
    BY <2>2 DEF TaskSound, PlanSound
  <2>4. /\ task.plan.mechanism = built.plan.mechanism /\ task.plan.target = built.plan.target
        /\ task.plan.source = built.plan.source /\ task.plan.key = built.plan.key
        /\ task.plan.cutoff = built.plan.cutoff /\ task.plan.rules = built.plan.rules
        /\ task.plan.rowCutoff = built.plan.rowCutoff /\ task.plan.strategy = built.plan.strategy
    BY <2>3 DEF EmptyPlan
  <2> HIDE DEF task
  <2>5. PlanSound(task.plan)
    <3>1. PlanSound(built.plan)
      BY DEF TaskSound
    <3> QED BY <3>1, <2>3, <2>4 DEF PlanSound, EntityPlan, AggregatePlan
  <2>6. Rows(task) = Rows(built)
    BY <2>2 DEF Rows
  <2>7. TaskSound(d, task)
    BY <2>2, <2>4, <2>5, <2>6 DEF TaskSound
  <2> QED BY <2>7 DEF task
<1> QED BY <1>0, <1>1

-----------------------------------------------------------------------------
(* The labels of the mechanisms. *)

LEMMA BitValues ==
  ASSUME NEW condition PROVE Bit(condition) \in {0, 1}
BY DEF Bit

LEMMA TopLabelFacts == TopLabel \in Nat /\ TopLabel >= 1 /\ TopLabel >= MaxCategories - 1
<1>1. MaxCategories \in Nat \ {0}
  BY PlannerConfig DEF PlannerConfigAccepted
<1> QED BY <1>1 DEF TopLabel, MaxOf

LEMMA BitLabels ==
  ASSUME NEW condition PROVE Bit(condition) \in 0..TopLabel
BY TopLabelFacts DEF Bit

LEMMA AboveLabels ==
  ASSUME NEW scores, NEW q
  PROVE  \A r \in DOMAIN Above(scores, q) : Above(scores, q)[r] \in 0..TopLabel
BY BitLabels DEF Above

(* Labels by rank are natural numbers.                                     *)
LEMMA QuantilesNat ==
  ASSUME NEW scores, IsFiniteSet(DOMAIN scores), NEW classes \in Nat \ {0}
  PROVE  \A r \in DOMAIN scores : CategoricalQuantiles(scores, classes)[r] \in 0..(classes - 1)
<1> DEFINE Rank(r) == Cardinality({x \in DOMAIN scores : \/ scores[x] < scores[r]
                                                         \/ scores[x] = scores[r] /\ x < r})
           n == MaxOf(1, Cardinality(DOMAIN scores))
<1>1. n \in Nat /\ n > 0
  BY FS_CardinalityType DEF MaxOf
<1> SUFFICES ASSUME NEW r \in DOMAIN scores PROVE CategoricalQuantiles(scores, classes)[r] \in 0..(classes - 1)
  OBVIOUS
<1>2. Rank(r) \in Nat
  <2>1. {x \in DOMAIN scores : scores[x] < scores[r] \/ (scores[x] = scores[r] /\ x < r)} \subseteq DOMAIN scores
    OBVIOUS
  <2> QED BY <2>1, FS_Subset, FS_CardinalityType
<1>3. CategoricalQuantiles(scores, classes)[r] = MinOf(classes - 1, (Rank(r) * classes) \div n)
  BY DEF CategoricalQuantiles
<1> HIDE DEF Rank, n
<1>4. Rank(r) * classes \in Nat
  BY <1>2
<1>5. (Rank(r) * classes) \div n \in Nat
  BY <1>1, <1>4
<1> QED BY <1>3, <1>5 DEF MinOf

(* Only an entity with an event at or before the cutoff has a label under  *)
(* a submode of the history-gated mechanism.                               *)
LEMMA GatedLabels ==
  ASSUME NEW d, NEW i \in DOMAIN Keys, NEW cutoff, NEW horizon, NEW positive,
         NEW r \in Labelled(HistoryGatedFuture(d, i, cutoff, horizon, positive))
  PROVE  r \in WithHistory(d, i, cutoff)
<1>1. r \in RowsOf(d, Keys[i].parent) /\ HistoryGatedFuture(d, i, cutoff, horizon, positive)[r] >= 0
  BY DEF Labelled, HistoryGatedFuture
<1>2. r \notin WithHistory(d, i, cutoff) => HistoryGatedFuture(d, i, cutoff, horizon, positive)[r] = -1
  BY <1>1 DEF HistoryGatedFuture
<1> QED BY <1>1, <1>2

LEMMA GatedRange ==
  ASSUME NEW d, NEW i \in DOMAIN Keys, NEW cutoff, NEW horizon, NEW positive
  PROVE  \A r \in RowsOf(d, Keys[i].parent) :
           HistoryGatedFuture(d, i, cutoff, horizon, positive)[r] \in {-1} \cup 0..TopLabel
<1> SUFFICES ASSUME NEW r \in RowsOf(d, Keys[i].parent)
             PROVE  HistoryGatedFuture(d, i, cutoff, horizon, positive)[r] \in {-1} \cup 0..TopLabel
  OBVIOUS
<1> DEFINE condition == positive = (r \in Active(d, i, cutoff, horizon))
<1>1. HistoryGatedFuture(d, i, cutoff, horizon, positive)[r] \in {-1, Bit(condition)}
  BY DEF HistoryGatedFuture
<1> HIDE DEF condition
<1> QED BY <1>1, BitLabels

(* A task by class of the labelled rows.                                   *)
LEMMA StratifiedTask ==
  ASSUME NEW d, NEW draft, NEW task \in Stratified(d, draft), IsTask(task)
  PROVE  /\ DOMAIN task = {"plan", "support", "query", "labels"}
         /\ task.plan = draft.plan
         /\ Rows(task) = Labelled(draft.labels)
         /\ task.support \cap task.query = {}
         /\ \A r \in Rows(task) : task.labels[r] = draft.labels[r] /\ task.labels[r] >= 0
         /\ Rows(task) \subseteq RowsInView(d, draft.plan)
         /\ [support |-> task.support, query |-> task.query]
               \in StratifiedSplits(draft.labels, Labelled(draft.labels))
<1> DEFINE rows == Labelled(draft.labels)
<1>1. PICK s \in StratifiedSplits(draft.labels, rows) :
        /\ task = [plan |-> draft.plan, support |-> s.support, query |-> s.query,
                   labels |-> [r \in s.support \cup s.query |-> draft.labels[r]]]
        /\ s.support \cup s.query \subseteq RowsInView(d, draft.plan)
  BY TaskFromSplit DEF Stratified
<1>2. s.support \subseteq rows /\ s.query = rows \ s.support
  BY StratifiedDivides
<1>3. Rows(task) = rows
  BY <1>1, <1>2 DEF Rows
<1>4. \A r \in rows : draft.labels[r] >= 0
  BY DEF Labelled
<1>5. s = [support |-> s.support, query |-> s.query]
  BY <1>1 DEF StratifiedSplits
<1> HIDE DEF rows
<1>6. \A r \in Rows(task) : task.labels[r] = draft.labels[r]
  BY <1>1, <1>3 DEF Rows
<1> QED BY <1>1, <1>2, <1>3, <1>4, <1>5, <1>6 DEF rows

-----------------------------------------------------------------------------
(* Every task a builder gives is sound. *)

(* A task by class is sound if its plan is and its rows are of the target. *)
LEMMA StratifiedSound ==
  ASSUME NEW d, DatabaseWellFormed(d), NEW draft, PlanSound(draft.plan),
         DOMAIN draft.labels \subseteq RowsOf(d, draft.plan.target),
         \A r \in DOMAIN draft.labels : draft.labels[r] \in {-1} \cup 0..TopLabel,
         draft.plan.strategy # "temporal_rows",
         draft.plan.mechanism \in HistoryGatedSubmodes =>
           Labelled(draft.labels) \subseteq WithHistory(d, draft.plan.key, draft.plan.cutoff),
         NEW task \in Stratified(d, draft), IsTask(task)
  PROVE  TaskSound(d, task)
<1>1. /\ DOMAIN task = {"plan", "support", "query", "labels"} /\ task.plan = draft.plan
      /\ Rows(task) = Labelled(draft.labels)
      /\ \A r \in Rows(task) : task.labels[r] = draft.labels[r] /\ task.labels[r] >= 0
      /\ [support |-> task.support, query |-> task.query]
            \in StratifiedSplits(draft.labels, Labelled(draft.labels))
  <2>1. /\ DOMAIN task = {"plan", "support", "query", "labels"}
        /\ task.plan = draft.plan
        /\ Rows(task) = Labelled(draft.labels)
        /\ task.support \cap task.query = {}
        /\ \A r \in Rows(task) : task.labels[r] = draft.labels[r] /\ task.labels[r] >= 0
        /\ Rows(task) \subseteq RowsInView(d, draft.plan)
        /\ [support |-> task.support, query |-> task.query]
              \in StratifiedSplits(draft.labels, Labelled(draft.labels))
    BY StratifiedTask
  <2> QED BY <2>1
<1>2. Labelled(draft.labels) \subseteq RowsOf(d, draft.plan.target) /\ Labelled(draft.labels) \subseteq DOMAIN draft.labels
  BY DEF Labelled
<1>3. \A r \in Rows(task) : task.labels[r] \in 0..TopLabel
  BY <1>1, <1>2
<1>4. IsFiniteSet(Labelled(draft.labels))
  BY <1>2, RowsFinite, FS_Subset DEF PlanSound
<1>5. SplitKept(draft.labels, task.support, task.query)
  <2>1. \A s \in StratifiedSplits(draft.labels, Labelled(draft.labels)) : SplitKept(draft.labels, s.support, s.query)
    BY <1>4, StratifiedKeeps
  <2> QED BY <2>1, <1>1
<1>6. SplitKept(task.labels, task.support, task.query)
  BY <1>1, <1>5, KeptByRows DEF Rows
<1> QED BY <1>1, <1>2, <1>3, <1>6 DEF TaskSound

LEMMA RandomColumnSound ==
  ASSUME NEW d, DatabaseWellFormed(d), NEW c \in RandomColumnCandidates(d),
         NEW task \in RandomColumnTasks(d, c), IsTask(task)
  PROVE  TaskSound(d, task)
<1>1. c.target \in Tables /\ c.columns \subseteq Features[c.target]
  <2>1. PICK t \in Tables : c = [target |-> t, columns |-> Usable(d, t)]
    BY DEF RandomColumnCandidates
  <2> QED BY <2>1 DEF Usable
<1> DEFINE Drafted(column, threshold) ==
             Draft([Plan("random_column", [target |-> c.target, source |-> c.target], << >>)
                      EXCEPT !.column = column, !.threshold = threshold, !.paths = {},
                             !.strategy = "stratified_rows"],
                   Above(d.value[c.target][column], threshold))
<1>2. PICK column \in c.columns : \E threshold \in Values(d, c.target, column) :
        task \in Stratified(d, Drafted(column, threshold))
  <2>1. RandomColumnTasks(d, c) =
          UNION {Stratified(d, Drafted(choice[1], choice[2])) :
                   choice \in UNION {{column} \X Values(d, c.target, column) : column \in c.columns}}
    BY DEF RandomColumnTasks
  <2> HIDE DEF Drafted
  <2> QED BY <2>1
<1>a. PICK threshold \in Values(d, c.target, column) : task \in Stratified(d, Drafted(column, threshold))
  BY <1>2
<1> DEFINE plan == [Plan("random_column", [target |-> c.target, source |-> c.target], << >>)
                      EXCEPT !.column = column, !.threshold = threshold, !.paths = {},
                             !.strategy = "stratified_rows"]
           labels == Above(d.value[c.target][column], threshold)
<1>3. /\ DOMAIN plan = DOMAIN EmptyPlan /\ plan.target = c.target
      /\ plan.mechanism = "random_column" /\ plan.strategy = "stratified_rows"
  BY DEF Plan, EmptyPlan
<1>4. DOMAIN labels = RowsOf(d, c.target)
  <2>1. d.value[c.target][column] \in [RowsOf(d, c.target) -> Int]
    BY <1>1 DEF DatabaseWellFormed
  <2> QED BY <2>1 DEF Above
<1> HIDE DEF plan, labels
<1>5. Draft(plan, labels).plan = plan /\ Draft(plan, labels).labels = labels
  BY DEF Draft
<1>6. task \in Stratified(d, Draft(plan, labels))
  BY <1>a DEF plan, labels
<1>7. PlanSound(plan)
  BY <1>1, <1>3 DEF PlanSound, HistoryGatedSubmodes
<1>8. \A r \in DOMAIN labels : labels[r] \in {-1} \cup 0..TopLabel
  BY AboveLabels DEF labels
<1> QED BY <1>3, <1>4, <1>5, <1>6, <1>7, <1>8, StratifiedSound DEF HistoryGatedSubmodes

(* A task under a horizon after a cutoff, of any of the mechanisms that    *)
(* have one.                                                               *)
LEMMA HorizonLabelRows ==
  ASSUME NEW d, NEW i \in DOMAIN Keys, NEW mechanism, NEW cutoff, NEW h
  PROVE  /\ DOMAIN HorizonLabels(d, i, mechanism, cutoff, h) = RowsOf(d, Keys[i].parent)
         /\ mechanism \in HistoryGatedSubmodes =>
              Labelled(HorizonLabels(d, i, mechanism, cutoff, h)) \subseteq WithHistory(d, i, cutoff)
         /\ \A r \in RowsOf(d, Keys[i].parent) :
              HorizonLabels(d, i, mechanism, cutoff, h)[r] \in {-1} \cup 0..TopLabel
<1>1. CASE mechanism = "entity_future_event_existence"
  BY <1>1, BitLabels DEF HorizonLabels, FutureExistence, HistoryGatedSubmodes
<1>2. CASE mechanism = "history_gated_future_activity"
  BY <1>2, BitLabels DEF HorizonLabels, HistoryGated, HistoryGatedSubmodes
<1>3. CASE mechanism \notin {"entity_future_event_existence", "history_gated_future_activity"}
  <2> DEFINE positive == mechanism = "history_gated_future_active"
  <2>1. HorizonLabels(d, i, mechanism, cutoff, h) = HistoryGatedFuture(d, i, cutoff, h, positive)
    BY <1>3 DEF HorizonLabels
  <2> HIDE DEF positive
  <2>2. DOMAIN HistoryGatedFuture(d, i, cutoff, h, positive) = RowsOf(d, Keys[i].parent)
    BY DEF HistoryGatedFuture
  <2>3. Labelled(HistoryGatedFuture(d, i, cutoff, h, positive)) \subseteq WithHistory(d, i, cutoff)
    BY GatedLabels
  <2>4. \A r \in RowsOf(d, Keys[i].parent) : HistoryGatedFuture(d, i, cutoff, h, positive)[r] \in {-1} \cup 0..TopLabel
    BY GatedRange
  <2> QED BY <2>1, <2>2, <2>3, <2>4
<1> QED BY <1>1, <1>2, <1>3

LEMMA KeyTables ==
  ASSUME NEW i \in DOMAIN Keys
  PROVE  Keys[i].child \in Tables /\ Keys[i].parent \in Tables /\ Keys[i].child # Keys[i].parent
<1>1. Keys \in Seq([child : Tables, parent : Tables])
  BY SchemaWellFormed
<1>2. Keys[i] \in [child : Tables, parent : Tables]
  BY <1>1, LenProperties
<1> QED BY <1>2, SchemaWellFormed

EntityMechanisms == HistoryGatedSubmodes \cup {"entity_future_event_existence", "history_gated_future_activity"}

LEMMA EntityHorizonSound ==
  ASSUME NEW d, DatabaseWellFormed(d), NEW c \in FutureEventCandidates(d), NEW mechanism \in EntityMechanisms,
         NEW task \in EntityHorizonTasks(d, c, mechanism), IsTask(task)
  PROVE  TaskSound(d, task)
<1>1. /\ c.key \in DOMAIN Keys /\ c.target = Keys[c.key].parent /\ c.source = Keys[c.key].child
      /\ c.source \in TimedEvents
  BY DEF FutureEventCandidates
<1> DEFINE Labels(cutoff, h) == HorizonLabels(d, c.key, mechanism, cutoff, h)
           Base(cutoff) == [Plan(mechanism, c, <<c.key>>) EXCEPT !.key = c.key, !.cutoff = cutoff,
                              !.rules = cutoff, !.strategy = "stratified_entities"]
           Chosen(cutoff, h) == ~\E e \in Horizons(d, c.source, cutoff) :
                                    e < h /\ Labels(cutoff, e) = Labels(cutoff, h)
           Drafted(cutoff, h) == Draft([Base(cutoff) EXCEPT !.horizon = h], Labels(cutoff, h))
           At(cutoff) == UNION {Stratified(d, Drafted(cutoff, h)) :
                                  h \in {h \in Horizons(d, c.source, cutoff) : Chosen(cutoff, h)}}
<1>2. PICK cutoff \in CutoffDraws(d, c.source) : task \in At(cutoff)
  <2>1. task # NoTask
    BY DEF IsTask, NoTask
  <2>2. EntityHorizonTasks(d, c, mechanism) =
          IF ~HasSpan(d, c.source) THEN {NoTask}
          ELSE UNION {IF Horizons(d, c.source, cutoff) = {} THEN {NoTask} ELSE At(cutoff) :
                        cutoff \in CutoffDraws(d, c.source)}
    BY DEF EntityHorizonTasks
  <2> HIDE DEF At
  <2> QED BY <2>1, <2>2
<1>3. PICK h \in Horizons(d, c.source, cutoff) : task \in Stratified(d, Drafted(cutoff, h))
  <2> HIDE DEF Drafted, Chosen
  <2> QED BY <1>2
<1>4. cutoff \in Int
  BY DEF CutoffDraws, QuantileDraws
<1> DEFINE plan == [Base(cutoff) EXCEPT !.horizon = h]
<1>5. /\ DOMAIN plan = DOMAIN EmptyPlan /\ plan.mechanism = mechanism
      /\ plan.target = c.target /\ plan.source = c.source /\ plan.key = c.key
      /\ plan.cutoff = cutoff /\ plan.rules = cutoff /\ plan.rowCutoff = FALSE
      /\ plan.strategy = "stratified_entities"
  BY DEF Plan, EmptyPlan
<1>6. Drafted(cutoff, h).plan = plan /\ Drafted(cutoff, h).labels = Labels(cutoff, h)
  BY DEF Draft
<1> HIDE DEF plan, Drafted
<1>7. PlanSound(plan)
  <2>1. EntityPlan(plan)
    BY <1>1, <1>4, <1>5 DEF EntityPlan
  <2> QED BY <1>1, <1>5, <2>1, KeyTables DEF PlanSound, EntityMechanisms, HistoryGatedSubmodes
<1>8. /\ DOMAIN Labels(cutoff, h) = RowsOf(d, c.target)
      /\ mechanism \in HistoryGatedSubmodes => Labelled(Labels(cutoff, h)) \subseteq WithHistory(d, c.key, cutoff)
      /\ \A r \in RowsOf(d, c.target) : Labels(cutoff, h)[r] \in {-1} \cup 0..TopLabel
  BY <1>1, HorizonLabelRows
<1> HIDE DEF Labels
<1> QED BY <1>3, <1>5, <1>6, <1>7, <1>8, StratifiedSound

(* A categorical or thresholded copy of a parent's value, split by time    *)
(* where the target is timed.                                              *)
LEMMA RelationAttributeSound ==
  ASSUME NEW d, DatabaseWellFormed(d), NEW c \in RelationAttributeCandidates(d),
         NEW task \in RelationAttributeTasks(d, c), IsTask(task)
  PROVE  TaskSound(d, task)
<1>1. c.target \in Tables /\ (c.categorical => c.classes \in Nat \ {0} /\ c.classes <= MaxCategories)
  <2>1. PICK i \in DOMAIN Keys :
          /\ c.target = Keys[i].child
          /\ \E column \in Features[Keys[i].child] :
               /\ c.categorical = (Cardinality(Values(d, Keys[i].child, column)) \in 3..MaxCategories)
               /\ c.classes = MinOf(MaxOf(2, Cardinality(Values(d, Keys[i].child, column))), MaxCategories)
    BY DEF RelationAttributeCandidates
  <2>2. PICK n :
          /\ c.categorical = (n \in 3..MaxCategories)
          /\ c.classes = MinOf(MaxOf(2, n), MaxCategories)
    BY <2>1
  <2>3. MaxCategories \in Nat \ {0}
    BY PlannerConfig DEF PlannerConfigAccepted
  <2>4. n \in 3..MaxCategories => /\ MinOf(MaxOf(2, n), MaxCategories) \in Nat \ {0}
                                   /\ MinOf(MaxOf(2, n), MaxCategories) <= MaxCategories
    BY <2>3 DEF MinOf, MaxOf
  <2> QED BY <2>1, <2>2, <2>4, KeyTables
<1> DEFINE scores == PathSourceScores(d, c.target, c.path, c.source, c.from)
           rows == RowsOf(d, c.target)
           timed == c.target \in Timed
           last == Max(Times(d, c.target))
           base == [Plan("relation_attribute", c, c.path) EXCEPT !.column = c.column, !.from = c.from,
                      !.strategy = IF timed THEN "temporal_rows" ELSE "stratified_rows",
                      !.cutoff = IF timed THEN last ELSE NoTime, !.rules = IF timed THEN last ELSE NoTime]
           drafts == IF c.categorical
                     THEN {Draft([base EXCEPT !.classes = c.classes], CategoricalQuantiles(scores, c.classes))}
                     ELSE {Draft([base EXCEPT !.threshold = q], Above(scores, q)) : q \in ThresholdDraws(scores)}
           Splits(labels) == IF timed THEN TemporalSplits(labels, rows, d.time[c.target])
                             ELSE StratifiedSplits(labels, rows)
<1>2. PICK draft \in drafts : task \in TasksOf(d, draft, Splits(draft.labels))
  BY DEF RelationAttributeTasks
<1>3. DOMAIN scores = rows /\ IsFiniteSet(rows) /\ rows \subseteq Nat
  BY <1>1, RowsFinite DEF PathSourceScores
<1>4. /\ DOMAIN draft.plan = DOMAIN EmptyPlan /\ draft.plan.mechanism = "relation_attribute"
      /\ draft.plan.target = c.target /\ (draft.plan.strategy = "temporal_rows" => timed)
  <2>1. /\ DOMAIN base = DOMAIN EmptyPlan /\ base.mechanism = "relation_attribute"
        /\ base.target = c.target /\ base.strategy = IF timed THEN "temporal_rows" ELSE "stratified_rows"
    BY DEF Plan, EmptyPlan
  <2>2. (\E q : draft.plan = [base EXCEPT !.threshold = q]) \/ draft.plan = [base EXCEPT !.classes = c.classes]
    <3> HIDE DEF base, scores
    <3> QED BY DEF Draft
  <2> HIDE DEF base, timed
  <2> QED BY <2>1, <2>2 DEF EmptyPlan
<1>5. \A r \in rows : draft.labels[r] \in 0..TopLabel
  <2> HIDE DEF base, scores, rows
  <2>1. CASE c.categorical
    <3>1. draft.labels = CategoricalQuantiles(scores, c.classes)
      BY <2>1 DEF Draft
    <3>2. \A r \in rows : CategoricalQuantiles(scores, c.classes)[r] \in 0..(c.classes - 1)
      BY <1>1, <1>3, <2>1, QuantilesNat
    <3>3. MaxCategories \in Nat \ {0}
      BY PlannerConfig DEF PlannerConfigAccepted
    <3>4. \A x \in 0..(c.classes - 1) : x \in 0..TopLabel
      BY <1>1, <2>1, <3>3, TopLabelFacts
    <3> QED BY <3>1, <3>2, <3>4
  <2>2. CASE ~c.categorical
    <3>1. PICK q : draft.labels = Above(scores, q)
      BY <2>2 DEF Draft
    <3>2. \A r \in rows : Above(scores, q)[r] \in 0..TopLabel
      BY <1>3, BitLabels DEF Above
    <3> QED BY <3>1, <3>2
  <2> QED BY <2>1, <2>2
<1> HIDE DEF drafts, base, scores
<1>6. PICK s \in Splits(draft.labels) :
        /\ task = [plan |-> draft.plan, support |-> s.support, query |-> s.query,
                   labels |-> [r \in s.support \cup s.query |-> draft.labels[r]]]
        /\ s.support \cup s.query \subseteq RowsInView(d, draft.plan)
  <2> HIDE DEF Splits
  <2> QED BY <1>2, TaskFromSplit
<1>7. /\ s.support \subseteq rows /\ s.query = rows \ s.support
      /\ timed => \A x \in s.support, q \in s.query : d.time[c.target][x] <= d.time[c.target][q]
      /\ SplitKept(draft.labels, s.support, s.query)
  <2> DEFINE labels == draft.labels
             time == d.time[c.target]
  <2>1. CASE timed
    <3>1. time \in [rows -> Nat]
      BY <2>1 DEF DatabaseWellFormed
    <3>2. s \in TemporalSplits(labels, rows, time)
      BY <2>1
    <3>5. rows \subseteq Nat /\ IsFiniteSet(rows)
      BY <1>3
    <3> HIDE DEF rows, labels, time, timed, Splits
    <3>3. /\ s.support \subseteq rows /\ s.query = rows \ s.support
          /\ \A x \in s.support, q \in s.query : time[x] <= time[q]
      BY <3>5, <3>1, <3>2, TemporalDivides
    <3>4. SplitKept(labels, s.support, s.query)
      BY <1>3, <3>1, <3>2, TemporalKeeps
    <3> QED BY <3>3, <3>4 DEF labels, time
  <2>2. CASE ~timed
    <3>1. s \in StratifiedSplits(labels, rows)
      BY <2>2
    <3> HIDE DEF rows, labels, timed
    <3>2. s.support \subseteq rows /\ s.query = rows \ s.support
      BY <3>1, StratifiedDivides
    <3>3. SplitKept(labels, s.support, s.query)
      BY <1>3, <3>1, StratifiedKeeps
    <3> QED BY <2>2, <3>2, <3>3 DEF labels
  <2> QED BY <2>1, <2>2
<1> HIDE DEF Splits
<1>8. PlanSound(draft.plan)
  BY <1>1, <1>4 DEF PlanSound, HistoryGatedSubmodes
<1> HIDE DEF rows
<1>9. /\ task.plan = draft.plan /\ task.support = s.support /\ task.query = s.query
      /\ DOMAIN task = {"plan", "support", "query", "labels"}
      /\ \A r \in s.support \cup s.query : task.labels[r] = draft.labels[r]
  BY <1>6
<1>10. Rows(task) = rows /\ \A r \in rows : task.labels[r] = draft.labels[r]
  BY <1>7, <1>9 DEF Rows
<1>11. SplitKept(task.labels, task.support, task.query)
  BY <1>7, <1>9, KeptByRows
<1>12. \A r \in Rows(task) : task.labels[r] \in 0..TopLabel
  BY <1>5, <1>10
<1>13. Rows(task) \subseteq RowsOf(d, task.plan.target)
  BY <1>4, <1>9, <1>10 DEF rows
<1>14. task.plan.strategy = "temporal_rows" =>
         \A x \in task.support, q \in task.query : d.time[task.plan.target][x] <= d.time[task.plan.target][q]
  BY <1>4, <1>7, <1>9
<1> HIDE DEF timed
<1> QED BY <1>4, <1>8, <1>9, <1>11, <1>12, <1>13, <1>14 DEF TaskSound, HistoryGatedSubmodes

(* An attribute of an event under a condition on its parent.               *)
LEMMA FutureAttributeSound ==
  ASSUME NEW d, DatabaseWellFormed(d), NEW c \in FutureEventAttributeCandidates(d),
         NEW task \in FutureAttributeTasks(d, c), IsTask(task)
  PROVE  TaskSound(d, task)
<1>1. c.target \in Tables
  <2>1. \E i \in DOMAIN Keys : c.target = Keys[i].child
    BY DEF FutureEventAttributeCandidates
  <2> QED BY <2>1, KeyTables
<1> DEFINE scores == PathSourceScores(d, c.target, <<c.key>>, c.source, c.from)
           base == [Plan("future_event_attribute_condition", c, <<c.key>>) EXCEPT !.column = c.column,
                      !.from = c.from, !.rowCutoff = TRUE, !.rules = Max(Times(d, c.target)),
                      !.strategy = "stratified_event_rows"]
<1>2. PICK q : task \in Stratified(d, Draft([base EXCEPT !.threshold = q], Above(scores, q)))
  BY DEF FutureAttributeTasks
<1> DEFINE plan == [base EXCEPT !.threshold = q]
           draft == Draft(plan, Above(scores, q))
<1>3. /\ DOMAIN plan = DOMAIN EmptyPlan /\ plan.mechanism = "future_event_attribute_condition"
      /\ plan.target = c.target /\ plan.strategy = "stratified_event_rows"
  BY DEF Plan, EmptyPlan
<1>4. DOMAIN Above(scores, q) = RowsOf(d, c.target)
  BY DEF Above, PathSourceScores
<1> HIDE DEF plan, scores
<1>5. draft.plan = plan /\ draft.labels = Above(scores, q)
  BY DEF Draft
<1>6. PlanSound(plan)
  BY <1>1, <1>3 DEF PlanSound, HistoryGatedSubmodes
<1>7. task \in Stratified(d, draft)
  BY <1>2 DEF plan
<1>8. \A r \in DOMAIN draft.labels : draft.labels[r] \in {-1} \cup 0..TopLabel
  BY <1>5, AboveLabels
<1> HIDE DEF draft
<1> QED BY <1>3, <1>4, <1>5, <1>6, <1>7, <1>8, StratifiedSound DEF HistoryGatedSubmodes

(* The cutoff drawn from a sequence of times is one of them: some time has *)
(* fewer than k rows before it, and k rows up to it.                       *)
LEMMA TimesBounded ==
  ASSUME NEW n \in Nat, NEW time \in [1..n -> Nat]
  PROVE  \E b \in Nat : \A r \in 1..n : time[r] <= b
<1> DEFINE Bounded(m) == \E b \in Nat : \A r \in 1..m : time[r] <= b
           Bad == {m \in 0..n : ~Bounded(m)}
<1>1. CASE Bad = {}
  <2>1. n \in 0..n
    OBVIOUS
  <2> QED BY <1>1, <2>1
<1>2. CASE Bad # {}
  <2>1. Bad \subseteq Nat
    OBVIOUS
  <2>2. PICK m \in Bad : \A y \in Bad : m <= y
    BY <1>2, <2>1, LeastNatural
  <2>3. m # 0
    BY DEF Bounded
  <2>4. m - 1 \in 0..n /\ m - 1 \notin Bad /\ m \in 1..n
    <3>1. m \in 0..n /\ m - 1 \in 0..n /\ m \in 1..n /\ ~(m <= m - 1)
      BY <2>2, <2>3
    <3> HIDE DEF Bad
    <3> QED BY <2>2, <3>1
  <2>5. PICK b \in Nat : \A r \in 1..(m - 1) : time[r] <= b
    BY <2>4
  <2>6. time[m] \in Nat
    BY <2>4
  <2> DEFINE c == IF time[m] > b THEN time[m] ELSE b
  <2>7. c \in Nat /\ time[m] <= c /\ b <= c
    BY <2>6
  <2>8. \A r \in 1..m : time[r] <= c
    <3> SUFFICES ASSUME NEW r \in 1..m PROVE time[r] <= c
      OBVIOUS
    <3>1. r \in 1..n /\ time[r] \in Nat
      BY <2>4
    <3>2. CASE r = m
      BY <2>7, <3>2
    <3>3. CASE r # m
      <4>1. r \in 1..(m - 1)
        BY <3>3, <2>4
      <4>2. time[r] <= b
        BY <4>1, <2>5
      <4> HIDE DEF c
      <4> QED BY <4>2, <3>1, <2>7
    <3> QED BY <3>2, <3>3
  <2>9. Bounded(m)
    BY <2>7, <2>8
  <2> QED BY <2>2, <2>9
<1> QED BY <1>1, <1>2

LEMMA OrderStatistic ==
  ASSUME NEW n \in Nat, NEW time \in [1..n -> Nat], NEW k \in 1..n
  PROVE  \E r \in 1..n : /\ Cardinality({x \in 1..n : time[x] < time[r]}) < k
                         /\ Cardinality({x \in 1..n : time[x] <= time[r]}) >= k
<1> DEFINE UpTo(v) == {x \in 1..n : time[x] <= v}
           Below(v) == {x \in 1..n : time[x] < v}
           Reaching == {v \in Nat : Cardinality(UpTo(v)) >= k}
<1>0. k \in Nat /\ 1 <= k /\ k <= n /\ 1 \in Int /\ n \in Int /\ 1 <= n
  OBVIOUS
<1>1. \A v : /\ Cardinality(UpTo(v)) \in Nat /\ Cardinality(Below(v)) \in Nat
  <2> TAKE v
  <2>2. IsFiniteSet(1..n)
    BY <1>0, FS_Interval
  <2>3. UpTo(v) \subseteq 1..n /\ Below(v) \subseteq 1..n
    OBVIOUS
  <2> HIDE DEF UpTo, Below
  <2> QED BY <2>2, <2>3, FS_Subset, FS_CardinalityType
<1>2. Reaching # {}
  <2>1. PICK b \in Nat : \A r \in 1..n : time[r] <= b
    BY TimesBounded
  <2>2. UpTo(b) = 1..n
    BY <2>1
  <2>3. Cardinality(1..n) = n
    BY <1>0, FS_Interval
  <2> HIDE DEF UpTo
  <2>4. Cardinality(UpTo(b)) >= k
    BY <2>2, <2>3, <1>0
  <2> QED BY <2>4
<1>3. Reaching \subseteq Nat
  OBVIOUS
<1>4. PICK v \in Reaching : \A u \in Reaching : v <= u
  BY <1>2, <1>3, LeastNatural
<1>5. v \in Nat /\ Cardinality(UpTo(v)) >= k
  BY <1>4
<1>6. Cardinality(Below(v)) < k
  <2>1. CASE v = 0
    <3>1. Below(v) = {}
      BY <2>1
    <3> HIDE DEF Below
    <3>2. Cardinality(Below(v)) = 0
      BY <3>1, FS_EmptySet
    <3> QED BY <3>2, <1>0
  <2>2. CASE v # 0
    <3>1. v - 1 \in Nat /\ ~(v <= v - 1)
      BY <1>5, <2>2
    <3>2. v - 1 \notin Reaching
      BY <3>1, <1>4
    <3>3. ~(Cardinality(UpTo(v - 1)) >= k)
      BY <3>1, <3>2
    <3>4. Below(v) = UpTo(v - 1)
      BY <1>5
    <3> HIDE DEF UpTo, Below, Reaching
    <3>5. Cardinality(Below(v)) \in Nat /\ ~(Cardinality(Below(v)) >= k)
      BY <3>3, <3>4, <1>1
    <3> QED BY <3>5, <1>0
  <2> QED BY <2>1, <2>2
<1>7. \E r \in 1..n : time[r] = v
  <2> SUFFICES ASSUME \A r \in 1..n : time[r] # v PROVE FALSE
    OBVIOUS
  <2>1. UpTo(v) = Below(v)
    BY <1>5
  <2> HIDE DEF UpTo, Below
  <2>2. Cardinality(Below(v)) \in Nat /\ Cardinality(Below(v)) >= k
    BY <2>1, <1>1, <1>5
  <2> QED BY <2>2, <1>6, <1>0
<1> QED BY <1>5, <1>6, <1>7

(* A part of m, at most all of it.                                         *)
LEMMA PartOf ==
  ASSUME NEW p \in Nat, p < 100, NEW m \in Nat
  PROVE  /\ (p * m) \div 100 \in 0..m
         /\ (p * m + 99) \div 100 \in 0..m
<1>1. p * m \in Nat /\ p * m <= 99 * m
  <2>1. p * m \in Nat /\ (99 - p) \in Nat
    OBVIOUS
  <2>2. (99 - p) * m >= 0
    BY <2>1
  <2>3. (99 - p) * m = 99 * m - p * m
    OBVIOUS
  <2> QED BY <2>1, <2>2, <2>3
<1> DEFINE x == p * m
<1> HIDE DEF x
<1>2. x \in Nat /\ x <= 99 * m
  BY <1>1 DEF x
<1>3. x \div 100 \in 0..m
  BY <1>2
<1>4. (x + 99) \div 100 \in 0..m
  <2>1. x + 99 < 100 * m + 100
    BY <1>2
  <2> QED BY <1>2, <2>1
<1> QED BY <1>3, <1>4 DEF x

LEMMA TimesOf ==
  ASSUME NEW d, DatabaseWellFormed(d), NEW t \in Timed
  PROVE  /\ t \in Tables /\ d.rows[t] \in Nat /\ d.time[t] \in [1..d.rows[t] -> Nat]
         /\ Times(d, t) = {d.time[t][r] : r \in 1..d.rows[t]}
         /\ RowsOf(d, t) = 1..d.rows[t]
<1>1. t \in Tables /\ d.rows[t] \in Nat
  BY SchemaWellFormed DEF DatabaseWellFormed
<1>2. d.time[t] \in [1..d.rows[t] -> Nat]
  BY DEF DatabaseWellFormed, RowsOf
<1> QED BY <1>1, <1>2 DEF Times, ToSet, RowsOf

(* A quantile lies between two of the times.                               *)
LEMMA QuantileWithin ==
  ASSUME NEW d, DatabaseWellFormed(d), NEW t \in Timed, Times(d, t) # {},
         NEW percent \in Nat \X Nat, percent[1] < 100, percent[2] < 100,
         NEW x \in QuantileDraws(d, t, percent)
  PROVE  x \in Int /\ \E a, b \in Times(d, t) : a <= x /\ x <= b
<1> DEFINE n == d.rows[t]
           Statistic(k, v) == /\ Cardinality({y \in 1..n : d.time[t][y] < v}) < k
                              /\ Cardinality({y \in 1..n : d.time[t][y] <= v}) >= k
           Order(k) == CHOOSE v \in Times(d, t) : Statistic(k, v)
<1>1. \A k \in 1..n : Order(k) \in Times(d, t)
  <2> TAKE k \in 1..n
  <2>1. \E v \in Times(d, t) : Statistic(k, v)
    <3>1. n \in Nat /\ d.time[t] \in [1..n -> Nat] /\ Times(d, t) = {d.time[t][r] : r \in 1..n}
      BY TimesOf
    <3> HIDE DEF n
    <3>2. \E r \in 1..n : Statistic(k, d.time[t][r])
      BY <3>1, OrderStatistic
    <3> QED BY <3>1, <3>2
  <2> HIDE DEF Statistic
  <2> QED BY <2>1
<1>2. n \in Nat /\ n >= 1
  <2>1. n \in Nat /\ Times(d, t) = {d.time[t][r] : r \in 1..n}
    BY TimesOf
  <2> QED BY <2>1
<1> DEFINE low == 1 + ((percent[1] * (n - 1)) \div 100)
           high == 1 + ((percent[2] * (n - 1) + 99) \div 100)
<1>3. low \in 1..n /\ high \in 1..n
  <2>1. n - 1 \in Nat /\ percent[1] \in Nat /\ percent[2] \in Nat
    BY <1>2
  <2>2. (percent[1] * (n - 1)) \div 100 \in 0..(n - 1) /\ (percent[2] * (n - 1) + 99) \div 100 \in 0..(n - 1)
    BY <2>1, PartOf
  <2> QED BY <1>2, <2>2
<1>4. x \in Order(low)..Order(high)
  BY DEF QuantileDraws
<1> HIDE DEF low, high, Order
<1>5. Order(low) \in Times(d, t) /\ Order(high) \in Times(d, t)
  BY <1>1, <1>3
<1>6. \A a, b : x \in a..b => x \in Int
  OBVIOUS
<1>7. Times(d, t) \subseteq Nat
  BY TimesOf
<1>8. Order(low) <= x /\ x <= Order(high)
  BY <1>4, <1>5, <1>7
<1> QED BY <1>4, <1>5, <1>6, <1>8

(* A windowed aggregate, under one cutoff or under the times of its rows.  *)
LEMMA TemporalAggregateSound ==
  ASSUME NEW d, DatabaseWellFormed(d), NEW c \in TemporalAggregateCandidates(d),
         NEW task \in TemporalAggregateTasks(d, c), IsTask(task)
  PROVE  TaskSound(d, task)
<1>1. /\ c.target \in Tables /\ c.source \in Timed /\ Role[c.target] \in {"entity", "event"}
      /\ Role[c.target] = "event" => Role[c.source] = "detail"
  <2>1. PICK t \in {t \in Tables : Role[t] \in {"entity", "event"} /\ KeysOf(t) # {}} :
        \E p \in {p \in Paths(t, 2) : /\ Endpoint(t, p) \in Timed
                                      /\ Role[t] = "event" => Role[Endpoint(t, p)] = "detail"} :
          c.target = t /\ c.source = Endpoint(t, p)
    BY DEF TemporalAggregateCandidates
  <2> QED BY <2>1
<1>2. c.source # c.target /\ (ByRow(c) <=> c.target \in Timed)
  <2>1. \A t \in Timed : Role[t] \in {"event", "detail"}
    BY SchemaWellFormed
  <2> QED BY <1>1, <2>1 DEF ByRow
<1> DEFINE Global(cutoff, windows) ==
             AggregateDrafts(d, c, [r \in RowsOf(d, c.target) |-> cutoff],
                             GlobalPlan(d, c, cutoff, windows), windows)
           PerRow(windows) == AggregateDrafts(d, c, d.time[c.target], RowPlan(d, c), windows)
           drafts == IF ByRow(c) THEN UNION {PerRow(w) : w \in WindowDraws(d, c.source)}
                     ELSE UNION {Global(cutoff, w) : cutoff \in CutoffDraws(d, c.source), w \in WindowDraws(d, c.source)}
<1>3. HasSpan(d, c.source) /\ \E draft \in drafts : task \in Stratified(d, draft)
  <2>1. TemporalAggregateTasks(d, c) =
          IF ~HasSpan(d, c.source) THEN {NoTask} ELSE UNION {Stratified(d, draft) : draft \in drafts}
    BY DEF TemporalAggregateTasks
  <2>2. task # NoTask
    BY DEF IsTask, NoTask
  <2> HIDE DEF drafts
  <2> QED BY <2>1, <2>2
<1>4. PICK draft \in drafts : task \in Stratified(d, draft)
  BY <1>3
<1>5. PICK cutoffs, p, windows :
        /\ draft \in AggregateDrafts(d, c, cutoffs, p, windows)
        /\ IF ByRow(c) THEN p = RowPlan(d, c)
           ELSE \E cutoff \in CutoffDraws(d, c.source) : p = GlobalPlan(d, c, cutoff, windows)
  <2>1. CASE ByRow(c)
    BY <2>1, <1>4
  <2>2. CASE ~ByRow(c)
    <3>1. \E cutoff \in CutoffDraws(d, c.source), w \in WindowDraws(d, c.source) : draft \in Global(cutoff, w)
      <4> HIDE DEF Global, PerRow
      <4> QED BY <2>2, <1>4
    <3> QED BY <3>1, <2>2
  <2> QED BY <2>1, <2>2
<1> HIDE DEF drafts
<1>6. PICK q :
        /\ draft.plan = [p EXCEPT !.windows = windows, !.threshold = q]
        /\ draft.labels = Above(WindowedAggregates(d, c, cutoffs, windows), q)
  <2> DEFINE values == WindowedAggregates(d, c, cutoffs, windows)
  <2>1. PICK q \in ThresholdDraws(values) :
          draft = Draft([p EXCEPT !.windows = windows, !.threshold = q], Above(values, q))
    BY <1>5 DEF AggregateDrafts
  <2> HIDE DEF values
  <2>2. /\ draft.plan = [p EXCEPT !.windows = windows, !.threshold = q]
        /\ draft.labels = Above(values, q)
    BY <2>1 DEF Draft
  <2> QED BY <2>2 DEF values
<1> DEFINE base == AggregateBase(c)
<1>7. /\ DOMAIN base = DOMAIN EmptyPlan /\ base.mechanism = "temporal_relational_aggregate"
      /\ base.target = c.target /\ base.source = c.source /\ base.strategy = "stratified_rows"
      /\ base.rowCutoff = ByRow(c)
  BY DEF AggregateBase, Plan, EmptyPlan
<1> HIDE DEF base
<1>8. /\ DOMAIN p = DOMAIN EmptyPlan /\ p.mechanism = "temporal_relational_aggregate"
      /\ p.target = c.target /\ p.source = c.source /\ p.strategy = "stratified_rows"
      /\ p.rowCutoff = ByRow(c)
      /\ ByRow(c) \/ (p.cutoff \in CutoffDraws(d, c.source) /\ p.rules = p.cutoff)
  <2>1. CASE ByRow(c)
    <3>1. p = [base EXCEPT !.rules = Max(Times(d, c.target))]
      BY <1>5, <2>1 DEF RowPlan, base
    <3> QED BY <3>1, <1>7, <2>1 DEF EmptyPlan
  <2>2. CASE ~ByRow(c)
    <3>1. PICK cutoff \in CutoffDraws(d, c.source) : p = GlobalPlan(d, c, cutoff, windows)
      BY <1>5, <2>2
    <3>2. PICK horizon : p = [base EXCEPT !.cutoff = cutoff, !.rules = cutoff, !.horizon = horizon]
      BY <3>1 DEF GlobalPlan, base
    <3> QED BY <3>2, <1>7 DEF EmptyPlan
  <2> QED BY <2>1, <2>2
<1> DEFINE plan == draft.plan
<1>9. /\ DOMAIN plan = DOMAIN EmptyPlan /\ plan.mechanism = "temporal_relational_aggregate"
      /\ plan.target = c.target /\ plan.source = c.source /\ plan.strategy = "stratified_rows"
      /\ plan.rowCutoff = ByRow(c)
      /\ ByRow(c) \/ (plan.cutoff \in CutoffDraws(d, c.source) /\ plan.rules = plan.cutoff)
  BY <1>6, <1>8 DEF EmptyPlan
<1>10. ByRow(c) \/ plan.cutoff \in Nat
  <2> SUFFICES ASSUME ~ByRow(c) PROVE plan.cutoff \in Nat
    OBVIOUS
  <2>1. Times(d, c.source) # {} /\ Times(d, c.source) \subseteq Nat
    <3>1. Times(d, c.source) = {} => Cardinality(Times(d, c.source)) = 0
      BY FS_EmptySet
    <3>2. Cardinality(Times(d, c.source)) >= 2
      BY <1>3 DEF HasSpan
    <3>3. Times(d, c.source) \subseteq Nat
      BY <1>1, TimesOf
    <3> QED BY <3>1, <3>2, <3>3
  <2>2. CutoffQuantiles \in Nat \X Nat /\ CutoffQuantiles[1] < 100 /\ CutoffQuantiles[2] < 100
    BY PlannerConfig, PlannerFractions DEF PlannerConfigAccepted
  <2>3. plan.cutoff \in QuantileDraws(d, c.source, CutoffQuantiles)
    BY <1>9 DEF CutoffDraws
  <2> HIDE DEF plan
  <2>4. plan.cutoff \in Int /\ \E a, b \in Times(d, c.source) : a <= plan.cutoff /\ plan.cutoff <= b
    BY <2>1, <2>2, <2>3, <1>1, QuantileWithin
  <2> QED BY <2>1, <2>4
<1>11. AggregatePlan(plan)
  <2> HIDE DEF plan
  <2> QED BY <1>1, <1>2, <1>9, <1>10 DEF AggregatePlan
<1>12. PlanSound(plan)
  <2> HIDE DEF plan
  <2> QED BY <1>1, <1>9, <1>11 DEF PlanSound, HistoryGatedSubmodes
<1>13. DOMAIN draft.labels = RowsOf(d, c.target)
  BY <1>6 DEF Above, WindowedAggregates
<1>14. \A r \in DOMAIN draft.labels : draft.labels[r] \in {-1} \cup 0..TopLabel
  BY <1>6, AboveLabels
<1> QED BY <1>4, <1>9, <1>12, <1>13, <1>14, StratifiedSound DEF HistoryGatedSubmodes

(* The pass a builder keeps is one of the passes.                          *)
LEMMA LastPass ==
  ASSUME NEW passes, NEW s \in PassSequences(passes)
  PROVE  /\ s \in Seq(passes) /\ Len(s) \in Nat \ {0} /\ s[Len(s)] \in passes
<1>1. PICK n \in 0..MaxLabelRetries : s \in PassesAfter(passes, n)
  BY DEF PassSequences
<1>2. PICK earlier \in [1..n -> passes], p \in passes : s = Append(earlier, p)
  <2> DEFINE OneClassed == {p \in passes : OneClass(p)}
             last == IF n < MaxLabelRetries THEN {p \in passes : ~OneClass(p)} ELSE passes
  <2>1. OneClassed \subseteq passes /\ last \subseteq passes
    OBVIOUS
  <2>2. s \in {Append(earlier, p) : earlier \in [1..n -> OneClassed], p \in last}
    BY <1>1 DEF PassesAfter
  <2> HIDE DEF OneClassed, last
  <2>3. PICK earlier \in [1..n -> OneClassed], p \in last : s = Append(earlier, p)
    BY <2>2
  <2> QED BY <2>1, <2>3
<1>3. n \in Nat
  OBVIOUS
<1>4. earlier \in Seq(passes) /\ Len(earlier) = n
  BY <1>3, FunctionIsSeq
<1>5. s \in Seq(passes) /\ Len(s) = n + 1 /\ s[n + 1] = p
  BY <1>2, <1>4, AppendProperties
<1> QED BY <1>3, <1>5

(* A response to an earlier event of the same parent.                      *)
LEMMA InteractionSound ==
  ASSUME NEW d, DatabaseWellFormed(d), NEW c \in InteractionCandidates(d), NEW task \in InteractionTasks(d, c), IsTask(task)
  PROVE  TaskSound(d, task)
<1>1. c.key \in DOMAIN Keys /\ c.target = Keys[c.key].child
  BY DEF InteractionCandidates
<1> DEFINE base == [Plan("interaction_response", c, <<c.key>>) EXCEPT !.from = c.from, !.key = c.key,
                      !.item = c.item, !.rowCutoff = TRUE, !.rules = Max(Times(d, c.target)),
                      !.strategy = "stratified_rows"]
           passes == InteractionPasses(d, c.key)
           Drafted(s) == Draft([base EXCEPT !.passes = s, !.retries = Len(s) - 1], s[Len(s)])
<1>2. PICK s \in PassSequences(passes) : task \in Stratified(d, Drafted(s))
  <2>1. task # NoTask
    BY DEF IsTask, NoTask
  <2>2. InteractionTasks(d, c) =
          IF ~HasSpan(d, c.target) \/ InteractionGated(d, c.key) = {} THEN {NoTask}
          ELSE UNION {Stratified(d, Drafted(s)) : s \in PassSequences(passes)}
    BY DEF InteractionTasks
  <2> HIDE DEF Drafted, passes
  <2> QED BY <2>1, <2>2
<1>3. s[Len(s)] \in passes
  BY LastPass
<1>4. DOMAIN (s[Len(s)]) = RowsOf(d, c.target)
  BY <1>1, <1>3 DEF InteractionPasses
<1>8. \A r \in RowsOf(d, c.target) : s[Len(s)][r] \in {-1} \cup 0..TopLabel
  <2> DEFINE gated == InteractionGated(d, c.key)
  <2>1. PICK draw \in [gated -> {0, 1}] :
          s[Len(s)] = [e \in RowsOf(d, Keys[c.key].child) |-> IF e \in gated THEN draw[e] ELSE -1]
    BY <1>3 DEF InteractionPasses
  <2> HIDE DEF gated
  <2>2. \A r \in RowsOf(d, c.target) : s[Len(s)][r] \in {-1, 0, 1}
    BY <1>1, <2>1
  <2> QED BY <2>2, TopLabelFacts
<1> DEFINE plan == [base EXCEPT !.passes = s, !.retries = Len(s) - 1]
           draft == Drafted(s)
<1>5. /\ DOMAIN plan = DOMAIN EmptyPlan /\ plan.mechanism = "interaction_response"
      /\ plan.target = c.target /\ plan.strategy = "stratified_rows"
  BY DEF Plan, EmptyPlan
<1>6. draft.plan = plan /\ draft.labels = s[Len(s)]
  BY DEF Draft
<1> HIDE DEF plan, Drafted
<1>7. PlanSound(plan)
  BY <1>1, <1>5, KeyTables DEF PlanSound, HistoryGatedSubmodes
<1> QED BY <1>2, <1>4, <1>5, <1>6, <1>7, <1>8, StratifiedSound DEF HistoryGatedSubmodes

LEMMA CompositeTarget ==
  ASSUME NEW families, NEW c \in CompositeCandidates(families)
  PROVE  c.target \in Tables
<1>1. \A s \in Skeletons : s.target \in Tables
  <2> SUFFICES ASSUME NEW s \in Skeletons PROVE s.target \in Tables
    OBVIOUS
  <2>1. \E t \in Tables : s.target = t
    BY DEF Skeletons
  <2> QED BY <2>1
<1>2. \A s \in TwoSources : s[1] \in Skeletons
  BY DEF TwoSources
<1>3. \E s \in Skeletons : c.target = s.target
  <2> DEFINE Of(f) ==
        CASE f = "multi_source" ->
               {[family |-> f, target |-> s[1].target, paths |-> <<s[1].path, s[2].path>>] : s \in TwoSources}
          [] f = "multi_hop_filtered" ->
               {[family |-> f, target |-> s.target, paths |-> <<s.path>>] :
                  s \in {s \in Skeletons : Len(s.path) >= 2}}
          [] OTHER ->
               {[family |-> f, target |-> s.target, paths |-> <<s.path>>] : s \in Skeletons}
  <2>1. PICK f \in families : c \in Of(f)
    BY DEF CompositeCandidates
  <2>2. CASE f = "multi_source"
    <3>1. c \in {[family |-> f, target |-> s[1].target, paths |-> <<s[1].path, s[2].path>>] : s \in TwoSources}
      BY <2>1, <2>2
    <3>2. \E s \in TwoSources : c.target = s[1].target
      BY <3>1
    <3> QED BY <3>2, <1>2
  <2>3. CASE f = "multi_hop_filtered"
    BY <2>1, <2>3
  <2>4. CASE f \notin {"multi_source", "multi_hop_filtered"}
    BY <2>1, <2>4
  <2> QED BY <2>2, <2>3, <2>4
<1> QED BY <1>1, <1>3

(* A composite task: a score of aggregates around one cutoff.              *)
LEMMA CompositeSound ==
  ASSUME NEW d, DatabaseWellFormed(d), NEW families, NEW c \in CompositeCandidates(families),
         NEW task \in CompositeTasksOf(d, c), IsTask(task)
  PROVE  TaskSound(d, task)
<1>1. PICK cutoff, spec : \E draft \in CompositeDrafts(d, c, cutoff, spec) : task \in Stratified(d, draft)
  <2>1. task # NoTask
    BY DEF IsTask, NoTask
  <2>2. \E cutoffs :
          CompositeTasksOf(d, c) =
            {NoTask} \cup UNION {UNION {UNION {Stratified(d, draft) : draft \in CompositeDrafts(d, c, cutoff, spec)} :
                                        spec \in SpecDraws(d, c, cutoff)} : cutoff \in cutoffs}
    BY DEF CompositeTasksOf
  <2> QED BY <2>1, <2>2
<1>2. PICK draft \in CompositeDrafts(d, c, cutoff, spec) : task \in Stratified(d, draft)
  BY <1>1
<1> DEFINE base == CompositeBase(c, cutoff, spec)
           scores == CompositeScores(d, c.target, spec, cutoff)
           eligible == EligibleRows(d, c.target, spec, cutoff)
<1>3. PICK q :
        draft = Draft([base EXCEPT !.threshold = q],
                      [r \in DOMAIN scores |-> IF r \in eligible THEN Bit(Passes(scores[r], spec.label, q)) ELSE -1])
  BY <1>2 DEF CompositeDrafts
<1>4. DOMAIN draft.labels = RowsOf(d, c.target)
  BY <1>3 DEF Draft, CompositeScores
<1>9. \A r \in DOMAIN draft.labels : draft.labels[r] \in {-1} \cup 0..TopLabel
  <2> HIDE DEF base, scores, eligible
  <2>1. draft.labels = [r \in DOMAIN scores |-> IF r \in eligible THEN Bit(Passes(scores[r], spec.label, q)) ELSE -1]
    BY <1>3 DEF Draft
  <2> QED BY <2>1, BitLabels
<1>5. /\ DOMAIN base = DOMAIN EmptyPlan /\ base.mechanism = "relational_classification"
      /\ base.target = c.target /\ base.strategy = "stratified_rows"
  BY DEF CompositeBase, Plan, EmptyPlan
<1> HIDE DEF base, scores, eligible
<1>6. draft.plan = [base EXCEPT !.threshold = q]
  BY <1>3 DEF Draft
<1>7. /\ DOMAIN draft.plan = DOMAIN EmptyPlan /\ draft.plan.mechanism = "relational_classification"
      /\ draft.plan.target = c.target /\ draft.plan.strategy = "stratified_rows"
  BY <1>5, <1>6 DEF EmptyPlan
<1>8. PlanSound(draft.plan)
  BY <1>7, CompositeTarget DEF PlanSound, HistoryGatedSubmodes
<1> QED BY <1>2, <1>4, <1>7, <1>8, <1>9, StratifiedSound DEF HistoryGatedSubmodes

-----------------------------------------------------------------------------
(* Programs and their execution. *)

ProgramSound(program) ==
  /\ program.family \in DOMAIN SemanticsCode
  /\ program.key \in DOMAIN Keys /\ Keys[program.key].child \in TimedEvents
  /\ program.cutoff \in Int

LEMMA ExecutionLabels ==
  ASSUME NEW d, NEW program, ProgramSound(program), NEW labels \in EntityLabels(d, program)
  PROVE  /\ DOMAIN labels = RowsOf(d, Keys[program.key].parent)
         /\ MechanismForFamily(program.family) \in HistoryGatedSubmodes =>
              Labelled(labels) \subseteq WithHistory(d, program.key, program.cutoff)
         /\ \A r \in DOMAIN labels : labels[r] \in {-1} \cup 0..TopLabel
<1> DEFINE rows == RowsOf(d, Keys[program.key].parent)
<1>1. CASE program.family = "future_event_existence"
  BY <1>1, BitLabels DEF EntityLabels, MechanismForFamily, HistoryGatedSubmodes, FutureExistence
<1>2. CASE program.family \in HistoryGatedSubmodes
  <2> DEFINE Gated(positive) == HistoryGatedFuture(d, program.key, program.cutoff, program.horizon, positive)
  <2>0. PICK positive \in BOOLEAN : labels = Gated(positive)
    <3>1. CASE program.family = "history_gated_future_active"
      <4>1. EntityLabels(d, program) = {Gated(TRUE)}
        BY ONLY <3>1 DEF EntityLabels
      <4> HIDE DEF Gated
      <4> QED BY <4>1
    <3>2. CASE program.family = "history_gated_future_inactive"
      <4>1. EntityLabels(d, program) = {Gated(FALSE)}
        BY ONLY <3>2 DEF EntityLabels
      <4> HIDE DEF Gated
      <4> QED BY <4>1
    <3> QED BY <1>2, <3>1, <3>2 DEF HistoryGatedSubmodes
  <2>1. labels = HistoryGatedFuture(d, program.key, program.cutoff, program.horizon, positive)
    BY <2>0
  <2>2. DOMAIN HistoryGatedFuture(d, program.key, program.cutoff, program.horizon, positive) = rows
    BY DEF HistoryGatedFuture
  <2>3. Labelled(HistoryGatedFuture(d, program.key, program.cutoff, program.horizon, positive))
          \subseteq WithHistory(d, program.key, program.cutoff)
    BY GatedLabels DEF ProgramSound
  <2>4. \A r \in rows : HistoryGatedFuture(d, program.key, program.cutoff, program.horizon, positive)[r] \in {-1} \cup 0..TopLabel
    BY GatedRange DEF ProgramSound
  <2> QED BY <2>1, <2>2, <2>3, <2>4
<1>3. CASE program.family \notin HistoryGatedSubmodes \cup {"future_event_existence"}
  <2>1. MechanismForFamily(program.family) \notin HistoryGatedSubmodes
    BY <1>3 DEF MechanismForFamily, HistoryGatedSubmodes
  <2>2. CASE program.family = "future_event_attribute"
    <3>1. DOMAIN labels = rows /\ \A r \in rows : labels[r] \in 0..TopLabel
      BY <2>2, BitLabels DEF EntityLabels
    <3> QED BY <2>1, <3>1
  <2>3. CASE program.family = "interaction_response"
    <3>1. DOMAIN labels = rows /\ \A r \in rows : labels[r] \in 0..TopLabel
      BY <2>3, BitLabels DEF EntityLabels
    <3> QED BY <2>1, <3>1
  <2>4. CASE program.family \in {"temporal_aggregate", "multi_hop_program"}
    <3>1. DOMAIN labels = rows /\ \A r \in rows : labels[r] \in 0..TopLabel
      BY <2>4, BitLabels DEF EntityLabels
    <3> QED BY <2>1, <3>1
  <2> QED BY <1>3, <2>2, <2>3, <2>4 DEF ProgramSound, SemanticsCode, HistoryGatedSubmodes
<1> QED BY <1>1, <1>2, <1>3

LEMMA ExecutionSound ==
  ASSUME NEW d, DatabaseWellFormed(d), NEW program, ProgramSound(program), NEW rate, NEW task \in Executions(d, program, rate)
  PROVE  TaskSound(d, task)
<1> DEFINE plan == ProgramTaskPlan(program)
<1>1. PICK labels \in EntityLabels(d, program) : task \in ProgramTasks(plan, labels, rate)
  BY DEF Executions
<1> DEFINE rows == Labelled(labels)
<1>2. PICK s \in StratifiedSplits(labels, rows) :
        task = [plan |-> plan, support |-> s.support, query |-> s.query, labels |-> [r \in rows |-> labels[r]]]
  BY <1>1 DEF ProgramTasks
<1>3. s.support \subseteq rows /\ s.query = rows \ s.support
  BY StratifiedDivides
<1>4. /\ DOMAIN plan = DOMAIN EmptyPlan /\ plan.mechanism = MechanismForFamily(program.family)
      /\ plan.target = Keys[program.key].parent /\ plan.source = Keys[program.key].child
      /\ plan.key = program.key /\ plan.cutoff = program.cutoff /\ plan.rules = program.cutoff
      /\ plan.rowCutoff = FALSE /\ plan.strategy = "stratified_entities"
  BY DEF ProgramTaskPlan, Plan, EmptyPlan
<1> HIDE DEF plan
<1>5. PlanSound(plan)
  <2>1. EntityPlan(plan)
    BY <1>4 DEF EntityPlan, ProgramSound
  <2>2. plan.mechanism \in HistoryGatedSubmodes \cup {"entity_future_event_existence"}
    BY <1>4 DEF MechanismForFamily, HistoryGatedSubmodes
  <2> QED BY <1>4, <2>1, <2>2, KeyTables DEF PlanSound, HistoryGatedSubmodes, ProgramSound
<1>6. /\ DOMAIN labels = RowsOf(d, plan.target)
      /\ plan.mechanism \in HistoryGatedSubmodes => rows \subseteq WithHistory(d, plan.key, plan.cutoff)
      /\ \A r \in DOMAIN labels : labels[r] \in {-1} \cup 0..TopLabel
  BY <1>4, ExecutionLabels
<1>7. Rows(task) = rows /\ \A r \in rows : task.labels[r] = labels[r] /\ labels[r] \in 0..TopLabel
  <2>1. \A r \in rows : labels[r] >= 0 /\ labels[r] \in {-1} \cup 0..TopLabel
    BY <1>6 DEF Labelled
  <2> QED BY <1>2, <1>3, <2>1 DEF Rows
<1>8. rows \subseteq DOMAIN labels
  BY DEF Labelled
<1> HIDE DEF rows
<1>9. SplitKept(task.labels, task.support, task.query)
  <2>1. IsFiniteSet(rows)
    BY <1>5, <1>6, <1>8, RowsFinite, FS_Subset DEF PlanSound
  <2>2. SplitKept(labels, s.support, s.query)
    BY <2>1, StratifiedKeeps
  <2>3. task.support = s.support /\ task.query = s.query /\ \A r \in s.support \cup s.query : task.labels[r] = labels[r]
    BY <1>2, <1>3
  <2> QED BY <2>2, <2>3, KeptByRows
<1> QED BY <1>2, <1>4, <1>5, <1>6, <1>7, <1>8, <1>9 DEF TaskSound

(* Every task that the planner may build from a candidate is sound.        *)
LEMMA BuildsSound ==
  ASSUME NEW d, DatabaseWellFormed(d), NEW mechanism \in Mechanisms, NEW families,
         NEW c \in Candidates(d, mechanism, families), NEW built \in Builds(d, mechanism, c), IsTask(built)
  PROVE  TaskSound(d, built)
<1>1. CASE mechanism = "relation_attribute"
  <2>1. c \in RelationAttributeCandidates(d) /\ built \in RelationAttributeTasks(d, c)
    BY <1>1 DEF Candidates, Builds, HorizonMechanisms
  <2> QED BY <2>1, RelationAttributeSound
<1>2. CASE mechanism = "random_column"
  <2>1. c \in RandomColumnCandidates(d) /\ built \in RandomColumnTasks(d, c)
    BY <1>2 DEF Candidates, Builds, HorizonMechanisms
  <2> QED BY <2>1, RandomColumnSound
<1>3. CASE mechanism \in HorizonMechanisms
  <2>1. c \in FutureEventCandidates(d)
    BY <1>3 DEF Candidates, HorizonMechanisms
  <2>2. built \in EntityHorizonTasks(d, c, mechanism)
    BY <1>3 DEF Builds, HorizonMechanisms, FutureExistenceTasks, HistoryGatedTasks, HistoryGatedSubmodeTasks
  <2>3. mechanism \in EntityMechanisms
    BY <1>3 DEF HorizonMechanisms, EntityMechanisms, HistoryGatedSubmodes
  <2> QED BY <2>1, <2>2, <2>3, EntityHorizonSound
<1>4. CASE mechanism = "future_event_attribute_condition"
  <2>1. c \in FutureEventAttributeCandidates(d) /\ built \in FutureAttributeTasks(d, c)
    BY <1>4 DEF Candidates, Builds, HorizonMechanisms
  <2> QED BY <2>1, FutureAttributeSound
<1>5. CASE mechanism = "temporal_relational_aggregate"
  <2>1. c \in TemporalAggregateCandidates(d) /\ built \in TemporalAggregateTasks(d, c)
    BY <1>5 DEF Candidates, Builds, HorizonMechanisms
  <2> QED BY <2>1, TemporalAggregateSound
<1>6. CASE mechanism = "interaction_response"
  <2>1. c \in InteractionCandidates(d) /\ built \in InteractionTasks(d, c)
    BY <1>6 DEF Candidates, Builds, HorizonMechanisms
  <2> QED BY <2>1, InteractionSound
<1>7. CASE mechanism = "relational_classification"
  <2>1. c \in CompositeCandidates(families) /\ built \in CompositeTasksOf(d, c)
    BY <1>7 DEF Candidates, Builds, HorizonMechanisms
  <2> QED BY <2>1, CompositeSound
<1> QED BY <1>1, <1>2, <1>3, <1>4, <1>5, <1>6, <1>7 DEF Mechanisms, AttributeMechanisms

(* Every program that may be drawn can be executed.                        *)
LEMMA DrawnSound ==
  ASSUME NEW calendar \in Nat \X Nat, NEW count \in Nat, NEW families, families \subseteq DOMAIN SemanticsCode,
         NEW plans \in ProgramPlans(calendar, count, families), NEW k \in DOMAIN plans
  PROVE  ProgramSound(plans[k])
<1>1. /\ k \in 1..count
      /\ plans[k] \in ProgramDraws(calendar, k, plans[k].family)
      /\ \E index \in 1..count, family \in families : plans[k] \in ProgramDraws(calendar, index, family)
  <2> DEFINE Drawn == UNION {ProgramDraws(calendar, index, family) : index \in 1..count, family \in families}
  <2>1. plans \in UNION {[1..count -> Drawn]} /\ \A index \in 1..count : plans[index] \in ProgramDraws(calendar, index, plans[index].family)
    BY DEF ProgramPlans
  <2>2. plans \in [1..count -> Drawn]
    <3> HIDE DEF Drawn
    <3> QED BY <2>1
  <2>3. k \in 1..count /\ plans[k] \in Drawn
    <3> HIDE DEF Drawn
    <3> QED BY <2>2
  <2> QED BY <2>1, <2>3
<1>2. PICK index \in 1..count, family \in families : plans[k] \in ProgramDraws(calendar, index, family)
  BY <1>1
<1> DEFINE key == Bundles[1 + ((index - 1) % Len(Bundles))]
           span == calendar[2] - calendar[1]
           After(cutoff) == {[from |-> cutoff, to |-> MinOf(calendar[2], cutoff + MaxOf(1, h))] :
                               h \in Fraction(span, ProgramHorizonPercent)}
           windows == UNION {After(calendar[1] + c) : c \in Fraction(span, ProgramCutoffPercent)}
<1>3. \E window \in windows :
        plans[k].family = family /\ plans[k].key = key /\ plans[k].cutoff = window.from
  <2> HIDE DEF windows, key
  <2> QED BY <1>2 DEF ProgramDraws, windows, key
<1>4. key \in DOMAIN Keys /\ Keys[key].child \in TimedEvents
  <2>1. Bundles \in Seq(DOMAIN Keys) /\ Len(Bundles) \in Nat /\ Len(Bundles) > 0
    BY BundlesJoin, EmptySeq, LenProperties
  <2>2. 1 + ((index - 1) % Len(Bundles)) \in 1..Len(Bundles)
    BY <2>1
  <2>3. key \in ToSet(Bundles)
    BY <2>1, <2>2, LenProperties DEF ToSet
  <2> QED BY <2>3, <2>1, <2>2, BundlesJoin
<1>5. \A window \in windows : window.from \in Int
  <2>1. calendar[1] \in Nat /\ span \in Int
    OBVIOUS
  <2>2. ProgramCutoffPercent[1] \in Nat /\ ProgramCutoffPercent[2] \in Nat
    BY ProgramFractions
  <2>3. \A c \in Fraction(span, ProgramCutoffPercent) : c \in Int
    <3> HIDE DEF span
    <3>1. \A n \in Int : Round(n, 100) \in Int
      BY DEF Round
    <3>2. \A p \in ProgramCutoffPercent[1]..ProgramCutoffPercent[2] : span * p \in Int
      BY <2>1, <2>2
    <3> QED BY <3>1, <3>2 DEF Fraction
  <2>4. \A c \in Fraction(span, ProgramCutoffPercent) : calendar[1] + c \in Int
    BY <2>1, <2>3
  <2> HIDE DEF span
  <2>5. \A cutoff : \A window \in After(cutoff) : window.from = cutoff
    OBVIOUS
  <2> HIDE DEF After
  <2> QED BY <2>4, <2>5
<1> HIDE DEF windows, key
<1> QED BY <1>3, <1>4, <1>5 DEF ProgramSound

-----------------------------------------------------------------------------
(* The state of the chain. *)

(* The database is one of those that were asked for, and nothing is built  *)
(* before it is there.                                                     *)
DatabaseFixed ==
  /\ request \in Requests
  /\ databases = {} \/ \E d \in request.databases : databases = {d}
  /\ stage = "tasks" => databases # {}
  /\ stage = "instance" => databases = {}
  /\ databases = {} =>
       programs = << >> /\ tasks = << >> /\ stored = 0 /\ exported = << >> /\ samples = << >>

(* A sequence, whatever is in it.                                          *)
IsSequence(s) == Len(s) \in Nat /\ s = [k \in 1..Len(s) |-> s[k]]

(* Each step works on what the one before it finished.                     *)
StepsInOrder ==
  /\ IsSequence(tasks) /\ IsSequence(exported) /\ IsSequence(samples)
  /\ stored \in 0..Len(tasks) /\ Len(exported) <= stored /\ Len(samples) <= Len(exported)

(* What is known of a program, a task, a stored task, a dataset and a      *)
(* sample.                                                                 *)
ProgramsSound == \A k \in DOMAIN programs : ProgramSound(programs[k])
TasksSound ==
  \A k \in 1..Len(tasks) : /\ TaskSound(db, tasks[k])
                           /\ DataWellFormed(tasks[k]) /\ PlanWellFormed(tasks[k].plan)
StoredValid == \A k \in 1..stored : TaskValid(db, tasks[k])
ExportsConverted == \A k \in 1..Len(exported) : exported[k] \in Conversions(db, tasks[k])
SamplesDrawn == \A k \in 1..Len(samples) : samples[k] \subseteq Samples(tasks[k].labels, exported[k])

ChainInv ==
  /\ DatabaseFixed /\ StepsInOrder
  /\ ProgramsSound /\ TasksSound /\ StoredValid /\ ExportsConverted /\ SamplesDrawn

LEMMA Extended ==
  ASSUME NEW s, IsSequence(s), NEW x
  PROVE  /\ IsSequence(Append(s, x)) /\ Len(Append(s, x)) = Len(s) + 1
         /\ \A k \in 1..Len(s) : Append(s, x)[k] = s[k]
         /\ Append(s, x)[Len(s) + 1] = x
<1> DEFINE T == {s[k] : k \in 1..Len(s)} \cup {x}
<1>1. Len(s) \in Nat /\ s \in [1..Len(s) -> T]
  <2>1. Len(s) \in Nat /\ s = [k \in 1..Len(s) |-> s[k]]
    BY DEF IsSequence
  <2>2. \A k \in 1..Len(s) : s[k] \in T
    OBVIOUS
  <2> HIDE DEF T
  <2> QED BY <2>1, <2>2
<1>2. s \in Seq(T)
  <2> HIDE DEF T
  <2>1. \A n \in Nat : s \in [1..n -> T] => s \in Seq(T)
    BY FunctionIsSeq
  <2> QED BY <1>1, <2>1
<1>3. x \in T
  OBVIOUS
<1> HIDE DEF T
<1> DEFINE u == Append(s, x)
<1>4. u \in Seq(T) /\ Len(u) = Len(s) + 1 /\ (\A k \in 1..Len(s) : u[k] = s[k]) /\ u[Len(s) + 1] = x
  BY <1>2, <1>3, AppendProperties
<1>5. u \in [1..Len(u) -> T]
  BY <1>4, LenProperties
<1> HIDE DEF u
<1>6. IsSequence(u)
  BY <1>1, <1>4, <1>5 DEF IsSequence
<1> QED BY <1>4, <1>6 DEF u

LEMMA EmptySequence == IsSequence(<< >>) /\ Len(<< >>) = 0
BY DEF IsSequence

(* A step that leaves alone what is built may only end the run.            *)
LEMMA RunEnds ==
  ASSUME ChainInv, UNCHANGED <<request, databases, programs, tasks, stored, exported, samples>>,
         stage' \in {stage, "failed", "done"}
  PROVE  ChainInv'
<1>1. DatabaseFixed'
  BY DEF ChainInv, DatabaseFixed
<1>2. StepsInOrder'
  BY DEF ChainInv, StepsInOrder
<1>3. db' = db
  BY DEF db
<1>4. ProgramsSound' /\ TasksSound' /\ StoredValid' /\ ExportsConverted' /\ SamplesDrawn'
  BY <1>3 DEF ChainInv, ProgramsSound, TasksSound, StoredValid, ExportsConverted, SamplesDrawn
<1> QED BY <1>1, <1>2, <1>4 DEF ChainInv

(* In the task stage there is one database, and it is well formed.         *)
LEMMA TheDatabase ==
  ASSUME ChainInv, databases # {}
  PROVE  db \in request.databases /\ databases = {db} /\ DatabaseWellFormed(db) /\ request \in Requests
<1>1. PICK d \in request.databases : databases = {d}
  BY DEF ChainInv, DatabaseFixed
<1>2. db = d
  BY <1>1 DEF db
<1>3. request \in Requests
  BY DEF ChainInv, DatabaseFixed
<1> QED BY <1>1, <1>2, <1>3, RequestsWellFormed

(* A sound task may be added.                                              *)
LEMMA AddKeeps ==
  ASSUME ChainInv, stage = "tasks", NEW task, TaskSound(db, task), Add(task),
         UNCHANGED <<request, databases, programs, stored, exported, samples>>
  PROVE  ChainInv'
<1>1. CASE PlanWellFormed(task.plan) /\ DataWellFormed(task)
  <2>1. tasks' = Append(tasks, task) /\ UNCHANGED stage
    BY <1>1 DEF Add
  <2>2. IsSequence(tasks) /\ stored \in 0..Len(tasks) /\ Len(exported) <= stored /\ Len(samples) <= Len(exported)
        /\ IsSequence(exported) /\ IsSequence(samples)
    BY DEF ChainInv, StepsInOrder
  <2>3. /\ IsSequence(tasks') /\ Len(tasks') = Len(tasks) + 1
        /\ \A k \in 1..Len(tasks) : tasks'[k] = tasks[k]
        /\ tasks'[Len(tasks) + 1] = task
    BY <2>1, <2>2, Extended
  <2>4. db' = db
    BY DEF db
  <2>5. Len(tasks) \in Nat /\ Len(exported) \in Nat /\ Len(samples) \in Nat /\ stored \in Nat
    BY <2>2 DEF IsSequence
  <2>6. DatabaseFixed'
    BY <2>1 DEF ChainInv, DatabaseFixed
  <2>7. StepsInOrder'
    BY <2>2, <2>3, <2>5 DEF StepsInOrder
  <2>8. ProgramsSound'
    BY DEF ChainInv, ProgramsSound
  <2>9. TasksSound'
    <3>1. \A k \in 1..Len(tasks') : k \in 1..Len(tasks) \/ k = Len(tasks) + 1
      BY <2>3, <2>5
    <3>2. TasksSound
      BY DEF ChainInv
    <3> QED BY <3>1, <3>2, <2>3, <2>4, <1>1 DEF TasksSound
  <2>10. StoredValid' /\ ExportsConverted' /\ SamplesDrawn'
    <3>1. \A k \in 1..stored : k \in 1..Len(tasks)
      BY <2>2, <2>5
    <3>2. /\ \A k \in 1..Len(exported) : k \in 1..Len(tasks)
          /\ \A k \in 1..Len(samples) : k \in 1..Len(tasks)
      BY <2>2, <2>5
    <3>3. StoredValid /\ ExportsConverted /\ SamplesDrawn
      BY DEF ChainInv
    <3>4. \A k \in 1..stored : tasks'[k] = tasks[k]
      BY <3>1, <2>3
    <3>5. /\ \A k \in 1..Len(exported) : tasks'[k] = tasks[k]
          /\ \A k \in 1..Len(samples) : tasks'[k] = tasks[k]
      BY <3>2, <2>3
    <3> QED BY <3>3, <3>4, <3>5, <2>4 DEF StoredValid, ExportsConverted, SamplesDrawn
  <2> QED BY <2>6, <2>7, <2>8, <2>9, <2>10 DEF ChainInv
<1>2. CASE ~(PlanWellFormed(task.plan) /\ DataWellFormed(task))
  <2>1. UNCHANGED tasks /\ stage' = "failed"
    BY <1>2 DEF Add, Fail
  <2> QED BY <2>1, RunEnds
<1> QED BY <1>1, <1>2

(* The database that is accepted, with the programs drawn for it.          *)
LEMMA MaterializeKeeps ==
  ASSUME ChainInv, Materialize PROVE ChainInv'
<1>1. PICK plans \in IF request.programs = 0 THEN {<< >>}
                     ELSE ProgramPlans(request.calendar, request.programs, request.families) :
        \/ \E d \in request.databases : Accept(d, plans)
        \/ Retry
  BY DEF Materialize
<1>2. stage = "instance" /\ UNCHANGED <<request, tasks, signatures, stored, exported, samples>>
  BY DEF Materialize
<1>3. CASE Retry
  BY <1>2, <1>3, RunEnds DEF Retry, Fail
<1>4. ASSUME NEW d \in request.databases, Accept(d, plans)
      PROVE  ChainInv'
  <2>1. tasks = << >> /\ stored = 0 /\ exported = << >> /\ samples = << >> /\ request \in Requests
    BY <1>2 DEF ChainInv, DatabaseFixed
  <2>2. databases' = {d} /\ programs' = plans /\ stage' = "tasks"
    BY <1>4 DEF Accept
  <2>3. DatabaseFixed'
    BY <1>2, <2>1, <2>2 DEF DatabaseFixed
  <2>4. StepsInOrder'
    BY <1>2 DEF ChainInv, StepsInOrder
  <2>5. ProgramsSound'
    <3> SUFFICES ASSUME NEW k \in DOMAIN plans PROVE ProgramSound(plans[k])
      BY <2>2 DEF ProgramsSound
    <3>1. CASE request.programs = 0
      <4>1. plans = << >>
        BY <1>1, <3>1
      <4> QED BY <4>1
    <3>2. CASE request.programs # 0
      <4>1. /\ request.programs \in Nat /\ request.calendar \in Nat \X Nat
            /\ request.families \subseteq DOMAIN SemanticsCode
        BY <2>1, <3>2, RequestsWellFormed DEF CalendarHolds
      <4>2. plans \in ProgramPlans(request.calendar, request.programs, request.families)
        BY <1>1, <3>2
      <4> QED BY <4>1, <4>2, DrawnSound
    <3> QED BY <3>1, <3>2
  <2>6. TasksSound' /\ StoredValid' /\ ExportsConverted' /\ SamplesDrawn'
    BY <1>2, <2>1, EmptySequence DEF TasksSound, StoredValid, ExportsConverted, SamplesDrawn
  <2> QED BY <2>3, <2>4, <2>5, <2>6 DEF ChainInv
<1> QED BY <1>1, <1>3, <1>4

LEMMA ExecuteKeeps ==
  ASSUME ChainInv, ExecuteProgram PROVE ChainInv'
<1> DEFINE k == Len(tasks) + 1
<1>1. /\ stage = "tasks" /\ Len(tasks) < Len(programs)
      /\ UNCHANGED <<request, attempt, databases, programs, signatures, stored, exported, samples>>
  BY DEF ExecuteProgram
<1>2. CASE Fail("programs") /\ UNCHANGED tasks
  BY <1>1, <1>2, RunEnds DEF Fail
<1>3. ASSUME NEW task \in Executions(db, programs[k], <<0, 100>>), Add(task)
      PROVE  ChainInv'
  <2>1. k \in DOMAIN programs
    BY <1>1 DEF ChainInv, StepsInOrder, IsSequence
  <2>2. ProgramSound(programs[k])
    BY <2>1 DEF ChainInv, ProgramsSound
  <2>4. DatabaseWellFormed(db)
    <3>1. databases # {}
      BY <1>1 DEF ChainInv, DatabaseFixed
    <3>2. db \in request.databases /\ databases = {db} /\ DatabaseWellFormed(db) /\ request \in Requests
      BY <3>1, TheDatabase
    <3> QED BY <3>2
  <2>3. TaskSound(db, task)
    BY <1>3, <2>2, <2>4, ExecutionSound
  <2> QED BY <1>1, <1>3, <2>3, AddKeeps
<1> QED BY <1>2, <1>3 DEF ExecuteProgram

LEMMA PlanKeeps ==
  ASSUME ChainInv, PlanTask PROVE ChainInv'
<1>1. /\ stage = "tasks"
      /\ UNCHANGED <<request, databases, programs, stored, exported, samples>>
  BY DEF PlanTask
<1>2. PICK mechanism \in request.mechanisms : \E c \in Candidates(db, mechanism, request.families) :
        \E built \in Builds(db, mechanism, c) :
          LET task == IF IsTask(built) THEN BindCalendar(built, request.calendar) ELSE NoTask
          IN IF IsTask(task) /\ SignatureOf(task.plan) \notin signatures
             THEN Add(task) /\ signatures' = signatures \cup {SignatureOf(task.plan)}
             ELSE UNCHANGED <<tasks, signatures, stage, failure>>
  BY DEF PlanTask
<1>a. PICK c \in Candidates(db, mechanism, request.families) : \E built \in Builds(db, mechanism, c) :
          LET task == IF IsTask(built) THEN BindCalendar(built, request.calendar) ELSE NoTask
          IN IF IsTask(task) /\ SignatureOf(task.plan) \notin signatures
             THEN Add(task) /\ signatures' = signatures \cup {SignatureOf(task.plan)}
             ELSE UNCHANGED <<tasks, signatures, stage, failure>>
  BY <1>2
<1>3. PICK built \in Builds(db, mechanism, c) :
          LET task == IF IsTask(built) THEN BindCalendar(built, request.calendar) ELSE NoTask
          IN IF IsTask(task) /\ SignatureOf(task.plan) \notin signatures
             THEN Add(task) /\ signatures' = signatures \cup {SignatureOf(task.plan)}
             ELSE UNCHANGED <<tasks, signatures, stage, failure>>
  BY <1>a
<1> DEFINE bound == IF IsTask(built) THEN BindCalendar(built, request.calendar) ELSE NoTask
<1>4. CASE UNCHANGED <<tasks, stage>>
  BY <1>1, <1>4, RunEnds
<1>5. CASE IsTask(bound) /\ Add(bound)
  <2>1. databases # {}
    BY <1>1 DEF ChainInv, DatabaseFixed
  <2>2. DatabaseWellFormed(db) /\ request \in Requests
    <3>1. db \in request.databases /\ databases = {db} /\ DatabaseWellFormed(db) /\ request \in Requests
      BY <2>1, TheDatabase
    <3> QED BY <3>1
  <2>3. mechanism \in Mechanisms
    BY <2>2, RequestsWellFormed
  <2>4. IsTask(built) /\ bound = BindCalendar(built, request.calendar)
    BY <1>5 DEF IsTask, NoTask
  <2>5. TaskSound(db, built)
    BY <2>2, <2>3, <2>4, BuildsSound
  <2> HIDE DEF bound
  <2>6. TaskSound(db, bound)
    BY <1>5, <2>4, <2>5, BoundSound
  <2> QED BY <1>1, <1>5, <2>6, AddKeeps
<1> QED BY <1>3, <1>4, <1>5

LEMMA StoreKeeps ==
  ASSUME ChainInv, StoreTask PROVE ChainInv'
<1>1. /\ stored < Len(tasks) /\ stage = "tasks"
      /\ UNCHANGED <<request, attempt, databases, programs, tasks, signatures, exported, samples>>
  BY DEF StoreTask
<1>2. CASE (Fail("validation") \/ Fail("leakage")) /\ UNCHANGED stored
  BY <1>1, <1>2, RunEnds DEF Fail
<1>3. CASE TaskValid(db, tasks[stored + 1]) /\ stored' = stored + 1 /\ UNCHANGED stage
  <2>1. Len(tasks) \in Nat /\ stored \in 0..Len(tasks) /\ Len(exported) \in Nat /\ Len(samples) \in Nat
    BY DEF ChainInv, StepsInOrder, IsSequence
  <2>2. db' = db
    BY <1>1 DEF db
  <2>3. DatabaseFixed'
    BY <1>1, <1>3 DEF ChainInv, DatabaseFixed
  <2>4. StepsInOrder'
    BY <1>1, <1>3, <2>1 DEF ChainInv, StepsInOrder
  <2>5. StoredValid'
    <3>1. \A k \in 1..(stored + 1) : k \in 1..stored \/ k = stored + 1
      BY <2>1
    <3> QED BY <3>1, <1>1, <1>3, <2>2 DEF ChainInv, StoredValid
  <2>6. ProgramsSound' /\ TasksSound' /\ ExportsConverted' /\ SamplesDrawn'
    BY <1>1, <2>2 DEF ChainInv, ProgramsSound, TasksSound, ExportsConverted, SamplesDrawn
  <2> QED BY <2>3, <2>4, <2>5, <2>6 DEF ChainInv
<1> QED BY <1>2, <1>3 DEF StoreTask

LEMMA ExportKeeps ==
  ASSUME ChainInv, ExportTask PROVE ChainInv'
<1> DEFINE n == Len(exported)
           task == tasks[n + 1]
<1>1. /\ stored = Len(tasks) /\ n < stored /\ stage = "tasks"
      /\ UNCHANGED <<request, attempt, databases, programs, tasks, signatures, stored, samples>>
  BY DEF ExportTask
<1>2. CASE stage' = "failed" /\ UNCHANGED exported
  BY <1>1, <1>2, RunEnds
<1>3. ASSUME NEW dataset \in Conversions(db, task), exported' = Append(exported, dataset), UNCHANGED stage
      PROVE  ChainInv'
  <2>1. /\ IsSequence(exported) /\ IsSequence(samples) /\ Len(samples) <= n /\ Len(samples) \in Nat
        /\ n \in Nat /\ stored \in Nat
    BY DEF ChainInv, StepsInOrder, IsSequence
  <2>2. db' = db
    BY <1>1 DEF db
  <2>3. /\ IsSequence(exported') /\ Len(exported') = n + 1
        /\ \A k \in 1..n : exported'[k] = exported[k]
        /\ exported'[n + 1] = dataset
    BY <1>3, <2>1, Extended
  <2>4. DatabaseFixed'
    BY <1>1, <1>3 DEF ChainInv, DatabaseFixed
  <2>5. StepsInOrder'
    BY <1>1, <2>1, <2>3 DEF ChainInv, StepsInOrder
  <2>6. ExportsConverted'
    <3>1. \A k \in 1..(n + 1) : k \in 1..n \/ k = n + 1
      BY <2>1
    <3>2. ExportsConverted
      BY DEF ChainInv
    <3> QED BY <3>1, <3>2, <1>1, <1>3, <2>2, <2>3 DEF ExportsConverted
  <2>7. SamplesDrawn'
    <3>1. \A k \in 1..Len(samples) : exported'[k] = exported[k]
      BY <2>1, <2>3
    <3> QED BY <3>1, <1>1 DEF ChainInv, SamplesDrawn
  <2>8. ProgramsSound' /\ TasksSound' /\ StoredValid'
    BY <1>1, <2>2 DEF ChainInv, ProgramsSound, TasksSound, StoredValid
  <2> QED BY <2>4, <2>5, <2>6, <2>7, <2>8 DEF ChainInv
<1> QED BY <1>2, <1>3 DEF ExportTask, Fail

LEMMA PackageKeeps ==
  ASSUME ChainInv, PackageTask PROVE ChainInv'
<1> DEFINE n == Len(samples)
<1>1. /\ Len(exported) = Len(tasks) /\ n < Len(exported) /\ stage = "tasks"
      /\ UNCHANGED <<request, stage, attempt, databases, programs, tasks, signatures, stored, exported, failure>>
  BY DEF PackageTask
<1> DEFINE offered == Samples(tasks[n + 1].labels, exported[n + 1])
<1>2. PICK drawn \in SUBSET offered : samples' = Append(samples, drawn)
  <2>1. \/ \E sample \in offered : samples' = Append(samples, {sample})
        \/ samples' = Append(samples, {})
    BY DEF PackageTask
  <2> HIDE DEF offered
  <2>2. {} \in SUBSET offered /\ \A sample \in offered : {sample} \in SUBSET offered
    OBVIOUS
  <2> QED BY <2>1, <2>2
<1>3. IsSequence(samples) /\ n \in Nat /\ Len(exported) \in Nat
  BY DEF ChainInv, StepsInOrder, IsSequence
<1>4. /\ IsSequence(samples') /\ Len(samples') = n + 1
      /\ \A k \in 1..n : samples'[k] = samples[k]
      /\ samples'[n + 1] = drawn
  BY <1>2, <1>3, Extended
<1>5. db' = db
  BY <1>1 DEF db
<1>6. DatabaseFixed'
  <2>1. databases # {}
    BY <1>1 DEF ChainInv, DatabaseFixed
  <2> QED BY <1>1, <2>1 DEF ChainInv, DatabaseFixed
<1>7. StepsInOrder'
  BY <1>1, <1>3, <1>4 DEF ChainInv, StepsInOrder
<1>8. SamplesDrawn'
  <2>1. \A k \in 1..(n + 1) : k \in 1..n \/ k = n + 1
    BY <1>3
  <2>2. SamplesDrawn
    BY DEF ChainInv
  <2> QED BY <2>1, <2>2, <1>1, <1>2, <1>4 DEF SamplesDrawn
<1>9. ProgramsSound' /\ TasksSound' /\ StoredValid' /\ ExportsConverted'
  BY <1>1, <1>5 DEF ChainInv, ProgramsSound, TasksSound, StoredValid, ExportsConverted
<1> QED BY <1>6, <1>7, <1>8, <1>9 DEF ChainInv

(* Every state of the chain: a task is what its builder settled, a stored  *)
(* task passed the validator, a dataset is an outcome of the conversion of *)
(* its task, and a sample one of the draws from its dataset.               *)
THEOREM ChainSound == Spec => []ChainInv
<1>1. Init => ChainInv
  <2> SUFFICES ASSUME Init PROVE ChainInv
    OBVIOUS
  <2>1. DatabaseFixed
    BY DEF Init, DatabaseFixed
  <2>a. /\ IsSequence(tasks) /\ IsSequence(exported) /\ IsSequence(samples)
        /\ Len(tasks) = 0 /\ Len(exported) = 0 /\ Len(samples) = 0 /\ stored = 0 /\ programs = << >>
    BY EmptySequence DEF Init
  <2>2. StepsInOrder
    BY <2>a DEF StepsInOrder
  <2>b. ProgramsSound
    BY <2>a DEF ProgramsSound
  <2>c. 1..0 = {}
    OBVIOUS
  <2>3. ProgramsSound /\ TasksSound /\ StoredValid /\ ExportsConverted /\ SamplesDrawn
    BY <2>a, <2>b, <2>c DEF TasksSound, StoredValid, ExportsConverted, SamplesDrawn
  <2> QED BY <2>1, <2>2, <2>3 DEF ChainInv
<1>2. ChainInv /\ [Next]_vars => ChainInv'
  <2> SUFFICES ASSUME ChainInv, [Next]_vars PROVE ChainInv'
    OBVIOUS
  <2>1. CASE TooFewTasks
    BY <2>1, RunEnds DEF TooFewTasks, Fail
  <2>2. CASE Finish
    BY <2>2, RunEnds DEF Finish, Fail
  <2>3. CASE Ended \/ UNCHANGED vars
    BY <2>3, RunEnds DEF Ended, vars
  <2> QED BY <2>1, <2>2, <2>3, MaterializeKeeps, ExecuteKeeps, PlanKeeps, StoreKeeps, ExportKeeps, PackageKeeps DEF Next
<1> QED BY <1>1, <1>2, PTL DEF Spec

-----------------------------------------------------------------------------
(* What follows for the datasets and samples. *)

(* Nothing of a stored task is lost in its conversion.                     *)
LEMMA Converted ==
  ASSUME ChainInv, NEW k \in 1..Len(exported)
  PROVE  /\ databases # {}
         /\ TaskSound(db, tasks[k]) /\ DataWellFormed(tasks[k]) /\ PlanWellFormed(tasks[k].plan)
         /\ TaskValid(db, tasks[k])
         /\ exported[k].test = tasks[k].query
         /\ exported[k].cutoff = [r \in Rows(tasks[k]) |-> ExportedCutoff(db, tasks[k].plan, r)]
         /\ \E s \in SupportSplits(tasks[k].labels, tasks[k].support) :
              exported[k].train = s.train /\ exported[k].validation = s.validation
<1> DEFINE task == tasks[k]
           visible == RowsInView(db, task.plan)
           support == task.support \cap visible
           query == task.query \cap visible
<1>1. k \in 1..stored /\ k \in 1..Len(tasks)
  BY DEF ChainInv, StepsInOrder, IsSequence
<1>2. TaskSound(db, task) /\ DataWellFormed(task) /\ PlanWellFormed(task.plan) /\ TaskValid(db, task)
  BY <1>1 DEF ChainInv, TasksSound, StoredValid
<1>3. support = task.support /\ query = task.query
  <2>1. task.support \cup task.query \subseteq visible
    BY <1>2 DEF TaskValid
  <2> QED BY <2>1
<1>4. exported[k] \in Conversions(db, task)
  BY DEF ChainInv, ExportsConverted
<1>5. PICK s \in SupportSplits(task.labels, support) :
        exported[k] = [train |-> s.train, validation |-> s.validation, test |-> query, table |-> visible,
                       cutoff |-> [r \in support \cup query |-> ExportedCutoff(db, task.plan, r)]]
  BY <1>4 DEF Conversions
<1>6. databases # {}
  <2>1. Len(exported) > 0
    BY DEF ChainInv, StepsInOrder, IsSequence
  <2> QED BY <2>1, EmptySequence DEF ChainInv, DatabaseFixed
<1> HIDE DEF visible, support, query
<1>7. \E u \in SupportSplits(task.labels, task.support) :
        exported[k].train = u.train /\ exported[k].validation = u.validation
  BY <1>3, <1>5
<1> QED BY <1>2, <1>3, <1>5, <1>6, <1>7 DEF Rows

(* A validation split: every outcome of _split_support.                    *)
LEMMA SupportDivides ==
  ASSUME NEW labels, NEW rows, NEW s \in SupportSplits(labels, rows)
  PROVE  /\ s.validation \subseteq rows /\ s.validation # {} /\ s.train = rows \ s.validation
         /\ \A x \in rows : \E r \in s.train : labels[r] = labels[x]
<1> DEFINE count == ValidationCount(labels, rows)
<1>1. ~(count < 1) /\ \E chosen \in ValidationRows(labels, rows, count) :
        s = [train |-> rows \ chosen, validation |-> chosen]
  <2> HIDE DEF count
  <2> QED BY DEF SupportSplits, count
<1>2. PICK chosen \in ValidationRows(labels, rows, count) :
        s = [train |-> rows \ chosen, validation |-> chosen]
  BY <1>1
<1> HIDE DEF count
<1>3. /\ chosen \subseteq rows /\ Cardinality(chosen) = count
      /\ \A v \in {labels[r] : r \in rows} : ~(ClassRows(labels, rows, v) \subseteq chosen)
  BY DEF ValidationRows, kSubset
<1>4. chosen # {}
  BY <1>1, <1>3, FS_EmptySet
<1>5. \A x \in rows : \E r \in rows \ chosen : labels[r] = labels[x]
  BY <1>3 DEF ClassRows
<1> QED BY <1>2, <1>3, <1>4, <1>5

(* SplitsKeepClasses, for every exported dataset: training keeps a row of  *)
(* every class that is known at all, validation is not empty, and both     *)
(* together are the support.                                               *)
THEOREM SplitsKeepClassesHolds == Spec => []SplitsKeepClasses
<1>1. ChainInv => SplitsKeepClasses
  <2> SUFFICES ASSUME ChainInv, NEW k \in 1..Len(exported)
               PROVE  LET labels == tasks[k].labels
                          Classes(rows) == {labels[r] : r \in rows}
                      IN /\ exported[k].validation # {}
                         /\ exported[k].train \cap exported[k].validation = {}
                         /\ exported[k].train \cup exported[k].validation = tasks[k].support
                         /\ Classes(exported[k].validation) \subseteq Classes(exported[k].train)
                         /\ exported[k].test = tasks[k].query
    BY DEF SplitsKeepClasses
  <2> DEFINE labels == tasks[k].labels
  <2>1. PICK s \in SupportSplits(labels, tasks[k].support) :
          exported[k].train = s.train /\ exported[k].validation = s.validation
    BY Converted
  <2>2. exported[k].test = tasks[k].query
    BY Converted
  <2>3. /\ s.validation \subseteq tasks[k].support /\ s.validation # {}
        /\ s.train = tasks[k].support \ s.validation
        /\ \A x \in tasks[k].support : \E r \in s.train : labels[r] = labels[x]
    BY SupportDivides
  <2> HIDE DEF labels
  <2>4. {labels[r] : r \in s.validation} \subseteq {labels[r] : r \in s.train}
    BY <2>3
  <2> QED BY <2>1, <2>2, <2>3, <2>4 DEF labels
<1> QED BY <1>1, ChainSound, PTL

(* QueriesComeLater: where a task is split by time, no row that is queried *)
(* is before a row that is shown with its label.                           *)
THEOREM QueriesComeLaterHolds == Spec => []QueriesComeLater
<1>1. ChainInv => QueriesComeLater
  <2> SUFFICES ASSUME ChainInv, NEW k \in 1..Len(exported), tasks[k].plan.strategy = "temporal_rows"
               PROVE  LET time == db.time[tasks[k].plan.target]
                      IN \A s \in exported[k].train \cup exported[k].validation : \A q \in exported[k].test :
                           time[s] <= time[q]
    BY DEF QueriesComeLater
  <2>1. TaskSound(db, tasks[k]) /\ exported[k].test = tasks[k].query
    BY Converted
  <2>2. exported[k].train \cup exported[k].validation \subseteq tasks[k].support
    <3>1. PICK s \in SupportSplits(tasks[k].labels, tasks[k].support) :
            exported[k].train = s.train /\ exported[k].validation = s.validation
      BY Converted
    <3>2. /\ s.validation \subseteq tasks[k].support /\ s.validation # {}
          /\ s.train = tasks[k].support \ s.validation
          /\ \A x \in tasks[k].support : \E r \in s.train : tasks[k].labels[r] = tasks[k].labels[x]
      BY SupportDivides
    <3> QED BY <3>1, <3>2
  <2> QED BY <2>1, <2>2 DEF TaskSound
<1> QED BY <1>1, ChainSound, PTL

LEMMA DrawsHaveBoth ==
  ASSUME NEW total \in Nat, NEW positive \in Nat, NEW count \in Nat, count >= 2
  PROVE  PositiveDraws(total, positive, count) \subseteq 1..(count - 1)
<1> DEFINE others == count - 2
<1>1. others \in Nat /\ others + 1 = count - 1
  OBVIOUS
<1>2. MaxOf(0, others - (total - positive)) \in Nat
  BY <1>1 DEF MaxOf
<1>3. MinOf(positive, others) \in Nat /\ MinOf(positive, others) <= others
  BY <1>1 DEF MinOf
<1>4. PositiveDraws(total, positive, count) =
        IF total < others THEN 1..(others + 1)
        ELSE 1 + MaxOf(0, others - (total - positive)) .. 1 + MinOf(positive, others)
  BY DEF PositiveDraws
<1> HIDE DEF others
<1> QED BY <1>1, <1>2, <1>3, <1>4

(* SamplesHaveBothLabels, for every packaged sample: the anchors and the   *)
(* draws around them never fill a part with one label.                     *)
THEOREM SamplesHaveBothLabelsHolds == Spec => []SamplesHaveBothLabels
<1>1. ChainInv => SamplesHaveBothLabels
  <2> SUFFICES ASSUME ChainInv, NEW k \in 1..Len(samples), NEW sample \in samples[k]
               PROVE  /\ sample.support >= 2 => sample.positives[1] \in 1..(sample.support - 1)
                      /\ sample.query >= 2 => sample.positives[2] \in 1..(sample.query - 1)
    BY DEF SamplesHaveBothLabels
  <2>1. k \in 1..Len(exported) /\ sample \in Samples(tasks[k].labels, exported[k])
    BY DEF ChainInv, StepsInOrder, IsSequence, SamplesDrawn
  <2> DEFINE labels == tasks[k].labels
             support == exported[k].train \cup exported[k].validation
             query == exported[k].test
             count == SupportCount(Cardinality(support), Cardinality(query))
             Positives(part, p) == Cardinality({r \in part : labels[r] \in p})
             Draws(part, p, n) == PositiveDraws(Cardinality(part), Positives(part, p), n)
  <2>2. PICK p \in PositiveClasses(labels, support, query) :
          \E s \in Draws(support, p, count), q \in Draws(query, p, TotalRows - count) :
            sample = [support |-> count, query |-> TotalRows - count, positives |-> <<s, q>>]
    <3> DEFINE Of(p) == {[support |-> count, query |-> TotalRows - count, positives |-> <<s, q>>] :
                           s \in Draws(support, p, count), q \in Draws(query, p, TotalRows - count)}
    <3>0. Samples(tasks[k].labels, exported[k]) = UNION {Of(p) : p \in PositiveClasses(labels, support, query)}
      BY DEF Samples
    <3>1. sample \in UNION {Of(p) : p \in PositiveClasses(labels, support, query)}
      <4> HIDE DEF Of, labels, support, query
      <4> QED BY <2>1, <3>0
    <3>2. PICK p \in PositiveClasses(labels, support, query) : sample \in Of(p)
      <4> HIDE DEF Of
      <4> QED BY <3>1
    <3> HIDE DEF Draws, count, labels, support, query
    <3> QED BY <3>2
  <2>3. /\ IsFiniteSet(support) /\ Cardinality(support) \in Nat \ {0}
        /\ IsFiniteSet(query) /\ Cardinality(query) \in Nat
    <3>1. PICK s \in SupportSplits(labels, tasks[k].support) :
            exported[k].train = s.train /\ exported[k].validation = s.validation
      BY <2>1, Converted
    <3>2. /\ s.validation \subseteq tasks[k].support /\ s.validation # {}
          /\ s.train = tasks[k].support \ s.validation
          /\ \A x \in tasks[k].support : \E r \in s.train : labels[r] = labels[x]
      BY SupportDivides
    <3>3. TaskSound(db, tasks[k]) /\ query = tasks[k].query /\ databases # {}
      BY <2>1, Converted
    <3>4. DatabaseWellFormed(db)
      <4>1. db \in request.databases /\ databases = {db} /\ DatabaseWellFormed(db) /\ request \in Requests
        BY <3>3, TheDatabase
      <4> QED BY <4>1
    <3>5. IsFiniteSet(RowsOf(db, tasks[k].plan.target)) /\ Rows(tasks[k]) \subseteq RowsOf(db, tasks[k].plan.target)
      BY <3>3, <3>4, RowsFinite DEF TaskSound, PlanSound
    <3>6. IsFiniteSet(tasks[k].support) /\ IsFiniteSet(tasks[k].query)
      BY <3>5, FS_Subset DEF Rows
    <3>7. support = tasks[k].support /\ support # {}
      BY <3>1, <3>2
    <3> HIDE DEF support, query, labels
    <3> QED BY <3>3, <3>6, <3>7, FS_CardinalityType, FS_EmptySet
  <2>4. /\ count \in Nat /\ count >= 1 /\ count <= TotalRows - 1 /\ TotalRows \in Nat
    <3>1. TotalRows \in Nat /\ TotalRows >= 2
      BY ExportConfig DEF H5Accepted
    <3>2. /\ Cardinality(support) + Cardinality(query) \in Nat /\ Cardinality(support) + Cardinality(query) > 0
          /\ TotalRows * Cardinality(support) \in Nat
      BY <2>3, <3>1
    <3> HIDE DEF support, query
    <3>3. Round(TotalRows * Cardinality(support), Cardinality(support) + Cardinality(query)) \in Nat
      BY <3>2, RoundNat
    <3> QED BY <3>1, <3>3 DEF SupportCount, MaxOf, MinOf
  <2>5. Positives(support, p) \in Nat /\ Positives(query, p) \in Nat
    <3>1. \A part : {r \in part : labels[r] \in p} \subseteq part
      OBVIOUS
    <3> HIDE DEF support, query, labels
    <3> QED BY <3>1, <2>3, FS_Subset, FS_CardinalityType
  <2> HIDE DEF count, support, query, labels, Positives
  <2>6. /\ count >= 2 => Draws(support, p, count) \subseteq 1..(count - 1)
        /\ TotalRows - count >= 2 => Draws(query, p, TotalRows - count) \subseteq 1..((TotalRows - count) - 1)
    BY <2>3, <2>4, <2>5, DrawsHaveBoth
  <2> HIDE DEF Draws
  <2> QED BY <2>2, <2>6
<1> QED BY <1>1, ChainSound, PTL

(* The labels of the two mechanisms about the future that a cutoff per row *)
(* or a global one separates from the features.                            *)
LEMMA ExistenceLabels ==
  ASSUME NEW d, NEW plan, plan.mechanism = "entity_future_event_existence"
  PROVE  MechanismLabels(d, plan) =
           IF \/ plan.semantics \in {3, 4, 5}
              \/ plan.semantics = 2 /\ plan.from # NoColumn
           THEN ProgramEntityValues(d, plan)
           ELSE FutureExistence(d, plan.key, plan.cutoff, plan.horizon)
BY DEF MechanismLabels

WindowOf(plan) ==
  [target |-> plan.target, source |-> plan.source, path |-> CHOOSE p \in plan.paths : TRUE,
   operator |-> plan.operator, from |-> plan.from]
CutoffsOf(d, plan) ==
  IF plan.rowCutoff THEN d.time[plan.target] ELSE [r \in RowsOf(d, plan.target) |-> plan.cutoff]

LEMMA AggregateLabels ==
  ASSUME NEW d, NEW plan, plan.mechanism = "temporal_relational_aggregate"
  PROVE  MechanismLabels(d, plan) =
           Above(WindowedAggregates(d, WindowOf(plan), CutoffsOf(d, plan), plan.windows), plan.threshold)
BY DEF MechanismLabels, WindowOf, CutoffsOf

(* A database in which the times of a table up to c are forgotten.         *)
Forgetting(d, source, c) ==
  [d EXCEPT !.time[source] = [e \in DOMAIN @ |-> IF @[e] <= c THEN NoTime ELSE @[e]]]

LEMMA ForgettingKeeps ==
  ASSUME NEW d, DatabaseWellFormed(d), NEW source \in Timed, NEW c \in Int, NEW f, f = Forgetting(d, source, c)
  PROVE  /\ f.rows = d.rows /\ f.ref = d.ref /\ f.value = d.value
         /\ \A t \in Timed \ {source} : f.time[t] = d.time[t]
         /\ \A e \in RowsOf(d, source) : f.time[source][e] > c <=> d.time[source][e] > c
         /\ \A e \in RowsOf(d, source) : d.time[source][e] > c => f.time[source][e] = d.time[source][e]
<1>1. /\ DOMAIN d = {"rows", "time", "ref", "value"} /\ Timed \subseteq DOMAIN d.time
      /\ d.time[source] \in [RowsOf(d, source) -> Nat]
  BY DEF DatabaseWellFormed
<1> DEFINE times == [e \in DOMAIN d.time[source] |-> IF d.time[source][e] <= c THEN NoTime ELSE d.time[source][e]]
<1>2. f = [d EXCEPT !.time = [d.time EXCEPT ![source] = times]]
  BY DEF Forgetting
<1> HIDE DEF times
<1>3. f.rows = d.rows /\ f.ref = d.ref /\ f.value = d.value /\ f.time = [d.time EXCEPT ![source] = times]
  BY <1>1, <1>2
<1>4. f.time[source] = times /\ \A t \in Timed \ {source} : f.time[t] = d.time[t]
  BY <1>1, <1>3
<1>5. \A e \in RowsOf(d, source) :
        d.time[source][e] \in Nat /\ times[e] = IF d.time[source][e] <= c THEN -1 ELSE d.time[source][e]
  BY <1>1 DEF times, NoTime
<1>6. \A e \in RowsOf(d, source) : (times[e] > c <=> d.time[source][e] > c) /\ (d.time[source][e] > c => times[e] = d.time[source][e])
  BY <1>5
<1> QED BY <1>3, <1>4, <1>6

(* The labels of a program, and of future existence, do not read the       *)
(* times up to the cutoff.                                                 *)
LEMMA EntityLabelsForget ==
  ASSUME NEW d, DatabaseWellFormed(d), NEW plan, EntityPlan(plan), NEW f, f = Forgetting(d, plan.source, plan.cutoff)
  PROVE  /\ FutureExistence(f, plan.key, plan.cutoff, plan.horizon) =
              FutureExistence(d, plan.key, plan.cutoff, plan.horizon)
         /\ ProgramEntityValues(f, plan) = ProgramEntityValues(d, plan)
<1> DEFINE source == plan.source
           cutoff == plan.cutoff
<1>1. source \in Timed /\ cutoff \in Int /\ source = Keys[plan.key].child
  BY DEF EntityPlan, TimedEvents
<1>2. /\ f.rows = d.rows /\ f.ref = d.ref /\ f.value = d.value
      /\ \A t \in Timed \ {source} : f.time[t] = d.time[t]
      /\ \A e \in RowsOf(d, source) : f.time[source][e] > cutoff <=> d.time[source][e] > cutoff
      /\ \A e \in RowsOf(d, source) : d.time[source][e] > cutoff => f.time[source][e] = d.time[source][e]
  BY <1>1, ForgettingKeeps
<1>3. \A t : RowsOf(f, t) = RowsOf(d, t)
  BY <1>2 DEF RowsOf
<1>4. Active(f, plan.key, cutoff, plan.horizon) = Active(d, plan.key, cutoff, plan.horizon)
  <2> DEFINE In(x) == {e \in RowsOf(x, source) : x.time[source][e] > cutoff /\ x.time[source][e] <= plan.horizon}
  <2>1. In(f) = In(d)
    BY <1>2, <1>3
  <2> DEFINE Parents(ref, events) == {ref[plan.key][e] : e \in events} \ {0}
  <2>2. \A x : Active(x, plan.key, cutoff, plan.horizon) = Parents(x.ref, In(x))
    BY <1>1 DEF Active
  <2> HIDE DEF In, Parents
  <2> QED BY <2>1, <2>2, <1>2
<1>5. FutureExistence(f, plan.key, cutoff, plan.horizon) = FutureExistence(d, plan.key, cutoff, plan.horizon)
  <2> DEFINE Of(rows, active) == [r \in rows |-> Bit(r \in active)]
  <2>1. \A x : FutureExistence(x, plan.key, cutoff, plan.horizon) =
                 Of(RowsOf(x, Keys[plan.key].parent), Active(x, plan.key, cutoff, plan.horizon))
    BY DEF FutureExistence
  <2> HIDE DEF Of
  <2> QED BY <2>1, <1>3, <1>4
<1>6. ProgramEntityValues(f, plan) = ProgramEntityValues(d, plan)
  <2> DEFINE Selected(x) == {e \in RowsOf(x, source) :
                               /\ x.ref[plan.key][e] # 0
                               /\ x.time[source][e] > cutoff /\ x.time[source][e] <= plan.horizon
                               /\ plan.semantics = 2 => x.value[source][plan.from][e] > plan.threshold}
             Counted(rows, ref, selected) ==
               [r \in rows |->
                  Bit(IF plan.semantics \in {2, 4} THEN Cardinality({e \in selected : ref[plan.key][e] = r}) > 0
                      ELSE Cardinality({e \in selected : ref[plan.key][e] = r}) > plan.threshold)]
  <2>1. Selected(f) = Selected(d)
    BY <1>2, <1>3
  <2>2. \A x : ProgramEntityValues(x, plan) = Counted(RowsOf(x, plan.target), x.ref, Selected(x))
    BY DEF ProgramEntityValues
  <2> HIDE DEF Selected, Counted
  <2> QED BY <2>1, <2>2, <1>2, <1>3
<1> QED BY <1>5, <1>6

(* A windowed aggregate of a row does not read the times of its source up  *)
(* to the cutoff of the row.                                               *)
LEMMA AggregateForgets ==
  ASSUME NEW d, DatabaseWellFormed(d), NEW plan, AggregatePlan(plan), NEW r \in RowsOf(d, plan.target),
         CutoffsOf(d, plan)[r] \in Int, NEW f, f = Forgetting(d, plan.source, CutoffsOf(d, plan)[r])
  PROVE  Above(WindowedAggregates(f, WindowOf(plan), CutoffsOf(f, plan), plan.windows), plan.threshold)[r] =
         Above(WindowedAggregates(d, WindowOf(plan), CutoffsOf(d, plan), plan.windows), plan.threshold)[r]
<1> DEFINE c == WindowOf(plan)
           cutoffs == CutoffsOf(d, plan)
           path == CHOOSE p \in plan.paths : TRUE
<1>1. c.target = plan.target /\ c.source = plan.source /\ c.path = path
      /\ c.operator = plan.operator /\ c.from = plan.from
  BY DEF WindowOf
<1>2. /\ f.rows = d.rows /\ f.ref = d.ref /\ f.value = d.value
      /\ \A t \in Timed \ {plan.source} : f.time[t] = d.time[t]
      /\ \A e \in RowsOf(d, plan.source) : f.time[plan.source][e] > cutoffs[r] <=> d.time[plan.source][e] > cutoffs[r]
      /\ \A e \in RowsOf(d, plan.source) :
           d.time[plan.source][e] > cutoffs[r] => f.time[plan.source][e] = d.time[plan.source][e]
  <2>1. plan.source \in Timed
    BY DEF AggregatePlan
  <2> HIDE DEF cutoffs
  <2> QED BY <2>1, ForgettingKeeps DEF cutoffs
<1>3. \A t : RowsOf(f, t) = RowsOf(d, t)
  BY <1>2 DEF RowsOf
<1>4. CutoffsOf(f, plan) = cutoffs
  <2>1. CASE plan.rowCutoff
    <3>1. f.time[plan.target] = d.time[plan.target]
      BY <1>2, <2>1 DEF AggregatePlan
    <3> QED BY <2>1, <3>1 DEF CutoffsOf
  <2>2. CASE ~plan.rowCutoff
    BY <1>3, <2>2 DEF CutoffsOf
  <2> QED BY <2>1, <2>2
<1>5. Reached(f, c.target, c.path) = Reached(d, c.target, c.path)
  BY <1>2 DEF Reached, Links
<1> DEFINE InWindow(x, w) == {e \in RowsOf(x, plan.source) :
                                /\ e \in Reached(x, c.target, c.path)[r]
                                /\ x.time[plan.source][e] > cutoffs[r]
                                /\ x.time[plan.source][e] <= cutoffs[r] + w}
           Summed(value, selected) ==
             SumOver(plan.windows,
                     [w \in ToSet(plan.windows) |-> AggregateOf(value[plan.source][plan.from], plan.operator, selected[w])])
           InWindows(x) == [w \in ToSet(plan.windows) |-> InWindow(x, w)]
<1>6. InWindows(f) = InWindows(d)
  <2>1. \A w : InWindow(f, w) = InWindow(d, w)
    <3> HIDE DEF cutoffs, c, path
    <3> QED BY <1>2, <1>3, <1>5
  <2> HIDE DEF InWindow
  <2> QED BY <2>1
<1>7. ASSUME NEW x, \A t : RowsOf(x, t) = RowsOf(d, t)
      PROVE  WindowedAggregates(x, c, cutoffs, plan.windows)[r] = Summed(x.value, InWindows(x))
  <2> DEFINE OverWindow(w) == AggregateOf(x.value[plan.source][plan.from], plan.operator, InWindow(x, w))
  <2>1. WindowedAggregates(x, c, cutoffs, plan.windows)[r] =
          SumOver(plan.windows, [w \in ToSet(plan.windows) |-> OverWindow(w)])
    BY <1>1, <1>7 DEF WindowedAggregates, WindowOf
  <2>2. [w \in ToSet(plan.windows) |-> OverWindow(w)] =
          [w \in ToSet(plan.windows) |-> AggregateOf(x.value[plan.source][plan.from], plan.operator, InWindows(x)[w])]
    <3> HIDE DEF InWindow
    <3> QED OBVIOUS
  <2> HIDE DEF InWindow, OverWindow, InWindows
  <2> QED BY <2>1, <2>2
<1>8. WindowedAggregates(f, c, cutoffs, plan.windows)[r] = WindowedAggregates(d, c, cutoffs, plan.windows)[r]
  <2> HIDE DEF Summed, InWindows, c, cutoffs
  <2> QED BY <1>2, <1>3, <1>6, <1>7
<1>9. ASSUME NEW x, \A t : RowsOf(x, t) = RowsOf(d, t)
      PROVE  Above(WindowedAggregates(x, c, cutoffs, plan.windows), plan.threshold)[r] =
               Bit(WindowedAggregates(x, c, cutoffs, plan.windows)[r] > plan.threshold)
  <2>1. r \in DOMAIN WindowedAggregates(x, c, cutoffs, plan.windows)
    BY <1>1, <1>9 DEF WindowedAggregates
  <2> HIDE DEF c, cutoffs
  <2> QED BY <2>1 DEF Above
<1> HIDE DEF c, cutoffs
<1> QED BY <1>3, <1>4, <1>8, <1>9 DEF c, cutoffs

(* FutureUnseen, for every exported dataset: forgetting what is exported   *)
(* beside a row changes no label about the future of the row, and under a  *)
(* cutoff of the whole task nothing later is exported.                     *)
THEOREM FutureUnseenHolds == Spec => []FutureUnseen
<1> DEFINE About == {"entity_future_event_existence", "temporal_relational_aggregate"}
<1>1. ASSUME ChainInv, NEW k \in 1..Len(exported), tasks[k].plan.mechanism \in About
      PROVE  /\ \A r \in DOMAIN exported[k].cutoff :
                  MechanismLabels(Forgotten(tasks[k].plan, exported[k].cutoff[r]), tasks[k].plan)[r] = tasks[k].labels[r]
             /\ ~tasks[k].plan.rowCutoff =>
                  \A e \in Exported(db, tasks[k].plan, tasks[k].plan.source) :
                    db.time[tasks[k].plan.source][e] <= tasks[k].plan.cutoff
  <2> DEFINE task == tasks[k]
             plan == tasks[k].plan
             cutoff == exported[k].cutoff
  <2>1. /\ TaskSound(db, task) /\ PlanWellFormed(plan) /\ TaskValid(db, task) /\ databases # {}
        /\ cutoff = [r \in Rows(task) |-> ExportedCutoff(db, plan, r)]
    BY <1>1, Converted
  <2>2. DatabaseWellFormed(db)
    <3>1. db \in request.databases /\ databases = {db} /\ DatabaseWellFormed(db) /\ request \in Requests
      BY <1>1, <2>1, TheDatabase
    <3> QED BY <3>1
  <2>3. PlanSound(plan) /\ Rows(task) \subseteq RowsOf(db, plan.target)
        /\ \A r \in Rows(task) : task.labels[r] = MechanismLabels(db, plan)[r]
    BY <2>1 DEF TaskSound, TaskValid, LabelsValid, Rows
  <2>4. \A c : Forgotten(plan, c) = Forgetting(db, plan.source, c)
    BY DEF Forgotten, Forgetting
  <2> HIDE DEF task, plan, cutoff
  <2>5. CASE plan.mechanism = "entity_future_event_existence"
    <3>1. EntityPlan(plan) /\ plan.cutoff \in Int /\ plan.cutoff # NoTime /\ plan.source \in Timed
      BY <2>1, <2>3, <2>5 DEF PlanSound, EntityPlan, PlanWellFormed, HorizonMechanisms, TimedEvents
    <3>2. \A r \in Rows(task) : cutoff[r] = plan.cutoff
      BY <2>1, <2>5 DEF ExportedCutoff, HorizonMechanisms
    <3> DEFINE f == Forgetting(db, plan.source, plan.cutoff)
    <3>3. /\ FutureExistence(f, plan.key, plan.cutoff, plan.horizon) =
               FutureExistence(db, plan.key, plan.cutoff, plan.horizon)
          /\ ProgramEntityValues(f, plan) = ProgramEntityValues(db, plan)
      BY <2>2, <3>1, EntityLabelsForget
    <3> HIDE DEF f
    <3>4. MechanismLabels(f, plan) = MechanismLabels(db, plan)
      BY <2>5, <3>3, ExistenceLabels
    <3>5. \A e \in Exported(db, plan, plan.source) : db.time[plan.source][e] <= plan.cutoff
      BY <3>1 DEF Exported, VisibleRows, ObservedRows, EntityPlan
    <3>6. \A r \in DOMAIN cutoff : MechanismLabels(Forgotten(plan, cutoff[r]), plan)[r] = task.labels[r]
      BY <2>1, <2>3, <2>4, <3>2, <3>4 DEF f
    <3> QED BY <3>5, <3>6 DEF plan, task, cutoff
  <2>6. CASE plan.mechanism = "temporal_relational_aggregate"
    <3>1. AggregatePlan(plan)
      BY <2>3, <2>6 DEF PlanSound
    <3>2. \A r \in Rows(task) : cutoff[r] = CutoffsOf(db, plan)[r] /\ cutoff[r] \in Int
      <4> SUFFICES ASSUME NEW r \in Rows(task) PROVE cutoff[r] = CutoffsOf(db, plan)[r] /\ cutoff[r] \in Int
        OBVIOUS
      <4>1. CASE plan.target \in Timed
        <5>1. cutoff[r] = db.time[plan.target][r]
          BY <2>1, <2>6, <4>1 DEF ExportedCutoff, HorizonMechanisms
        <5>2. CutoffsOf(db, plan) = db.time[plan.target]
          BY <3>1, <4>1 DEF AggregatePlan, CutoffsOf
        <5>3. db.time[plan.target][r] \in Nat
          BY <2>2, <2>3, <4>1 DEF DatabaseWellFormed
        <5> QED BY <5>1, <5>2, <5>3
      <4>2. CASE plan.target \notin Timed
        <5>1. cutoff[r] = plan.cutoff
          BY <2>1, <2>6, <4>2 DEF ExportedCutoff
        <5>2. CutoffsOf(db, plan)[r] = plan.cutoff
          BY <2>3, <3>1, <4>2 DEF AggregatePlan, CutoffsOf
        <5> QED BY <3>1, <4>2, <5>1, <5>2 DEF AggregatePlan
      <4> QED BY <4>1, <4>2
    <3>3. \A r \in DOMAIN cutoff : MechanismLabels(Forgotten(plan, cutoff[r]), plan)[r] = task.labels[r]
      <4> SUFFICES ASSUME NEW r \in Rows(task)
                   PROVE  MechanismLabels(Forgotten(plan, cutoff[r]), plan)[r] = task.labels[r]
        BY <2>1
      <4> DEFINE f == Forgetting(db, plan.source, CutoffsOf(db, plan)[r])
      <4>1. r \in RowsOf(db, plan.target) /\ CutoffsOf(db, plan)[r] \in Int
        BY <2>3, <3>2
      <4>2. Above(WindowedAggregates(f, WindowOf(plan), CutoffsOf(f, plan), plan.windows), plan.threshold)[r] =
            Above(WindowedAggregates(db, WindowOf(plan), CutoffsOf(db, plan), plan.windows), plan.threshold)[r]
        BY <2>2, <3>1, <4>1, AggregateForgets
      <4>3. f = Forgotten(plan, cutoff[r])
        BY <2>4, <3>2
      <4> HIDE DEF f
      <4>4. MechanismLabels(f, plan)[r] = MechanismLabels(db, plan)[r]
        BY <2>6, <4>2, AggregateLabels
      <4> QED BY <2>3, <4>3, <4>4
    <3>4. ~plan.rowCutoff => \A e \in Exported(db, plan, plan.source) : db.time[plan.source][e] <= plan.cutoff
      <4>1. ~plan.rowCutoff => plan.rules = plan.cutoff /\ plan.cutoff \in Nat /\ plan.source \in Timed
        BY <3>1 DEF AggregatePlan
      <4> QED BY <4>1 DEF Exported, VisibleRows, ObservedRows, NoTime
    <3> QED BY <3>3, <3>4 DEF plan, task, cutoff
  <2> QED BY <1>1, <2>5, <2>6 DEF plan
<1>2. ChainInv => FutureUnseen
  BY <1>1 DEF FutureUnseen
<1> QED BY <1>2, ChainSound, PTL

-----------------------------------------------------------------------------
(* Paths from child to parent, and the rows they lead to. *)

(* Two functions that go on from equal values with equal values.           *)
SameSteps(f, g, n) ==
  f[0] = g[0] /\ \A k \in 1..n : f[k - 1] = g[k - 1] => f[k] = g[k]

LEMMA Agree ==
  ASSUME NEW f, NEW g, NEW n \in Nat, SameSteps(f, g, n)
  PROVE  \A k \in 0..n : f[k] = g[k]
<1> DEFINE T == {k \in 0..n : f[k] # g[k]}
<1> SUFFICES ASSUME T # {} PROVE FALSE
  OBVIOUS
<1>1. T \in SUBSET Nat
  OBVIOUS
<1> HIDE DEF T
<1>2. PICK k \in T : \A m \in T : k <= m
  BY <1>1, LeastNatural
<1> USE DEF T
<1>3. k \in 1..n
  BY <1>2 DEF SameSteps
<1>4. k - 1 \in 0..n /\ k - 1 \notin T
  BY <1>2, <1>3
<1> QED BY <1>2, <1>3, <1>4 DEF SameSteps

StopsOf(t, p, n, s) == s = [k \in 0..n |-> IF k = 0 THEN t ELSE Across(p[k], s[k - 1])]

LEMMA StopsExist ==
  ASSUME NEW t, NEW p, NEW n \in Nat
  PROVE  \E s : StopsOf(t, p, n, s)
<1> DEFINE T == {m \in Nat : ~ \E s : StopsOf(t, p, m, s)}
<1> SUFFICES ASSUME T # {} PROVE FALSE
  OBVIOUS
<1>1. T \in SUBSET Nat
  OBVIOUS
<1> HIDE DEF T
<1>2. PICK m \in T : \A k \in T : m <= k
  BY <1>1, LeastNatural
<1>3. m \in Nat /\ ~ \E s : StopsOf(t, p, m, s)
  BY <1>2 DEF T
<1>4. m # 0
  <2> SUFFICES ASSUME m = 0 PROVE FALSE
    OBVIOUS
  <2> DEFINE s == [k \in 0..0 |-> t]
  <2>1. s = [k \in 0..0 |-> IF k = 0 THEN t ELSE Across(p[k], s[k - 1])]
    OBVIOUS
  <2> HIDE DEF s
  <2> QED BY <2>1, <1>3 DEF StopsOf
<1>5. m - 1 \in Nat /\ m - 1 \notin T
  BY <1>2, <1>3, <1>4
<1>6. PICK s : StopsOf(t, p, m - 1, s)
  BY <1>5 DEF T
<1> DEFINE u == [k \in 0..m |-> IF k = 0 THEN t ELSE Across(p[k], s[k - 1])]
<1>7. \A k \in 0..(m - 1) : s[k] = u[k]
  BY <1>3, <1>6 DEF StopsOf
<1>8. u = [k \in 0..m |-> IF k = 0 THEN t ELSE Across(p[k], u[k - 1])]
  <2>1. \A k \in 0..m : k # 0 => s[k - 1] = u[k - 1]
    <3> HIDE DEF u
    <3> QED BY <1>3, <1>7
  <2> QED BY <2>1
<1> HIDE DEF u
<1> QED BY <1>3, <1>8 DEF StopsOf

LEMMA StopsSteps ==
  ASSUME NEW t, NEW p, Len(p) \in Nat
  PROVE  /\ DOMAIN Stops(t, p) = 0..Len(p) /\ Stops(t, p)[0] = t
         /\ \A k \in 1..Len(p) : Stops(t, p)[k] = Across(p[k], Stops(t, p)[k - 1])
<1>1. Stops(t, p) = CHOOSE s : StopsOf(t, p, Len(p), s)
  BY DEF Stops, StopsOf
<1>2. StopsOf(t, p, Len(p), Stops(t, p))
  BY <1>1, StopsExist
<1> DEFINE s == Stops(t, p)
<1>3. s = [k \in 0..Len(p) |-> IF k = 0 THEN t ELSE Across(p[k], s[k - 1])]
  BY <1>2 DEF StopsOf
<1> HIDE DEF s
<1>4. DOMAIN s = 0..Len(p) /\ s[0] = t /\ \A k \in 1..Len(p) : s[k] = Across(p[k], s[k - 1])
  BY <1>3
<1> QED BY <1>4 DEF s

(* The rows that a path leads to, stop by stop.                            *)
GroupsOf(links, stops, p, r, n, g) ==
  g = [k \in 0..n |-> IF k = 0 THEN {r} ELSE Joined(links, p[k], stops[k - 1], g[k - 1])]

LEMMA GroupsExist ==
  ASSUME NEW links, NEW stops, NEW p, NEW r, NEW n \in Nat
  PROVE  \E g : GroupsOf(links, stops, p, r, n, g)
<1> DEFINE T == {m \in Nat : ~ \E g : GroupsOf(links, stops, p, r, m, g)}
<1> SUFFICES ASSUME T # {} PROVE FALSE
  OBVIOUS
<1>1. T \in SUBSET Nat
  OBVIOUS
<1> HIDE DEF T
<1>2. PICK m \in T : \A k \in T : m <= k
  BY <1>1, LeastNatural
<1>3. m \in Nat /\ ~ \E g : GroupsOf(links, stops, p, r, m, g)
  BY <1>2 DEF T
<1>4. m # 0
  <2> SUFFICES ASSUME m = 0 PROVE FALSE
    OBVIOUS
  <2> DEFINE g == [k \in 0..0 |-> {r}]
  <2>1. g = [k \in 0..0 |-> IF k = 0 THEN {r} ELSE Joined(links, p[k], stops[k - 1], g[k - 1])]
    OBVIOUS
  <2> HIDE DEF g
  <2> QED BY <2>1, <1>3 DEF GroupsOf
<1>5. m - 1 \in Nat /\ m - 1 \notin T
  BY <1>2, <1>3, <1>4
<1>6. PICK g : GroupsOf(links, stops, p, r, m - 1, g)
  BY <1>5 DEF T
<1> DEFINE u == [k \in 0..m |-> IF k = 0 THEN {r} ELSE Joined(links, p[k], stops[k - 1], g[k - 1])]
<1>7. \A k \in 0..(m - 1) : g[k] = u[k]
  <2> SUFFICES ASSUME NEW k \in 0..(m - 1) PROVE g[k] = u[k]
    OBVIOUS
  <2>1. g[k] = IF k = 0 THEN {r} ELSE Joined(links, p[k], stops[k - 1], g[k - 1])
    BY <1>6 DEF GroupsOf
  <2>2. k \in 0..m
    BY <1>2, <1>1
  <2> QED BY <2>1, <2>2
<1>8. u = [k \in 0..m |-> IF k = 0 THEN {r} ELSE Joined(links, p[k], stops[k - 1], u[k - 1])]
  <2>1. \A k \in 0..m : k # 0 => g[k - 1] = u[k - 1]
    <3> HIDE DEF u
    <3> QED BY <1>3, <1>7
  <2> QED BY <2>1
<1> HIDE DEF u
<1> QED BY <1>3, <1>8 DEF GroupsOf

Groups(links, t, p, r) == CHOOSE g : GroupsOf(links, Stops(t, p), p, r, Len(p), g)

LEMMA GroupSteps ==
  ASSUME NEW links, NEW t, NEW p, Len(p) \in Nat, NEW r \in RowsOf(links, t)
  PROVE  /\ Traversed(links, t, p)[r] = Groups(links, t, p, r)[Len(p)]
         /\ Groups(links, t, p, r)[0] = {r}
         /\ \A k \in 1..Len(p) :
              Groups(links, t, p, r)[k] = Joined(links, p[k], Stops(t, p)[k - 1], Groups(links, t, p, r)[k - 1])
<1>1. GroupsOf(links, Stops(t, p), p, r, Len(p), Groups(links, t, p, r))
  BY GroupsExist DEF Groups
<1> DEFINE g == Groups(links, t, p, r)
           stops == Stops(t, p)
<1>2. g = [k \in 0..Len(p) |-> IF k = 0 THEN {r} ELSE Joined(links, p[k], stops[k - 1], g[k - 1])]
  BY <1>1 DEF GroupsOf
<1>3. Traversed(links, t, p)[r] = g[Len(p)]
  BY DEF Traversed, Groups, GroupsOf
<1> HIDE DEF g, stops
<1>4. g[0] = {r} /\ \A k \in 1..Len(p) : g[k] = Joined(links, p[k], stops[k - 1], g[k - 1])
  BY <1>2
<1> QED BY <1>3, <1>4 DEF g, stops

(* A path that goes from child to parent throughout.                       *)
Climbs(t, p) == \A k \in 1..Len(p) : Keys[p[k]].child = Stops(t, p)[k - 1]

LEMMA ClimbStops ==
  ASSUME NEW t \in Tables, NEW p \in Seq(DOMAIN Keys), Climbs(t, p)
  PROVE  /\ \A k \in 0..Len(p) : Stops(t, p)[k] \in Tables
         /\ \A k \in 1..Len(p) : /\ p[k] \in DOMAIN Keys
                                 /\ Keys[p[k]].child = Stops(t, p)[k - 1]
                                 /\ Keys[p[k]].parent = Stops(t, p)[k]
<1> DEFINE s == Stops(t, p)
<1>1. Len(p) \in Nat /\ \A k \in 1..Len(p) : p[k] \in DOMAIN Keys
  OBVIOUS
<1>2. s[0] = t /\ \A k \in 1..Len(p) : s[k] = Across(p[k], s[k - 1])
  BY <1>1, StopsSteps
<1>3. \A k \in 1..Len(p) : Keys[p[k]].child = s[k - 1]
  BY DEF Climbs
<1> HIDE DEF s
<1>4. \A k \in 1..Len(p) : s[k] = Keys[p[k]].parent
  BY <1>2, <1>3 DEF Across
<1>5. \A k \in 1..Len(p) : s[k] \in Tables
  BY <1>1, <1>4, KeyTables
<1>6. \A k \in 0..Len(p) : s[k] \in Tables
  BY <1>1, <1>2, <1>5
<1> QED BY <1>1, <1>3, <1>4, <1>6 DEF s

(* On the way up the rank falls with every key.                            *)
LEMMA ClimbFalls ==
  ASSUME NEW t \in Tables, NEW p \in Seq(DOMAIN Keys), Climbs(t, p),
         NEW rank \in [Tables -> Nat], \A i \in DOMAIN Keys : rank[Keys[i].parent] < rank[Keys[i].child]
  PROVE  \A k \in 0..Len(p) : \A j \in 0..k :
           rank[Stops(t, p)[k]] + (k - j) <= rank[Stops(t, p)[j]]
<1> DEFINE s == Stops(t, p)
           n == Len(p)
           Holds(k) == \A j \in 0..k : rank[s[k]] + (k - j) <= rank[s[j]]
           T == {k \in 0..n : ~Holds(k)}
<1>1. n \in Nat
  OBVIOUS
<1>2. /\ \A k \in 0..n : s[k] \in Tables
      /\ \A k \in 1..n : /\ p[k] \in DOMAIN Keys
                          /\ Keys[p[k]].child = s[k - 1] /\ Keys[p[k]].parent = s[k]
  BY ClimbStops
<1>3. \A k \in 1..n : rank[s[k]] < rank[s[k - 1]]
  BY <1>2
<1> HIDE DEF s, n
<1>4. \A k \in 0..n : rank[s[k]] \in Nat
  BY <1>2
<1> SUFFICES ASSUME T # {} PROVE FALSE
  BY DEF s, n
<1>5. T \in SUBSET Nat
  BY <1>1
<1> HIDE DEF T
<1>6. PICK k \in T : \A m \in T : k <= m
  BY <1>5, LeastNatural
<1>7. k \in 0..n /\ ~Holds(k)
  BY <1>6 DEF T
<1>8. k # 0
  BY <1>4, <1>7
<1>9. k \in 1..n /\ k - 1 \in 0..n /\ Holds(k - 1)
  <2>1. k \in 1..n /\ k - 1 \in 0..n /\ ~(k <= k - 1)
    BY <1>1, <1>7, <1>8
  <2>2. k - 1 \notin T
    BY <1>6, <2>1
  <2> HIDE DEF Holds
  <2> QED BY <2>1, <2>2 DEF T
<1>10. PICK j \in 0..k : ~(rank[s[k]] + (k - j) <= rank[s[j]])
  BY <1>7
<1>11. /\ k \in Nat /\ j \in Nat /\ j <= k /\ j \in 0..n
       /\ k - 1 \in Nat
  BY <1>1, <1>7, <1>9, <1>10
<1>12. rank[s[k]] \in Nat /\ rank[s[j]] \in Nat /\ rank[s[k - 1]] \in Nat
  BY <1>4, <1>7, <1>9, <1>11
<1>13. rank[s[k]] < rank[s[k - 1]]
  BY <1>3, <1>9
<1>14. j # k
  <2> SUFFICES ASSUME j = k PROVE FALSE
    OBVIOUS
  <2> QED BY <1>10, <1>11, <1>12
<1>15. rank[s[k - 1]] + ((k - 1) - j) <= rank[s[j]]
  <2>1. j \in 0..(k - 1)
    BY <1>11, <1>14
  <2> QED BY <1>9, <2>1
<1> DEFINE x == rank[s[k]]
           y == rank[s[j]]
           z == rank[s[k - 1]]
<1>16. x \in Nat /\ y \in Nat /\ z \in Nat /\ x < z /\ z + ((k - 1) - j) <= y /\ ~(x + (k - j) <= y)
  BY <1>10, <1>12, <1>13, <1>15
<1> HIDE DEF x, y, z
<1> QED BY <1>11, <1>16

(* A path upward is a route.                                               *)
LEMMA ClimbIsRoute ==
  ASSUME NEW t \in Tables, NEW p \in Seq(DOMAIN Keys), p # << >>, Climbs(t, p)
  PROVE  <<t, p>> \in Routes
<1> DEFINE s == Stops(t, p)
           n == Len(p)
           size == Cardinality(Tables)
<1>1. n \in Nat
  OBVIOUS
<1>2. /\ \A k \in 0..n : s[k] \in Tables
      /\ \A k \in 1..n : /\ p[k] \in DOMAIN Keys
                          /\ Keys[p[k]].child = s[k - 1] /\ Keys[p[k]].parent = s[k]
  BY ClimbStops
<1>3. PICK rank \in [Tables -> 0..(size - 1)] :
        \A i \in DOMAIN Keys : rank[Keys[i].parent] < rank[Keys[i].child]
  BY SchemaAcyclic
<1>4. size \in Nat
  BY SchemaAcyclic, FS_CardinalityType
<1>5. \A k \in 0..n : \A j \in 0..k : rank[s[k]] + (k - j) <= rank[s[j]]
  <2> HIDE DEF size
  <2>1. rank \in [Tables -> Nat]
    BY <1>3, <1>4
  <2> QED BY <1>3, <2>1, ClimbFalls
<1> HIDE DEF s, n, size
<1>6. \A k \in 0..n : rank[s[k]] \in 0..(size - 1)
  BY <1>2, <1>3
<1>7. n <= size - 1
  <2>1. rank[s[n]] \in 0..(size - 1) /\ rank[s[0]] \in 0..(size - 1) /\ rank[s[n]] + (n - 0) <= rank[s[0]]
    BY <1>1, <1>5, <1>6
  <2> QED BY <1>1, <1>4, <2>1
<1>8. \A k \in 1..n : \A j \in 0..(k - 1) : s[j] # s[k]
  <2> SUFFICES ASSUME NEW k \in 1..n, NEW j \in 0..(k - 1) PROVE s[j] # s[k]
    OBVIOUS
  <2>1. k \in 0..n /\ j \in 0..k /\ j \in 0..n /\ k - j > 0
    BY <1>1
  <2>2. rank[s[k]] + (k - j) <= rank[s[j]] /\ rank[s[k]] \in Int
    BY <1>4, <1>5, <1>6, <2>1
  <2> QED BY <2>1, <2>2
<1>9. Simple(t, p)
  <2>1. \A k \in 1..n : s[k - 1] \in {Keys[p[k]].child, Keys[p[k]].parent}
    BY <1>2
  <2> QED BY <1>8, <2>1 DEF Simple, s, n
<1>10. p \in BoundedSeq(DOMAIN Keys, size - 1)
  <2>1. p \in [1..n -> DOMAIN Keys]
    BY <1>1 DEF n
  <2>2. n \in 0..(size - 1)
    BY <1>1, <1>4, <1>7
  <2> QED BY <2>1, <2>2 DEF BoundedSeq, SeqOf
<1> QED BY <1>9, <1>10 DEF Routes, size

(* A foreign key refers to a row.                                          *)
LEMMA ParentRow ==
  ASSUME NEW d, DatabaseWellFormed(d), NEW i \in DOMAIN Keys, NEW r \in RowsOf(d, Keys[i].child),
         d.ref[i][r] # 0
  PROVE  d.ref[i][r] \in RowsOf(d, Keys[i].parent)
<1>1. d.ref[i] \in [RowsOf(d, Keys[i].child) -> 0..d.rows[Keys[i].parent]]
  BY DEF DatabaseWellFormed
<1>2. d.rows[Keys[i].parent] \in Nat
  BY KeyTables DEF DatabaseWellFormed
<1>3. d.ref[i][r] \in 0..d.rows[Keys[i].parent]
  BY <1>1
<1> QED BY <1>2, <1>3 DEF RowsOf

(* A path upward from a parent is one from its child, by one key more.     *)
LEMMA ClimbsOn ==
  ASSUME NEW d, DatabaseWellFormed(d), NEW i \in DOMAIN Keys, NEW r \in RowsOf(d, Keys[i].child),
         d.ref[i][r] # 0, NEW q \in Seq(DOMAIN Keys), Climbs(Keys[i].parent, q)
  PROVE  \E p \in Seq(DOMAIN Keys) :
           /\ p # << >> /\ Climbs(Keys[i].child, p)
           /\ Endpoint(Keys[i].child, p) = Endpoint(Keys[i].parent, q)
           /\ Reached(d, Keys[i].child, p)[r] = Reached(d, Keys[i].parent, q)[d.ref[i][r]]
<1> DEFINE n == Len(q)
           p == [k \in 1..(n + 1) |-> IF k = 1 THEN i ELSE q[k - 1]]
           child == Keys[i].child
           parent == Keys[i].parent
           x == d.ref[i][r]
<1>1. n \in Nat /\ \A k \in 1..n : q[k] \in DOMAIN Keys
  OBVIOUS
<1>2. /\ p \in Seq(DOMAIN Keys) /\ Len(p) = n + 1
      /\ p[1] = i /\ \A k \in 1..n : p[k + 1] = q[k]
  <2>1. \A k \in 1..(n + 1) : k # 1 => k - 1 \in 1..n
    BY <1>1
  <2>2. p \in [1..(n + 1) -> DOMAIN Keys] /\ n + 1 \in Nat
    BY <1>1, <2>1
  <2>3. p[1] = i /\ \A k \in 1..n : p[k + 1] = q[k]
    BY <1>1
  <2> HIDE DEF p
  <2>4. p \in Seq(DOMAIN Keys) /\ Len(p) = n + 1 /\ DOMAIN p = 1..(n + 1)
    BY <2>2, FunctionIsSeq
  <2> QED BY <2>3, <2>4
<1> HIDE DEF p, n
<1> DEFINE s == Stops(child, p)
           u == Stops(parent, q)
<1>3. s[0] = child /\ \A k \in 1..(n + 1) : s[k] = Across(p[k], s[k - 1])
  <2>1. Len(p) \in Nat /\ Len(p) = n + 1
    BY <1>1, <1>2
  <2> HIDE DEF child
  <2>2. /\ DOMAIN Stops(child, p) = 0..Len(p) /\ Stops(child, p)[0] = child
        /\ \A k \in 1..Len(p) : Stops(child, p)[k] = Across(p[k], Stops(child, p)[k - 1])
    BY <2>1, StopsSteps
  <2> QED BY <2>1, <2>2
<1>4. u[0] = parent /\ \A k \in 1..n : u[k] = Across(q[k], u[k - 1])
  BY <1>1, StopsSteps DEF n
<1> HIDE DEF s, u
<1>5. \A k \in 0..n : s[k + 1] = u[k]
  <2> DEFINE v == [k \in 0..n |-> s[k + 1]]
  <2>1. v[0] = u[0]
    <3>1. s[0 + 1] = Across(p[1], s[1 - 1])
      BY <1>1, <1>3
    <3> QED BY <1>1, <1>2, <1>3, <1>4, <3>1 DEF Across
  <2>2. ASSUME NEW k \in 1..n, v[k - 1] = u[k - 1]
        PROVE  v[k] = u[k]
    <3>1. k + 1 \in 1..(n + 1) /\ (k + 1) - 1 = k /\ k - 1 \in 0..n /\ k \in 0..n /\ (k - 1) + 1 = k
      BY <1>1
    <3>2. s[k + 1] = Across(p[k + 1], s[k])
      BY <1>3, <3>1
    <3>3. s[k] = u[k - 1]
      BY <2>2, <3>1
    <3> QED BY <1>2, <1>4, <3>1, <3>2, <3>3
  <2> HIDE DEF v
  <2>4. SameSteps(v, u, n)
    BY <2>1, <2>2 DEF SameSteps
  <2>3. \A k \in 0..n : v[k] = u[k]
    BY <1>1, <2>4, Agree
  <2> QED BY <2>3 DEF v
<1>6. p # << >>
  BY <1>1, <1>2
<1>7. Endpoint(child, p) = Endpoint(parent, q)
  <2>1. s[n + 1] = u[n]
    BY <1>1, <1>5
  <2> QED BY <1>2, <2>1 DEF Endpoint, s, u, n
<1>8. Climbs(child, p)
  <2> SUFFICES ASSUME NEW k \in 1..(n + 1) PROVE Keys[p[k]].child = s[k - 1]
    BY <1>2 DEF Climbs, s
  <2>1. CASE k = 1
    BY <1>2, <1>3, <2>1
  <2>2. CASE k # 1
    <3>1. k - 1 \in 1..n /\ (k - 1) + 1 = k /\ (k - 1) - 1 \in 0..n /\ ((k - 1) - 1) + 1 = k - 1
      BY <1>1, <2>2
    <3>2. Keys[q[k - 1]].child = u[(k - 1) - 1]
      BY <3>1 DEF Climbs, u, n
    <3>3. p[k] = q[k - 1]
      BY <1>2, <3>1
    <3>4. s[k - 1] = u[(k - 1) - 1]
      BY <1>5, <3>1
    <3> QED BY <3>2, <3>3, <3>4
  <2> QED BY <2>1, <2>2
<1>9. r \in RowsOf(Links(d), child) /\ x \in RowsOf(Links(d), parent)
  <2>1. x \in RowsOf(d, parent)
    BY ParentRow
  <2>2. Links(d).rows = d.rows
    BY DEF Links
  <2>3. RowsOf(Links(d), child) = RowsOf(d, child) /\ RowsOf(Links(d), parent) = RowsOf(d, parent)
    BY <2>2 DEF RowsOf
  <2> QED BY <2>1, <2>3
<1> DEFINE links == Links(d)
           g == Groups(links, child, p, r)
           h == Groups(links, parent, q, x)
<1>10. /\ Reached(d, child, p)[r] = g[n + 1] /\ g[0] = {r}
       /\ \A k \in 1..(n + 1) : g[k] = Joined(links, p[k], s[k - 1], g[k - 1])
  <2>1. Len(p) \in Nat
    BY <1>1, <1>2
  <2> HIDE DEF child, x, links
  <2>2. /\ Traversed(links, child, p)[r] = Groups(links, child, p, r)[Len(p)]
        /\ Groups(links, child, p, r)[0] = {r}
        /\ \A k \in 1..Len(p) :
             Groups(links, child, p, r)[k]
               = Joined(links, p[k], Stops(child, p)[k - 1], Groups(links, child, p, r)[k - 1])
    BY <1>9, <2>1, GroupSteps DEF links
  <2>3. Reached(d, child, p)[r] = Traversed(links, child, p)[r]
    BY DEF Reached, links
  <2>4. Len(p) = n + 1
    BY <1>2
  <2> QED BY <2>2, <2>3, <2>4 DEF s
<1>11. /\ Reached(d, parent, q)[x] = h[n] /\ h[0] = {x}
       /\ \A k \in 1..n : h[k] = Joined(links, q[k], u[k - 1], h[k - 1])
  <2> HIDE DEF parent, x
  <2> QED BY <1>1, <1>9, GroupSteps DEF u, n, Reached
<1>12. links.ref[i][r] = x
  BY DEF Links
<1> HIDE DEF g, h, links
<1>13. \A k \in 0..n : g[k + 1] = h[k]
  <2> DEFINE v == [k \in 0..n |-> g[k + 1]]
  <2>1. v[0] = h[0]
    <3>1. g[1] = Joined(links, i, child, {r})
      <4>1. 1 \in 1..(n + 1) /\ 1 - 1 = 0
        BY <1>1
      <4> QED BY <1>2, <1>3, <1>10, <4>1
    <3>2. Joined(links, i, child, {r}) = {links.ref[i][y] : y \in {r}} \ {0}
      BY DEF Joined
    <3>3. {links.ref[i][y] : y \in {r}} \ {0} = {x}
      BY <1>12
    <3>4. v[0] = g[1]
      BY <1>1
    <3> QED BY <1>11, <3>1, <3>2, <3>3, <3>4
  <2>2. ASSUME NEW k \in 1..n, v[k - 1] = h[k - 1]
        PROVE  v[k] = h[k]
    <3>1. k + 1 \in 1..(n + 1) /\ (k + 1) - 1 = k /\ k - 1 \in 0..n /\ k \in 0..n /\ (k - 1) + 1 = k
      BY <1>1
    <3>2. g[k + 1] = Joined(links, p[k + 1], s[k], g[k])
      BY <1>10, <3>1
    <3>3. g[k] = h[k - 1]
      BY <2>2, <3>1
    <3>4. s[k] = u[k - 1]
      <4>1. s[(k - 1) + 1] = u[k - 1]
        BY <1>5, <3>1
      <4> QED BY <3>1, <4>1
    <3>5. p[k + 1] = q[k]
      BY <1>2
    <3>6. v[k] = g[k + 1]
      BY <3>1
    <3> QED BY <1>11, <3>2, <3>3, <3>4, <3>5, <3>6
  <2> HIDE DEF v
  <2>4. SameSteps(v, h, n)
    BY <2>1, <2>2 DEF SameSteps
  <2>3. \A k \in 0..n : v[k] = h[k]
    BY <1>1, <2>4, Agree
  <2> QED BY <2>3 DEF v
<1>14. g[n + 1] = h[n]
  BY <1>1, <1>13
<1> QED BY <1>2, <1>6, <1>7, <1>8, <1>10, <1>11, <1>14

(* The visible rows are closed under foreign keys: this is what the loop   *)
(* of build_task_view ends with.                                           *)
LEMMA ViewIsClosed ==
  ASSUME NEW d, DatabaseWellFormed(d), NEW c, NEW i \in DOMAIN Keys,
         NEW r \in VisibleRows(d, Keys[i].child, c), d.ref[i][r] # 0
  PROVE  d.ref[i][r] \in VisibleRows(d, Keys[i].parent, c)
<1> DEFINE child == Keys[i].child
           parent == Keys[i].parent
           x == d.ref[i][r]
<1>1. child \in Tables /\ parent \in Tables
  BY KeyTables
<1>2. r \in RowsOf(d, child)
  BY DEF VisibleRows, ObservedRows
<1>3. x \in RowsOf(d, parent)
  BY <1>2, ParentRow
<1>4. ASSUME NEW q \in Seq(DOMAIN Keys), Climbs(parent, q), Endpoint(parent, q) \in Timed,
             NEW y \in Reached(d, parent, q)[x]
      PROVE  d.time[Endpoint(parent, q)][y] \in 0..c
  <2>1. PICK p \in Seq(DOMAIN Keys) :
          /\ p # << >> /\ Climbs(child, p)
          /\ Endpoint(child, p) = Endpoint(parent, q)
          /\ Reached(d, child, p)[r] = Reached(d, parent, q)[x]
    BY <1>2, <1>4, ClimbsOn
  <2> HIDE DEF child, parent, x
  <2>2. <<child, p>> \in Routes
    BY <1>1, <2>1, ClimbIsRoute
  <2>3. <<child, p>> \in TimedAncestors
    <3> DEFINE z == <<child, p>>
    <3>1. z[1] = child /\ z[2] = p /\ z = <<z[1], z[2]>>
      OBVIOUS
    <3>2. Endpoint(child, p) \in Timed
      BY <1>4, <2>1
    <3> HIDE DEF z
    <3>3. z \in Routes /\ Climbs(z[1], z[2]) /\ Endpoint(z[1], z[2]) \in Timed
      BY <2>1, <2>2, <3>1, <3>2 DEF z
    <3>4. <<z[1], z[2]>> \in TimedAncestors
      BY <3>3, Zenon DEF TimedAncestors, Climbs
    <3> QED BY <3>1, <3>4 DEF z
  <2>4. \A route \in TimedAncestors : route[1] = child =>
          \A z \in Reached(d, child, route[2])[r] : d.time[Endpoint(child, route[2])][z] \in 0..c
    BY DEF VisibleRows, child
  <2>5. \A z \in Reached(d, child, p)[r] : d.time[Endpoint(child, p)][z] \in 0..c
    <3>1. <<child, p>>[1] = child /\ <<child, p>>[2] = p
      OBVIOUS
    <3> QED BY <2>3, <2>4, <3>1
  <2> QED BY <1>4, <2>1, <2>5
<1>5. x \in ObservedRows(d, parent, c)
  <2> SUFFICES ASSUME parent \in Timed PROVE d.time[parent][x] >= 0 /\ d.time[parent][x] <= c
    BY <1>3 DEF ObservedRows
  <2> DEFINE q == << >>
  <2>1. q \in Seq(DOMAIN Keys) /\ Len(q) = 0
    OBVIOUS
  <2>2. Climbs(parent, q)
    BY <2>1 DEF Climbs
  <2>3. Endpoint(parent, q) = parent
    <3>1. Stops(parent, q)[0] = parent
      BY <2>1, StopsSteps
    <3> QED BY <2>1, <3>1 DEF Endpoint
  <2>4. x \in Reached(d, parent, q)[x]
    <3>1. x \in RowsOf(Links(d), parent)
      BY <1>3 DEF RowsOf, Links
    <3> HIDE DEF q, x, parent
    <3>2. Len(q) \in Nat
      BY <2>1
    <3>3. /\ Traversed(Links(d), parent, q)[x] = Groups(Links(d), parent, q, x)[Len(q)]
          /\ Groups(Links(d), parent, q, x)[0] = {x}
      BY <3>1, <3>2, GroupSteps
    <3> QED BY <2>1, <3>3 DEF Reached
  <2> HIDE DEF q
  <2>5. d.time[parent][x] \in 0..c
    BY <1>4, <2>1, <2>2, <2>3, <2>4
  <2> QED BY <2>5
<1>6. ASSUME NEW route \in TimedAncestors, route[1] = parent, NEW y \in Reached(d, parent, route[2])[x]
      PROVE  d.time[Endpoint(parent, route[2])][y] \in 0..c
  <2>1. PICK z \in Routes : /\ route = <<z[1], z[2]>>
                            /\ Climbs(z[1], z[2])
                            /\ Endpoint(z[1], z[2]) \in Timed
    BY DEF TimedAncestors, Climbs
  <2>2. z[2] \in Seq(DOMAIN Keys)
    BY DEF Routes, BoundedSeq, SeqOf
  <2>3. route[1] = z[1] /\ route[2] = z[2]
    BY <2>1
  <2> HIDE DEF parent
  <2> QED BY <1>4, <1>6, <2>1, <2>2, <2>3
<1> HIDE DEF parent, x
<1> QED BY <1>5, <1>6 DEF VisibleRows, parent, x

(* Climbing from a row leads to rows, and so to times.                     *)
LEMMA ClimbsToRows ==
  ASSUME NEW d, DatabaseWellFormed(d), NEW t \in Tables, NEW p \in Seq(DOMAIN Keys), Climbs(t, p),
         NEW x \in RowsOf(d, t)
  PROVE  Reached(d, t, p)[x] \subseteq RowsOf(d, Endpoint(t, p))
<1> DEFINE s == Stops(t, p)
           n == Len(p)
           links == Links(d)
           g == Groups(links, t, p, x)
           Strays == {k \in 0..n : ~(g[k] \subseteq RowsOf(d, s[k]))}
<1>1. n \in Nat
  OBVIOUS
<1>2. /\ \A k \in 1..n : /\ p[k] \in DOMAIN Keys
                         /\ Keys[p[k]].child = s[k - 1] /\ Keys[p[k]].parent = s[k]
      /\ s[0] = t
  BY <1>1, ClimbStops, StopsSteps
<1>3. x \in RowsOf(links, t)
  BY DEF RowsOf, Links
<1>4. /\ Reached(d, t, p)[x] = g[n] /\ g[0] = {x}
      /\ \A k \in 1..n : g[k] = Joined(links, p[k], s[k - 1], g[k - 1])
  <2> HIDE DEF links
  <2>1. /\ Traversed(links, t, p)[x] = Groups(links, t, p, x)[Len(p)]
        /\ Groups(links, t, p, x)[0] = {x}
        /\ \A k \in 1..Len(p) :
             Groups(links, t, p, x)[k] = Joined(links, p[k], Stops(t, p)[k - 1], Groups(links, t, p, x)[k - 1])
    BY <1>1, <1>3, GroupSteps
  <2>2. Reached(d, t, p)[x] = Traversed(links, t, p)[x]
    BY DEF Reached, links
  <2> QED BY <2>1, <2>2
<1>5. Endpoint(t, p) = s[n]
  BY DEF Endpoint
<1>6. links.ref = d.ref
  BY DEF Links
<1> HIDE DEF s, n, g, links
<1>7. Strays = {}
  <2> SUFFICES ASSUME Strays # {} PROVE FALSE
    OBVIOUS
  <2>1. Strays \in SUBSET Nat
    BY <1>1
  <2> HIDE DEF Strays
  <2>2. PICK k \in Strays : \A m \in Strays : k <= m
    BY <2>1, LeastNatural
  <2>3. k \in 0..n /\ ~(g[k] \subseteq RowsOf(d, s[k]))
    BY <2>2 DEF Strays
  <2>4. k # 0
    BY <1>2, <1>4, <2>3
  <2>5. k \in 1..n /\ k - 1 \in 0..n /\ ~(k <= k - 1)
    BY <1>1, <2>3, <2>4
  <2>6. g[k - 1] \subseteq RowsOf(d, s[k - 1])
    BY <2>2, <2>5 DEF Strays
  <2>7. g[k] = {links.ref[p[k]][r] : r \in g[k - 1]} \ {0}
    BY <1>2, <1>4, <2>5 DEF Joined
  <2>8. ASSUME NEW y \in g[k] PROVE y \in RowsOf(d, s[k])
    <3>1. PICK r \in g[k - 1] : y = d.ref[p[k]][r] /\ y # 0
      BY <1>6, <2>7, <2>8
    <3>2. p[k] \in DOMAIN Keys /\ r \in RowsOf(d, Keys[p[k]].child) /\ Keys[p[k]].parent = s[k]
      BY <1>2, <2>5, <2>6
    <3>3. d.ref[p[k]][r] \in RowsOf(d, Keys[p[k]].parent)
      BY <3>1, <3>2, ParentRow
    <3> QED BY <3>1, <3>2, <3>3
  <2> QED BY <2>3, <2>8
<1> QED BY <1>1, <1>4, <1>5, <1>7

LEMMA AncestorTimes ==
  ASSUME NEW d, DatabaseWellFormed(d), NEW t, NEW x \in RowsOf(d, t),
         NEW route \in TimedAncestors, route[1] = t, NEW y \in Reached(d, t, route[2])[x]
  PROVE  d.time[Endpoint(t, route[2])][y] \in Nat
<1>1. PICK z \in Routes : /\ route = <<z[1], z[2]>>
                          /\ Climbs(z[1], z[2])
                          /\ Endpoint(z[1], z[2]) \in Timed
  BY DEF TimedAncestors, Climbs
<1>2. z[1] \in Tables /\ z[2] \in Seq(DOMAIN Keys)
  BY DEF Routes, BoundedSeq, SeqOf
<1>3. route[1] = z[1] /\ route[2] = z[2]
  BY <1>1
<1>4. t \in Tables /\ route[2] \in Seq(DOMAIN Keys) /\ Climbs(t, route[2]) /\ Endpoint(t, route[2]) \in Timed
  BY <1>1, <1>2, <1>3
<1>5. y \in RowsOf(d, Endpoint(t, route[2]))
  BY <1>4, ClimbsToRows
<1> QED BY <1>4, <1>5 DEF DatabaseWellFormed

(* EligibleRowsOnly, for every task and dataset: every row has a label,    *)
(* and a row that was chosen for its history has one, all of it exported   *)
(* but for what hangs on later rows.                                       *)
THEOREM EligibleRowsOnlyHolds == Spec => []EligibleRowsOnly
<1>1. ASSUME ChainInv, NEW k \in DOMAIN tasks, NEW r \in Rows(tasks[k])
      PROVE  tasks[k].labels[r] >= 0
  <2>1. k \in 1..Len(tasks)
    BY <1>1 DEF ChainInv, StepsInOrder, IsSequence
  <2> QED BY <1>1, <2>1 DEF ChainInv, TasksSound, TaskSound
<1>2. ASSUME ChainInv, NEW k \in DOMAIN tasks, k <= Len(exported),
             tasks[k].plan.mechanism \in HistoryGatedSubmodes, NEW r \in Rows(tasks[k])
      PROVE  LET plan == tasks[k].plan
                 earlier == {e \in RowsOf(db, plan.source) : db.time[plan.source][e] <= plan.cutoff}
             IN /\ \E e \in earlier : db.ref[plan.key][e] = r
                /\ Exported(db, plan, plan.source) = {e \in earlier : ~HangsOnLater(plan, e)}
  <2> DEFINE plan == tasks[k].plan
             time == db.time[plan.source]
  <2>1. k \in 1..Len(exported)
    BY <1>2 DEF ChainInv, StepsInOrder, IsSequence
  <2>2. TaskSound(db, tasks[k]) /\ databases # {}
    BY <1>2, <2>1, Converted
  <2>3. DatabaseWellFormed(db)
    <3>1. db \in request.databases /\ databases = {db} /\ DatabaseWellFormed(db) /\ request \in Requests
      BY <1>2, <2>2, TheDatabase
    <3> QED BY <3>1
  <2>4. EntityPlan(plan) /\ r \in WithHistory(db, plan.key, plan.cutoff)
    BY <1>2, <2>2 DEF TaskSound, PlanSound
  <2> HIDE DEF plan
  <2>5. /\ plan.source = Keys[plan.key].child /\ plan.source \in TimedEvents /\ plan.source \in Timed
        /\ plan.cutoff \in Int /\ plan.rules = plan.cutoff
    BY <2>4 DEF EntityPlan, TimedEvents
  <2>6. PICK e \in RowsOf(db, plan.source) :
          time[e] > -1 /\ time[e] <= plan.cutoff /\ r = db.ref[plan.key][e]
    BY <2>4, <2>5 DEF WithHistory, Active
  <2>7. plan.rules # NoTime /\ plan.cutoff \in Nat /\ \A x \in RowsOf(db, plan.source) : time[x] \in Nat
    <3>1. \A x \in RowsOf(db, plan.source) : time[x] \in Nat
      BY <2>3, <2>5 DEF DatabaseWellFormed
    <3> QED BY <2>5, <2>6, <3>1 DEF NoTime
  <2>8. ObservedRows(db, plan.source, plan.cutoff) = {x \in RowsOf(db, plan.source) : time[x] <= plan.cutoff}
    BY <2>5, <2>7 DEF ObservedRows
  <2>9. ASSUME NEW x \in RowsOf(db, plan.source), NEW route \in TimedAncestors, route[1] = plan.source,
               NEW y \in Reached(db, plan.source, route[2])[x]
        PROVE  (db.time[Endpoint(plan.source, route[2])][y] \in 0..plan.cutoff)
                 <=> ~(db.time[Endpoint(plan.source, route[2])][y] > plan.cutoff)
    <3>1. db.time[Endpoint(plan.source, route[2])][y] \in Nat
      BY <2>3, <2>9, AncestorTimes
    <3> QED BY <2>7, <3>1
  <2>10. VisibleRows(db, plan.source, plan.cutoff) =
           {x \in ObservedRows(db, plan.source, plan.cutoff) : ~HangsOnLater(plan, x)}
    BY <2>8, <2>9 DEF VisibleRows, HangsOnLater
  <2>11. Exported(db, plan, plan.source) = VisibleRows(db, plan.source, plan.cutoff)
    BY <2>5, <2>7 DEF Exported
  <2> QED BY <2>6, <2>8, <2>10, <2>11 DEF plan
<1>3. ChainInv => EligibleRowsOnly
  BY <1>1, <1>2 DEF EligibleRowsOnly, Rows, HistoryGatedSubmodes
<1> QED BY <1>3, ChainSound, PTL

-----------------------------------------------------------------------------
(* A support large enough for a validation split. *)

LEMMA SubsetOfSize ==
  ASSUME NEW D, IsFiniteSet(D), NEW m \in Nat, m <= Cardinality(D)
  PROVE  \E C \in SUBSET D : Cardinality(C) = m
<1> DEFINE T == {k \in m..Cardinality(D) : \E C \in SUBSET D : Cardinality(C) = k}
<1>1. Cardinality(D) \in Nat
  BY FS_CardinalityType
<1>2. T \in SUBSET Nat /\ T # {}
  BY <1>1
<1> HIDE DEF T
<1>3. PICK k \in T : \A j \in T : k <= j
  BY <1>2, LeastNatural
<1>4. k \in m..Cardinality(D)
  BY DEF T
<1>5. PICK C \in SUBSET D : Cardinality(C) = k
  BY DEF T
<1> SUFFICES ASSUME k > m PROVE FALSE
  BY <1>1, <1>4, <1>5
<1>6. IsFiniteSet(C) /\ C # {}
  <2>1. IsFiniteSet(C)
    BY FS_Subset
  <2>2. k # 0
    BY <1>1, <1>4
  <2> QED BY <1>5, <2>1, <2>2, FS_EmptySet
<1>7. PICK x \in C : TRUE
  BY <1>6
<1>8. Cardinality(C \ {x}) = k - 1
  BY <1>5, <1>6, FS_RemoveElement
<1>9. k - 1 \in T
  <2>1. k - 1 \in m..Cardinality(D) /\ C \ {x} \in SUBSET D
    BY <1>1, <1>4
  <2> QED BY <1>8, <2>1 DEF T
<1> QED BY <1>1, <1>3, <1>4, <1>9

LEMMA SubsetBetween ==
  ASSUME NEW B, IsFiniteSet(B), NEW A \in SUBSET B, NEW m \in Nat,
         Cardinality(A) <= m, m <= Cardinality(B)
  PROVE  \E C \in SUBSET B : A \subseteq C /\ Cardinality(C) = m
<1>1. IsFiniteSet(A) /\ Cardinality(A) \in Nat /\ Cardinality(B) \in Nat
  BY FS_Subset, FS_CardinalityType
<1>2. IsFiniteSet(B \ A) /\ Cardinality(B \ A) = Cardinality(B) - Cardinality(A)
  <2>1. B \cap A = A
    OBVIOUS
  <2> QED BY <2>1, FS_Difference
<1>3. PICK C \in SUBSET (B \ A) : Cardinality(C) = m - Cardinality(A)
  <2>1. m - Cardinality(A) \in Nat /\ m - Cardinality(A) <= Cardinality(B \ A)
    BY <1>1, <1>2
  <2> QED BY <1>2, <2>1, SubsetOfSize
<1>4. Cardinality(A \cup C) = m
  <2>1. IsFiniteSet(C)
    BY <1>2, FS_Subset
  <2>2. Cardinality(A \cap C) = 0
    <3>1. A \cap C = {}
      OBVIOUS
    <3> QED BY <3>1, FS_EmptySet
  <2>3. Cardinality(A \cup C) = Cardinality(A) + Cardinality(C) - Cardinality(A \cap C)
    BY <1>1, <2>1, FS_Union
  <2> QED BY <1>1, <1>3, <2>2, <2>3
<1> QED BY <1>3, <1>4

(* No more than `count` numbers of a set have fewer than `count` below.    *)
LEMMA LowestAreFew ==
  ASSUME NEW S, S \subseteq Nat, IsFiniteSet(S), NEW count \in Nat
  PROVE  Cardinality({v \in S : Cardinality({w \in S : w < v}) < count}) <= count
<1> DEFINE Below(v) == {w \in S : w < v}
           low == {v \in S : Cardinality(Below(v)) < count}
           f == [v \in low |-> Cardinality(Below(v))]
<1>1. \A v \in S : IsFiniteSet(Below(v)) /\ Cardinality(Below(v)) \in Nat
  <2> SUFFICES ASSUME NEW v \in S PROVE IsFiniteSet(Below(v)) /\ Cardinality(Below(v)) \in Nat
    OBVIOUS
  <2>1. Below(v) \subseteq S
    OBVIOUS
  <2> QED BY <2>1, FS_Subset, FS_CardinalityType
<1>2. \A v \in S : \A w \in Below(v) : Cardinality(Below(w)) # Cardinality(Below(v))
  <2> SUFFICES ASSUME NEW v \in S, NEW w \in Below(v) PROVE Cardinality(Below(w)) # Cardinality(Below(v))
    OBVIOUS
  <2>5. v \in Nat /\ w \in Nat /\ w \in S /\ w < v /\ \A x \in S : x \in Nat
    OBVIOUS
  <2>1. Below(w) \subseteq Below(v) /\ w \in Below(v) /\ w \notin Below(w) /\ w \in S
    <3>1. ASSUME NEW x \in Below(w) PROVE x \in Below(v)
      <4>1. x \in S /\ x \in Nat /\ x < w
        BY <3>1
      <4>2. x < v
        BY <2>5, <4>1
      <4> QED BY <4>1, <4>2
    <3>2. w \in Below(v) /\ w \notin Below(w)
      BY <2>5
    <3> QED BY <2>5, <3>1, <3>2
  <2> HIDE DEF Below
  <2>2. IsFiniteSet(Below(v)) /\ Below(w) # Below(v)
    BY <1>1, <2>1
  <2>3. Cardinality(Below(w)) < Cardinality(Below(v))
    <3>1. /\ Cardinality(Below(w)) <= Cardinality(Below(v))
          /\ Cardinality(Below(v)) = Cardinality(Below(w)) => Below(v) = Below(w)
      BY <2>1, <2>2, FS_Subset
    <3>2. Cardinality(Below(w)) \in Nat /\ Cardinality(Below(v)) \in Nat
      BY <1>1, <2>1
    <3> QED BY <2>2, <3>1, <3>2
  <2>4. Cardinality(Below(w)) \in Nat /\ Cardinality(Below(v)) \in Nat
    BY <1>1, <2>1
  <2> QED BY <2>3, <2>4
<1>3. \A v, w \in S : v # w => v \in Below(w) \/ w \in Below(v)
  OBVIOUS
<1> SUFFICES ASSUME ~(Cardinality(low) <= count) PROVE FALSE
  OBVIOUS
<1>4. low \subseteq S
  OBVIOUS
<1> HIDE DEF Below
<1>5. f \in [low -> 0..(count - 1)]
  <2>1. \A v \in low : Cardinality(Below(v)) \in Nat /\ Cardinality(Below(v)) < count
    BY <1>1
  <2> HIDE DEF low
  <2>2. \A v \in low : Cardinality(Below(v)) \in 0..(count - 1)
    BY <2>1
  <2> QED BY <2>2
<1>6. \A v \in low : f[v] = Cardinality(Below(v))
  OBVIOUS
<1>7. IsFiniteSet(0..(count - 1)) /\ Cardinality(0..(count - 1)) = count
  <2>1. 0 \in Int /\ count - 1 \in Int /\ (0 > count - 1 <=> count = 0) /\ (count - 1) - 0 + 1 = count
    OBVIOUS
  <2> QED BY <2>1, FS_Interval
<1>8. IsFiniteSet(low) /\ Cardinality(low) \in Nat
  <2> HIDE DEF low
  <2> QED BY <1>4, FS_Subset, FS_CardinalityType
<1> HIDE DEF low, f
<1>9. Cardinality(0..(count - 1)) < Cardinality(low)
  BY <1>7, <1>8
<1>10. PICK x, y \in low : x # y /\ f[x] = f[y]
  BY <1>5, <1>7, <1>8, <1>9, FS_PigeonHole
<1>11. Cardinality(Below(x)) = Cardinality(Below(y))
  BY <1>6, <1>10
<1> QED BY <1>2, <1>3, <1>4, <1>10, <1>11

(* One row of every class: as many rows as there are classes.              *)
LEMMA Keepers ==
  ASSUME NEW labels, NEW rows, IsFiniteSet(rows)
  PROVE  \E K \in SUBSET rows : /\ Cardinality(K) = Cardinality({labels[r] : r \in rows})
                                /\ \A r \in rows : \E k \in K : labels[k] = labels[r]
                                /\ \A k, m \in K : labels[k] = labels[m] => k = m
<1> DEFINE classes == {labels[r] : r \in rows}
           Keeper(v) == CHOOSE r \in rows : labels[r] = v
           K == {r \in rows : r = Keeper(labels[r])}
           f == [k \in K |-> labels[k]]
<1>1. \A r \in rows : Keeper(labels[r]) \in rows /\ labels[Keeper(labels[r])] = labels[r]
  OBVIOUS
<1> HIDE DEF Keeper
<1>2. \A r \in rows : \E k \in K : labels[k] = labels[r]
  <2> SUFFICES ASSUME NEW r \in rows PROVE \E k \in K : labels[k] = labels[r]
    OBVIOUS
  <2> DEFINE k == Keeper(labels[r])
  <2>1. k \in rows /\ labels[k] = labels[r]
    BY <1>1
  <2>2. k = Keeper(labels[k])
    BY <2>1
  <2> HIDE DEF k
  <2> QED BY <2>1, <2>2
<1>3. \A k, m \in K : labels[k] = labels[m] => k = m
  OBVIOUS
<1>4. K \subseteq rows
  OBVIOUS
<1>5. \A v \in classes : \E k \in K : labels[k] = v
  BY <1>2
<1> HIDE DEF K
<1>6. f \in [K -> classes]
  BY <1>4
<1> HIDE DEF classes
<1>7. f \in Surjection(K, classes) /\ f \in Injection(K, classes)
  BY <1>3, <1>5, <1>6 DEF Surjection, Injection, IsInjective
<1>8. IsFiniteSet(K)
  BY <1>4, FS_Subset
<1>9. Cardinality(classes) = Cardinality(K)
  <2> HIDE DEF f
  <2> QED BY <1>7, <1>8, FS_Surjection
<1> QED BY <1>2, <1>3, <1>4, <1>9 DEF classes

(* There is a split wherever there is room for one.                        *)
LEMMA ValidationExists ==
  ASSUME NEW labels, NEW rows, IsFiniteSet(rows), \A r \in rows : labels[r] \in Nat,
         NEW count \in Nat, count <= Cardinality(rows) - Cardinality({labels[r] : r \in rows})
  PROVE  \E chosen : chosen \in ValidationRows(labels, rows, count)
<1> DEFINE classes == {labels[r] : r \in rows}
           shared == {v \in classes : Cardinality(ClassRows(labels, rows, v)) >= 2}
           giving == {v \in shared : Cardinality({w \in shared : w < v}) < count}
<1>1. PICK K \in SUBSET rows : /\ Cardinality(K) = Cardinality(classes)
                               /\ \A r \in rows : \E k \in K : labels[k] = labels[r]
                               /\ \A k, m \in K : labels[k] = labels[m] => k = m
  BY Keepers
<1>2. IsFiniteSet(rows \ K) /\ Cardinality(rows \ K) = Cardinality(rows) - Cardinality(classes)
  <2>1. rows \cap K = K
    OBVIOUS
  <2> HIDE DEF classes
  <2>2. /\ IsFiniteSet(rows \ K)
        /\ Cardinality(rows \ K) = Cardinality(rows) - Cardinality(rows \cap K)
    BY FS_Difference
  <2> QED BY <1>1, <2>1, <2>2
<1>3. classes \subseteq Nat /\ IsFiniteSet(classes)
  <2>1. classes \subseteq Nat
    OBVIOUS
  <2> DEFINE f == [r \in rows |-> labels[r]]
  <2>2. f \in Surjection(rows, classes)
    BY DEF Surjection
  <2> HIDE DEF f, classes
  <2> QED BY <2>1, <2>2, FS_Surjection
<1>4. Cardinality(giving) <= count /\ IsFiniteSet(giving) /\ giving \subseteq shared
  <2>1. shared \subseteq classes
    OBVIOUS
  <2> HIDE DEF shared, classes
  <2>2. shared \subseteq Nat /\ IsFiniteSet(shared)
    BY <1>3, <2>1, FS_Subset
  <2>3. giving \subseteq shared
    OBVIOUS
  <2>4. Cardinality(giving) <= count
    BY <2>2, LowestAreFew
  <2> HIDE DEF giving
  <2> QED BY <2>2, <2>3, <2>4, FS_Subset
<1>5. \A v \in shared : \E r \in rows \ K : labels[r] = v
  <2> SUFFICES ASSUME NEW v \in classes, Cardinality(ClassRows(labels, rows, v)) >= 2
               PROVE  \E r \in rows \ K : labels[r] = v
    OBVIOUS
  <2>1. PICK k \in K : labels[k] = v
    BY <1>1
  <2> SUFFICES ASSUME \A r \in rows \ K : labels[r] # v PROVE FALSE
    OBVIOUS
  <2>2. ClassRows(labels, rows, v) = {k}
    BY <1>1, <2>1 DEF ClassRows
  <2>3. Cardinality({k}) = 1
    BY FS_Singleton
  <2> QED BY <2>2, <2>3
<1> DEFINE Second(v) == CHOOSE r \in rows \ K : labels[r] = v
           A == {Second(v) : v \in giving}
<1>6. \A v \in giving : Second(v) \in rows \ K /\ labels[Second(v)] = v
  <2> HIDE DEF shared
  <2> QED BY <1>4, <1>5
<1> HIDE DEF Second, giving
<1>7. A \subseteq rows \ K /\ Cardinality(A) <= count
  <2>1. A \subseteq rows \ K
    BY <1>6
  <2> DEFINE f == [v \in giving |-> Second(v)]
  <2>2. f \in Surjection(giving, A)
    BY DEF Surjection
  <2> HIDE DEF f, A
  <2>3. Cardinality(A) <= Cardinality(giving) /\ IsFiniteSet(A)
    BY <1>4, <2>2, FS_Surjection
  <2>4. Cardinality(A) \in Nat /\ Cardinality(giving) \in Nat
    BY <1>4, <2>3, FS_CardinalityType
  <2> QED BY <1>4, <2>1, <2>3, <2>4
<1>8. \A v \in giving : \E r \in A : labels[r] = v
  BY <1>6
<1> HIDE DEF A, classes
<1>9. PICK C \in SUBSET (rows \ K) : A \subseteq C /\ Cardinality(C) = count
  <2>1. count <= Cardinality(rows \ K)
    BY <1>2 DEF classes
  <2> QED BY <1>2, <1>7, <2>1, SubsetBetween
<1>10. \A v \in classes : ~(ClassRows(labels, rows, v) \subseteq C)
  <2> SUFFICES ASSUME NEW x \in rows PROVE ~(ClassRows(labels, rows, labels[x]) \subseteq C)
    BY DEF classes
  <2>1. PICK k \in K : labels[k] = labels[x]
    BY <1>1
  <2> QED BY <1>1, <1>9, <2>1 DEF ClassRows
<1>11. \A v \in giving : ClassRows(labels, C, v) # {}
  BY <1>8, <1>9 DEF ClassRows
<1>12. C \in kSubset(count, rows)
  BY <1>9 DEF kSubset
<1> QED BY <1>10, <1>11, <1>12 DEF ValidationRows, classes, giving, shared

(* What makes room for a validation row: a second row of every class in    *)
(* the support, or more rows than there may be classes.                    *)
RoomForValidation == MinClassCount >= 2 \/ MinSupport > MaxOf(2, MaxCategories)

LEMMA SupportHasRoom ==
  ASSUME RoomForValidation, NEW labels, NEW support, IsFiniteSet(support), NEW query,
         SplitKept(labels, support, query), \A r \in support : labels[r] \in 0..TopLabel
  PROVE  Cardinality(support) > Cardinality({labels[r] : r \in support})
<1> DEFINE classes == {labels[r] : r \in support}
<1>1. {MinSupport, MinClassCount, MaxCategories} \subseteq Nat \ {0}
  BY PlannerConfig DEF PlannerConfigAccepted
<1>2. Cardinality(support) \in Nat /\ Cardinality(support) >= MinSupport
  BY FS_CardinalityType DEF SplitKept
<1>3. CASE MinSupport > MaxOf(2, MaxCategories)
  <2>1. classes \subseteq 0..TopLabel
    OBVIOUS
  <2> HIDE DEF classes
  <2>2. TopLabel \in Nat /\ MinSupport > TopLabel + 1
    BY <1>1, <1>3 DEF TopLabel, MaxOf
  <2>3. IsFiniteSet(0..TopLabel) /\ Cardinality(0..TopLabel) = TopLabel + 1
    <3> HIDE DEF TopLabel
    <3>1. 0 \in Int /\ TopLabel \in Int /\ ~(0 > TopLabel) /\ TopLabel - 0 + 1 = TopLabel + 1
      BY <2>2
    <3> QED BY <3>1, FS_Interval
  <2>4. Cardinality(classes) <= TopLabel + 1 /\ Cardinality(classes) \in Nat
    BY <2>1, <2>3, FS_Subset, FS_CardinalityType
  <2> QED BY <1>1, <1>2, <2>2, <2>4 DEF classes
<1>4. CASE MinClassCount >= 2
  <2>1. PICK K \in SUBSET support :
          /\ Cardinality(K) = Cardinality(classes)
          /\ \A r \in support : \E k \in K : labels[k] = labels[r]
          /\ \A k, m \in K : labels[k] = labels[m] => k = m
    BY Keepers
  <2> HIDE DEF classes
  <2>2. support # {}
    BY <1>1, <1>2, FS_EmptySet
  <2>3. K # support
    <3> SUFFICES ASSUME K = support PROVE FALSE
      OBVIOUS
    <3>1. PICK x \in support : TRUE
      BY <2>2
    <3>2. Cardinality(ClassRows(labels, support, labels[x])) >= MinClassCount
      BY <3>1 DEF SplitKept
    <3>3. ClassRows(labels, support, labels[x]) = {x}
      BY <2>1 DEF ClassRows
    <3>4. Cardinality({x}) = 1
      BY FS_Singleton
    <3> QED BY <1>1, <1>4, <3>2, <3>3, <3>4
  <2>4. Cardinality(K) < Cardinality(support)
    <3>1. /\ IsFiniteSet(K) /\ Cardinality(K) <= Cardinality(support)
          /\ Cardinality(support) = Cardinality(K) => support = K
      BY FS_Subset
    <3>2. Cardinality(K) \in Nat
      BY <3>1, FS_CardinalityType
    <3> QED BY <1>2, <2>3, <3>1, <3>2
  <2> QED BY <2>1, <2>4 DEF classes
<1> QED BY <1>3, <1>4 DEF RoomForValidation

(* Where there is room, the support is split.                              *)
LEMMA SupportIsSplit ==
  ASSUME NEW labels, NEW rows, IsFiniteSet(rows), \A r \in rows : labels[r] \in Nat,
         Cardinality(rows) > Cardinality({labels[r] : r \in rows})
  PROVE  SupportSplits(labels, rows) # {}
<1> DEFINE classes == {labels[r] : r \in rows}
           count == ValidationCount(labels, rows)
           free == Cardinality(rows) - Cardinality(classes)
<1>1. IsFiniteSet(classes)
  <2> DEFINE f == [r \in rows |-> labels[r]]
  <2>1. f \in Surjection(rows, classes)
    BY DEF Surjection
  <2> HIDE DEF f, classes
  <2> QED BY <2>1, FS_Surjection
<1>2. Cardinality(classes) \in Nat /\ Cardinality(rows) \in Nat
  <2> HIDE DEF classes
  <2> QED BY <1>1, FS_CardinalityType
<1>3. free \in Nat /\ free >= 1
  <2> HIDE DEF classes
  <2>1. Cardinality(rows) > Cardinality(classes)
    BY DEF classes
  <2> QED BY <1>2, <2>1
<1>4. count \in Nat /\ count >= 1 /\ count <= free
  <2>1. /\ MinValidation \in Nat \ {0}
        /\ ValidationFraction[1] \in Nat /\ ValidationFraction[2] \in Nat /\ ValidationFraction[2] > 0
    BY ExportConfig DEF ConverterAccepted
  <2> DEFINE n == Cardinality(rows)
  <2>2. Round(n * ValidationFraction[1], ValidationFraction[2]) \in Nat
    <3>1. n * ValidationFraction[1] \in Nat
      BY <1>2, <2>1
    <3> HIDE DEF n
    <3> QED BY <2>1, <3>1, RoundNat
  <2>3. count = MinOf(MaxOf(MinValidation, Round(n * ValidationFraction[1], ValidationFraction[2])), free)
    BY DEF ValidationCount
  <2> DEFINE part == Round(n * ValidationFraction[1], ValidationFraction[2])
  <2> HIDE DEF n, free, part, count
  <2>4. count = MinOf(MaxOf(MinValidation, part), free) /\ part \in Nat
    BY <2>2, <2>3 DEF part
  <2> QED BY <1>3, <2>1, <2>4 DEF MinOf, MaxOf
<1> HIDE DEF count
<1>5. PICK chosen : chosen \in ValidationRows(labels, rows, count)
  BY <1>4, ValidationExists
<1>6. ~(count < 1)
  BY <1>4
<1> QED BY <1>5, <1>6 DEF SupportSplits, count

-----------------------------------------------------------------------------
(* What one stage accepts, the next does not refuse. *)

(* A rate that suits the instance stage suits the task stage.              *)
LEMMA ExecutesAgain ==
  ASSUME NEW d, DatabaseWellFormed(d), NEW program, ProgramSound(program),
         Executions(d, program, PositiveRate) # {}
  PROVE  Executions(d, program, <<0, 100>>) # {}
<1> DEFINE plan == ProgramTaskPlan(program)
<1>1. PICK labels \in EntityLabels(d, program) : ProgramTasks(plan, labels, PositiveRate) # {}
  BY DEF Executions
<1> DEFINE rows == Labelled(labels)
           positive == {r \in rows : labels[r] = 1}
<1>2. /\ ~(rows = {} \/ Cardinality(rows) < MinTotalRows \/ ~InRate(labels, PositiveRate))
      /\ StratifiedSplits(labels, rows) # {}
  BY <1>1 DEF ProgramTasks
<1>3. IsFiniteSet(rows)
  <2>1. DOMAIN labels = RowsOf(d, Keys[program.key].parent)
    BY ExecutionLabels
  <2>2. Keys[program.key].parent \in Tables
    BY KeyTables DEF ProgramSound
  <2>3. IsFiniteSet(DOMAIN labels)
    BY <2>1, <2>2, RowsFinite
  <2>4. rows \subseteq DOMAIN labels
    BY DEF Labelled
  <2> QED BY <2>3, <2>4, FS_Subset
<1>4. InRate(labels, <<0, 100>>)
  <2>1. positive \subseteq rows
    OBVIOUS
  <2> HIDE DEF rows, positive
  <2>2. Cardinality(positive) \in Nat /\ Cardinality(rows) \in Nat /\ Cardinality(positive) <= Cardinality(rows)
    BY <1>3, <2>1, FS_Subset, FS_CardinalityType
  <2> DEFINE rate == <<0, 100>>
  <2>3. rate[1] = 0 /\ rate[2] = 100
    OBVIOUS
  <2> HIDE DEF rate
  <2>4. /\ 100 * Cardinality(positive) >= rate[1] * Cardinality(rows)
        /\ 100 * Cardinality(positive) <= rate[2] * Cardinality(rows)
    BY <2>2, <2>3
  <2>5. InRate(labels, rate)
    BY <2>4 DEF InRate, rows, positive
  <2> QED BY <2>5 DEF rate
<1>5. ProgramTasks(plan, labels, <<0, 100>>) # {}
  <2> HIDE DEF plan
  <2>1. PICK s \in StratifiedSplits(labels, rows) : TRUE
    BY <1>2
  <2>2. [plan |-> plan, support |-> s.support, query |-> s.query, labels |-> [r \in rows |-> labels[r]]]
          \in ProgramTasks(plan, labels, <<0, 100>>)
    BY <1>2, <1>4 DEF ProgramTasks
  <2> QED BY <2>2
<1> QED BY <1>5 DEF Executions

(* A stored task can be converted.                                         *)
LEMMA StoredConverts ==
  ASSUME RoomForValidation, NEW d, DatabaseWellFormed(d), NEW task, TaskSound(d, task),
         DataWellFormed(task), TaskValid(d, task)
  PROVE  Conversions(d, task) # {}
<1> DEFINE visible == RowsInView(d, task.plan)
           support == task.support \cap visible
           query == task.query \cap visible
<1>1. support = task.support /\ query = task.query
  <2>1. task.support \cup task.query \subseteq visible
    BY DEF TaskValid
  <2> QED BY <2>1
<1>2. task.support # {} /\ task.query # {}
  BY DEF DataWellFormed
<1>3. IsFiniteSet(task.support)
  <2>1. task.plan.target \in Tables /\ task.support \subseteq RowsOf(d, task.plan.target)
    BY DEF TaskSound, PlanSound, Rows
  <2>2. IsFiniteSet(RowsOf(d, task.plan.target))
    BY <2>1, RowsFinite
  <2> QED BY <2>1, <2>2, FS_Subset
<1>4. /\ \A r \in task.support : task.labels[r] \in 0..TopLabel
      /\ SplitKept(task.labels, task.support, task.query)
  BY DEF TaskSound, Rows
<1>5. \A r \in task.support : task.labels[r] \in Nat
  BY <1>4, TopLabelFacts
<1>6. SupportSplits(task.labels, task.support) # {}
  <2>1. Cardinality(task.support) > Cardinality({task.labels[r] : r \in task.support})
    BY <1>3, <1>4, SupportHasRoom
  <2> QED BY <1>3, <1>5, <2>1, SupportIsSplit
<1>7. PICK s \in SupportSplits(task.labels, task.support) : TRUE
  BY <1>6
<1>8. ~(support = {} \/ query = {}) /\ s \in SupportSplits(task.labels, support)
  BY <1>1, <1>2
<1> HIDE DEF visible, support, query
<1>9. [train |-> s.train, validation |-> s.validation, test |-> query, table |-> visible,
       cutoff |-> [r \in support \cup query |-> ExportedCutoff(d, task.plan, r)]] \in Conversions(d, task)
  BY <1>8 DEF Conversions, visible, support, query
<1> QED BY <1>9

(* A dataset has its rows in the exported table, and no key that dangles.  *)
LEMMA ConvertedValid ==
  ASSUME NEW d, DatabaseWellFormed(d), NEW task, NEW dataset \in Conversions(d, task)
  PROVE  DatasetValid(d, task.plan, dataset)
<1> DEFINE plan == task.plan
           visible == RowsInView(d, task.plan)
           support == task.support \cap visible
           query == task.query \cap visible
<1>1. PICK s \in SupportSplits(task.labels, support) :
        dataset = [train |-> s.train, validation |-> s.validation, test |-> query, table |-> visible,
                   cutoff |-> [r \in support \cup query |-> ExportedCutoff(d, task.plan, r)]]
  BY DEF Conversions
<1>2. dataset.train \cup dataset.validation \cup dataset.test \subseteq dataset.table
  <2>1. support \subseteq visible /\ query \subseteq visible
    OBVIOUS
  <2> HIDE DEF visible, support, query
  <2>2. s.train \subseteq support /\ s.validation \subseteq support
    BY SupportDivides
  <2> QED BY <1>1, <2>1, <2>2
<1>3. ASSUME NEW i \in DOMAIN Keys, NEW r \in Exported(d, plan, Keys[i].child), d.ref[i][r] # 0
      PROVE  d.ref[i][r] \in Exported(d, plan, Keys[i].parent)
  <2>1. CASE plan.rules = NoTime
    <3>1. r \in RowsOf(d, Keys[i].child)
      BY <2>1 DEF Exported
    <3>2. d.ref[i][r] \in RowsOf(d, Keys[i].parent)
      BY <1>3, <3>1, ParentRow
    <3> QED BY <2>1, <3>2 DEF Exported
  <2>2. CASE plan.rules # NoTime
    <3>1. r \in VisibleRows(d, Keys[i].child, plan.rules)
      BY <2>2 DEF Exported
    <3> HIDE DEF plan
    <3>2. d.ref[i][r] \in VisibleRows(d, Keys[i].parent, plan.rules)
      BY <1>3, <3>1, ViewIsClosed
    <3> QED BY <2>2, <3>2 DEF Exported
  <2> QED BY <2>1, <2>2
<1>4. \A i \in DOMAIN Keys :
        {d.ref[i][r] : r \in Exported(d, plan, Keys[i].child)} \subseteq {0} \cup Exported(d, plan, Keys[i].parent)
  <2> HIDE DEF plan
  <2> QED BY <1>3
<1> QED BY <1>2, <1>4 DEF DatasetValid

(* The programs of the database gave tasks when it was materialized.       *)
ProgramsRun == \A k \in DOMAIN programs : Executions(db, programs[k], PositiveRate) # {}

LEMMA MaterializeAgrees ==
  ASSUME ChainInv, Materialize, ProgramsRun, StagesAgree PROVE ProgramsRun' /\ StagesAgree'
<1>1. PICK plans \in IF request.programs = 0 THEN {<< >>}
                     ELSE ProgramPlans(request.calendar, request.programs, request.families) :
        \/ \E d \in request.databases : Executable(d, plans) /\ Accept(d, plans)
        \/ Retry
  BY DEF Materialize
<1>2. CASE Retry
  <2>1. db' = db /\ UNCHANGED programs
    BY <1>2 DEF Retry, db
  <2>2. failure' \in {failure, "instance"}
    BY <1>2 DEF Retry, Fail
  <2> QED BY <2>1, <2>2 DEF ProgramsRun, StagesAgree
<1>3. ASSUME NEW d \in request.databases, Executable(d, plans), Accept(d, plans)
      PROVE  ProgramsRun' /\ StagesAgree'
  <2>1. databases' = {d} /\ programs' = plans /\ failure' = failure
    BY <1>3 DEF Accept
  <2>2. db' = d
    BY <2>1 DEF db
  <2> QED BY <1>3, <2>1, <2>2 DEF Executable, ProgramsRun, StagesAgree
<1> QED BY <1>1, <1>2, <1>3

LEMMA ExecuteAgrees ==
  ASSUME ChainInv, ExecuteProgram, ProgramsRun, StagesAgree PROVE ProgramsRun' /\ StagesAgree'
<1> DEFINE k == Len(tasks) + 1
<1>1. /\ stage = "tasks" /\ Len(tasks) < Len(programs)
      /\ UNCHANGED <<databases, programs>>
  BY DEF ExecuteProgram
<1>2. k \in DOMAIN programs
  BY <1>1 DEF ChainInv, StepsInOrder, IsSequence
<1>3. DatabaseWellFormed(db)
  <2>1. databases # {}
    BY <1>1 DEF ChainInv, DatabaseFixed
  <2>2. db \in request.databases /\ databases = {db} /\ DatabaseWellFormed(db) /\ request \in Requests
    BY <2>1, TheDatabase
  <2> QED BY <2>2
<1>4. Executions(db, programs[k], <<0, 100>>) # {}
  <2>1. ProgramSound(programs[k]) /\ Executions(db, programs[k], PositiveRate) # {}
    BY <1>2 DEF ChainInv, ProgramsSound, ProgramsRun
  <2> HIDE DEF k
  <2> QED BY <1>3, <2>1, ExecutesAgain
<1>5. PICK task : Add(task)
  BY <1>4 DEF ExecuteProgram
<1>6. failure' \in {failure, "plan"}
  BY <1>5 DEF Add, Fail
<1>7. db' = db
  BY <1>1 DEF db
<1> QED BY <1>1, <1>6, <1>7 DEF ProgramsRun, StagesAgree

LEMMA ExportAgrees ==
  ASSUME RoomForValidation, ChainInv, ExportTask, ProgramsRun, StagesAgree
  PROVE  ProgramsRun' /\ StagesAgree'
<1> DEFINE n == Len(exported)
           task == tasks[n + 1]
<1>1. /\ stage = "tasks" /\ stored = Len(tasks) /\ n < stored
      /\ UNCHANGED <<databases, programs>>
  BY DEF ExportTask
<1>2. DatabaseWellFormed(db)
  <2>1. databases # {}
    BY <1>1 DEF ChainInv, DatabaseFixed
  <2>2. db \in request.databases /\ databases = {db} /\ DatabaseWellFormed(db) /\ request \in Requests
    BY <2>1, TheDatabase
  <2> QED BY <2>2
<1>3. TaskSound(db, task) /\ DataWellFormed(task) /\ TaskValid(db, task)
  <2>1. n + 1 \in 1..Len(tasks) /\ n + 1 \in 1..stored
    <3>1. n \in Nat /\ stored \in Nat /\ n < stored /\ stored = Len(tasks)
      BY <1>1 DEF ChainInv, StepsInOrder, IsSequence
    <3> HIDE DEF n
    <3> QED BY <3>1
  <2> HIDE DEF n
  <2> QED BY <2>1 DEF ChainInv, TasksSound, StoredValid
<1> HIDE DEF task
<1>4. Conversions(db, task) # {} /\ \A dataset \in Conversions(db, task) : DatasetValid(db, task.plan, dataset)
  BY <1>2, <1>3, StoredConverts, ConvertedValid
<1>5. failure' = failure
  BY <1>4 DEF ExportTask, task
<1>6. db' = db
  BY <1>1 DEF db
<1> QED BY <1>1, <1>5, <1>6 DEF ProgramsRun, StagesAgree

(* StagesAgree, for every schema, database and request: the task stage     *)
(* never refuses a program that the instance stage executed, a stored task *)
(* has a support large enough for a validation split, and no exported key  *)
(* dangles - if the configuration leaves room for a validation row, which  *)
(* no constructor of the code demands.                                     *)
THEOREM StagesAgreeHolds ==
  ASSUME RoomForValidation
  PROVE  Spec => []StagesAgree
<1>1. Init => ProgramsRun /\ StagesAgree
  <2> SUFFICES ASSUME Init PROVE ProgramsRun /\ StagesAgree
    OBVIOUS
  <2>1. programs = << >> /\ failure = ""
    BY DEF Init
  <2>2. ProgramsRun
    <3>4. << >> \in Seq({}) /\ Len(<< >>) = 0
      OBVIOUS
    <3>1. programs \in Seq({}) /\ Len(programs) = 0
      BY <2>1, <3>4
    <3>2. DOMAIN programs = 1..0
      BY <3>1, LenProperties
    <3>3. DOMAIN programs = {}
      BY <3>2
    <3> QED BY <3>3 DEF ProgramsRun
  <2> QED BY <2>1, <2>2 DEF StagesAgree
<1>2. ProgramsRun /\ StagesAgree /\ ChainInv /\ [Next]_vars => (ProgramsRun /\ StagesAgree)'
  <2> SUFFICES ASSUME ProgramsRun, StagesAgree, ChainInv, [Next]_vars PROVE ProgramsRun' /\ StagesAgree'
    OBVIOUS
  <2>1. ASSUME UNCHANGED <<databases, programs>>, failure' \in {failure, "plan", "count", "validation", "leakage", "h5"}
        PROVE  ProgramsRun' /\ StagesAgree'
    <3>1. db' = db
      BY <2>1 DEF db
    <3> QED BY <2>1, <3>1 DEF ProgramsRun, StagesAgree
  <2>2. CASE PlanTask
    <3>1. UNCHANGED <<databases, programs>>
      BY <2>2 DEF PlanTask
    <3>2. failure' \in {failure, "plan"}
      BY <2>2 DEF PlanTask, Add, Fail
    <3> QED BY <2>1, <3>1, <3>2
  <2>3. CASE TooFewTasks \/ StoreTask \/ PackageTask \/ Finish
    BY <2>1, <2>3 DEF TooFewTasks, StoreTask, PackageTask, Finish, Fail
  <2>4. CASE Ended \/ UNCHANGED vars
    BY <2>1, <2>4 DEF Ended, vars
  <2> QED BY <2>2, <2>3, <2>4, MaterializeAgrees, ExecuteAgrees, ExportAgrees DEF Next
<1> QED BY <1>1, <1>2, ChainSound, PTL DEF Spec

-----------------------------------------------------------------------------
(* Numbers that the builders draw. *)

(* round() keeps the order of hundredths, and of x hundredths up to s      *)
(* hundreds gives at most s.                                               *)
LEMMA RoundInOrder ==
  ASSUME NEW x \in Nat, NEW y \in Nat, x <= y
  PROVE  Round(x, 100) <= Round(y, 100)
<1>1. /\ x \div 100 \in Nat /\ x % 100 \in 0..99 /\ x = 100 * (x \div 100) + (x % 100)
      /\ y \div 100 \in Nat /\ y % 100 \in 0..99 /\ y = 100 * (y \div 100) + (y % 100)
  OBVIOUS
<1>2. x \div 100 <= y \div 100
  BY <1>1
<1>3. CASE x \div 100 = y \div 100
  <2>1. x % 100 <= y % 100
    BY <1>1, <1>3
  <2> QED BY <1>1, <1>3, <2>1 DEF Round
<1>4. CASE x \div 100 < y \div 100
  BY <1>1, <1>4 DEF Round
<1> QED BY <1>1, <1>2, <1>3, <1>4

LEMMA RoundWithin ==
  ASSUME NEW s \in Nat, NEW x \in Nat, x <= 100 * s
  PROVE  Round(x, 100) <= s
<1>1. x \div 100 \in Nat /\ x % 100 \in 0..99 /\ x = 100 * (x \div 100) + (x % 100)
  OBVIOUS
<1>2. x \div 100 <= s
  BY <1>1
<1>3. CASE x \div 100 = s
  BY <1>1, <1>3 DEF Round
<1>4. CASE x \div 100 < s
  BY <1>1, <1>4 DEF Round
<1> QED BY <1>1, <1>2, <1>3, <1>4

(* The first and the last of the times of a table that has any.            *)
LEMMA FirstAndLast ==
  ASSUME NEW d, DatabaseWellFormed(d), NEW t \in Timed, Times(d, t) # {}
  PROVE  /\ Times(d, t) \subseteq Nat
         /\ Min(Times(d, t)) \in Times(d, t) /\ Max(Times(d, t)) \in Times(d, t)
         /\ \A x \in Times(d, t) : Min(Times(d, t)) <= x /\ x <= Max(Times(d, t))
<1> DEFINE n == d.rows[t]
           time == d.time[t]
           T == Times(d, t)
<1>1. n \in Nat /\ time \in [1..n -> Nat] /\ T = {time[r] : r \in 1..n}
  BY TimesOf
<1>2. T \subseteq Nat
  BY <1>1
<1>3. \E x \in T : \A y \in T : x <= y
  <2> HIDE DEF T
  <2> QED BY <1>2, LeastNatural DEF T
<1>4. \E x \in T : \A y \in T : x >= y
  <2> DEFINE Bounds == {b \in Nat : \A r \in 1..n : time[r] <= b}
  <2>1. Bounds # {} /\ Bounds \subseteq Nat
    <3> HIDE DEF n, time
    <3>1. \E b \in Nat : \A r \in 1..n : time[r] <= b
      BY <1>1, TimesBounded
    <3> QED BY <3>1
  <2> HIDE DEF Bounds
  <2>2. PICK b \in Bounds : \A c \in Bounds : b <= c
    BY <2>1, LeastNatural
  <2> USE DEF Bounds
  <2>3. b \in Nat /\ \A r \in 1..n : time[r] <= b
    BY <2>2
  <2>4. PICK x \in T : TRUE
    OBVIOUS
  <2>5. b \in T
    <3> SUFFICES ASSUME b \notin T PROVE FALSE
      OBVIOUS
    <3> HIDE DEF n, time, T
    <3>1. \A r \in 1..n : time[r] \in Nat /\ time[r] < b
      BY <1>1, <2>3
    <3>2. b - 1 \in Nat
      BY <1>1, <2>3, <2>4, <3>1
    <3>3. b - 1 \in Bounds
      BY <3>1, <3>2, <2>3
    <3> HIDE DEF Bounds
    <3>4. b <= b - 1
      BY <2>2, <3>3
    <3> QED BY <2>3, <3>4
  <2> HIDE DEF n, time, T
  <2>6. \A y \in T : b >= y
    BY <1>1, <2>3
  <2> QED BY <2>5, <2>6
<1> HIDE DEF T
<1>5. Min(T) \in T /\ \A y \in T : Min(T) <= y
  BY <1>3 DEF Min
<1>6. Max(T) \in T /\ \A y \in T : Max(T) >= y
  BY <1>4 DEF Max
<1> QED BY <1>2, <1>5, <1>6 DEF T

LEMMA SpanOf ==
  ASSUME NEW d, DatabaseWellFormed(d), NEW t \in Timed, HasSpan(d, t)
  PROVE  /\ Times(d, t) # {} /\ Times(d, t) \subseteq Nat
         /\ Span(d, t) \in Nat /\ Span(d, t) >= 1
         /\ \E a, b \in Times(d, t) : Span(d, t) = b - a
<1>1. Times(d, t) # {}
  <2>1. Cardinality({}) = 0
    BY FS_EmptySet
  <2> QED BY <2>1 DEF HasSpan
<1>2. /\ Times(d, t) \subseteq Nat
      /\ Min(Times(d, t)) \in Times(d, t) /\ Max(Times(d, t)) \in Times(d, t)
      /\ \A x \in Times(d, t) : Min(Times(d, t)) <= x /\ x <= Max(Times(d, t))
  BY <1>1, FirstAndLast
<1> DEFINE a == Min(Times(d, t))
           b == Max(Times(d, t))
           T == Times(d, t)
<1>3. Cardinality(T) >= 2
  BY DEF HasSpan
<1>4. a # b
  <2> SUFFICES ASSUME a = b PROVE FALSE
    OBVIOUS
  <2> HIDE DEF a, b
  <2>1. T = {a}
    BY <1>2 DEF a, b
  <2>2. Cardinality({a}) = 1
    BY FS_Singleton
  <2> HIDE DEF T
  <2> QED BY <1>3, <2>1, <2>2
<1>5. Span(d, t) = b - a
  BY DEF Span
<1> HIDE DEF a, b
<1>6. a \in T /\ b \in T /\ a <= b
  BY <1>2 DEF a, b
<1> QED BY <1>1, <1>2, <1>4, <1>5, <1>6

(* A part of the span, of one tick at least, is no longer than the span.   *)
LEMMA LengthsWithin ==
  ASSUME NEW d, DatabaseWellFormed(d), NEW t \in Timed, HasSpan(d, t),
         NEW percent \in Nat \X Nat, percent[1] <= percent[2], percent[2] < 100
  PROVE  \E low, high \in Nat :
           /\ Lengths(d, t, percent) = low..high
           /\ 1 <= low /\ low <= high /\ high <= Span(d, t)
<1> DEFINE s == Span(d, t)
           p == percent[1]
           q == percent[2]
<1>1. s \in Nat /\ s >= 1
  BY SpanOf
<1>2. p \in Nat /\ q \in Nat /\ p <= q /\ q <= 100
  OBVIOUS
<1>3. Lengths(d, t, percent) = MaxOf(1, Round(s * p, 100))..MaxOf(1, Round(s * q, 100))
  BY DEF Lengths
<1> HIDE DEF s, p, q
<1>4. s * p \in Nat /\ s * q \in Nat /\ s * p <= s * q /\ s * q <= 100 * s
  <2>1. s * p \in Nat /\ s * q \in Nat
    BY <1>1, <1>2
  <2>2. s * (q - p) >= 0 /\ s * (100 - q) >= 0
    BY <1>1, <1>2
  <2>3. s * (q - p) = s * q - s * p /\ s * (100 - q) = 100 * s - s * q
    BY <1>1, <1>2
  <2> QED BY <2>1, <2>2, <2>3, <1>1
<1> DEFINE x == Round(s * p, 100)
           y == Round(s * q, 100)
<1>5. x \in Nat /\ y \in Nat /\ x <= y /\ y <= s
  <2>1. x \in Nat /\ y \in Nat
    BY <1>4, RoundNat
  <2>2. x <= y
    BY <1>4, RoundInOrder
  <2>3. y <= s
    BY <1>1, <1>4, RoundWithin
  <2> QED BY <2>1, <2>2, <2>3
<1> HIDE DEF x, y
<1> DEFINE low == MaxOf(1, x)
           high == MaxOf(1, y)
<1>6. low \in Nat /\ high \in Nat /\ 1 <= low /\ low <= high /\ high <= s
  BY <1>1, <1>5 DEF MaxOf
<1>7. Lengths(d, t, percent) = low..high
  BY <1>3 DEF x, y
<1> HIDE DEF low, high
<1> QED BY <1>6, <1>7 DEF s

LEMMA EndsOfInterval ==
  ASSUME NEW low \in Nat, NEW high \in Nat, low <= high
  PROVE  Min(low..high) = low /\ Max(low..high) = high
<1>1. \E x \in low..high : \A y \in low..high : x <= y
  <2>1. low \in low..high /\ \A y \in low..high : low <= y
    OBVIOUS
  <2> QED BY <2>1
<1>2. \E x \in low..high : \A y \in low..high : x >= y
  <2>1. high \in low..high /\ \A y \in low..high : high >= y
    OBVIOUS
  <2> QED BY <2>1
<1>3. Min(low..high) \in low..high /\ \A y \in low..high : Min(low..high) <= y
  BY <1>1 DEF Min
<1>4. Max(low..high) \in low..high /\ \A y \in low..high : Max(low..high) >= y
  BY <1>2 DEF Max
<1>5. low \in low..high /\ high \in low..high
  OBVIOUS
<1> QED BY <1>3, <1>4, <1>5

-----------------------------------------------------------------------------
(* What a builder leaves for the validator to find. *)

(* Both parts of a split that keeps its classes have all of them.          *)
LEMMA KeptClasses ==
  ASSUME NEW labels, NEW support, NEW query, SplitKept(labels, support, query)
  PROVE  /\ support # {} /\ query # {}
         /\ TwoClasses(labels, support) /\ TwoClasses(labels, query)
<1> DEFINE rows == support \cup query
           Classes(part) == {labels[r] : r \in part}
<1>1. ASSUME NEW part \in {support, query} PROVE Classes(part) = Classes(rows)
  <2>1. \A r \in rows : \E x \in part : labels[x] = labels[r]
    <3> SUFFICES ASSUME NEW r \in rows PROVE \E x \in part : labels[x] = labels[r]
      OBVIOUS
    <3>1. Cardinality(ClassRows(labels, part, labels[r])) >= MinClassCount
      BY DEF SplitKept
    <3>2. MinClassCount \in Nat \ {0}
      BY PlannerConfig DEF PlannerConfigAccepted
    <3>3. ClassRows(labels, part, labels[r]) # {}
      BY <3>1, <3>2, FS_EmptySet
    <3> QED BY <3>3 DEF ClassRows
  <2>2. part \subseteq rows
    OBVIOUS
  <2> HIDE DEF rows
  <2> QED BY <2>1, <2>2
<1>2. Cardinality(Classes(rows)) >= 2
  BY DEF SplitKept
<1>3. ASSUME NEW part \in {support, query} PROVE part # {} /\ TwoClasses(labels, part)
  <2>1. Cardinality(Classes(part)) >= 2
    <3> HIDE DEF Classes
    <3> QED BY <1>1, <1>2
  <2>2. part # {}
    <3> SUFFICES ASSUME part = {} PROVE FALSE
      OBVIOUS
    <3>1. Classes(part) = {}
      OBVIOUS
    <3> HIDE DEF Classes
    <3> QED BY <2>1, <3>1, FS_EmptySet
  <2> QED BY <2>1, <2>2 DEF TwoClasses
<1> QED BY <1>3

(* A window is no longer than the span of some table.                      *)
WindowsFit(d, plan) ==
  \A w \in ToSet(plan.windows) : \E t \in Timed : \E a, b \in Times(d, t) : w \in 0..(b - a)

(* The aggregates of a composite plan, before it is bound to a calendar.   *)
SpecReady(plan) ==
  /\ plan.cutoff # NoTime /\ FutureHidden(plan)
  /\ \A a \in SpecAggregates(plan) :
       /\ Contiguous(plan.target, a.path) /\ Endpoint(plan.target, a.path) \in Timed
       /\ a.operator # "count" => a.column # NoColumn

(* The labels of a plan stand in a column of their own, unless its         *)
(* mechanism takes a feature for its target.                               *)
LabelOrFeature(plan) == plan.mechanism \in ColumnMechanisms \/ plan.column = "__label__"

PlanReady(d, plan) ==
  /\ LabelOrFeature(plan)
  /\ DOMAIN plan = DOMAIN EmptyPlan /\ plan.mechanism \in Mechanisms /\ plan.calendar = << >>
  /\ PlanWellFormed(plan) /\ RoutesValid(plan) /\ WindowsFit(d, plan)
  /\ plan.rowCutoff => plan.target \in Timed
  /\ plan.mechanism \in AttributeMechanisms => plan.column \in Features[plan.target]
  /\ plan.mechanism \in HorizonMechanisms => FutureHidden(plan)
  /\ plan.spec # {} => SpecReady(plan)

(* A task that is valid once it is bound to a calendar of the database.    *)
TaskReady(d, task) ==
  /\ DOMAIN task = {"plan", "support", "query", "labels"}
  /\ PlanReady(d, task.plan) /\ DataWellFormed(task)
  /\ TwoClasses(task.labels, task.support) /\ TwoClasses(task.labels, task.query)
  /\ Rows(task) \subseteq RowsInView(d, task.plan)
  /\ \A r \in Rows(task) : task.labels[r] = MechanismLabels(d, task.plan)[r] /\ task.labels[r] >= 0

(* A split by class of a plan whose labels are those that are replayed.    *)
LEMMA StratifiedReady ==
  ASSUME NEW d, DatabaseWellFormed(d), NEW draft, PlanReady(d, draft.plan), draft.plan.target \in Tables,
         DOMAIN draft.labels = RowsOf(d, draft.plan.target),
         \A r \in Labelled(draft.labels) : draft.labels[r] = MechanismLabels(d, draft.plan)[r],
         NEW task \in Stratified(d, draft), IsTask(task)
  PROVE  TaskReady(d, task)
<1>1. /\ DOMAIN task = {"plan", "support", "query", "labels"}
      /\ task.plan = draft.plan
      /\ Rows(task) = Labelled(draft.labels)
      /\ task.support \cap task.query = {}
      /\ \A r \in Rows(task) : task.labels[r] = draft.labels[r] /\ task.labels[r] >= 0
      /\ Rows(task) \subseteq RowsInView(d, draft.plan)
      /\ [support |-> task.support, query |-> task.query]
            \in StratifiedSplits(draft.labels, Labelled(draft.labels))
  BY StratifiedTask
<1>2. IsFiniteSet(Labelled(draft.labels))
  <2>1. Labelled(draft.labels) \subseteq RowsOf(d, draft.plan.target)
    BY DEF Labelled
  <2> QED BY <2>1, RowsFinite, FS_Subset
<1>3. SplitKept(draft.labels, task.support, task.query)
  <2>1. \A s \in StratifiedSplits(draft.labels, Labelled(draft.labels)) : SplitKept(draft.labels, s.support, s.query)
    BY <1>2, StratifiedKeeps
  <2> QED BY <2>1, <1>1
<1>4. SplitKept(task.labels, task.support, task.query)
  BY <1>1, <1>3, KeptByRows DEF Rows
<1>5. /\ task.support # {} /\ task.query # {}
      /\ TwoClasses(task.labels, task.support) /\ TwoClasses(task.labels, task.query)
  BY <1>4, KeptClasses
<1> QED BY <1>1, <1>5 DEF TaskReady, DataWellFormed

(* A foreign key is a route from either of its ends to the other.          *)
LEMMA KeyRoutes ==
  ASSUME NEW i \in DOMAIN Keys, NEW t \in {Keys[i].child, Keys[i].parent}
  PROVE  Contiguous(t, <<i>>) /\ Endpoint(t, <<i>>) = Across(i, t)
<1> DEFINE p == <<i>>
<1>1. Len(p) = 1 /\ p[1] = i /\ p \in [1..1 -> DOMAIN Keys] /\ p # << >>
  OBVIOUS
<1>2. Stops(t, p)[0] = t /\ Stops(t, p)[1] = Across(i, t)
  <2> HIDE DEF p
  <2>1. /\ DOMAIN Stops(t, p) = 0..Len(p) /\ Stops(t, p)[0] = t
        /\ \A k \in 1..Len(p) : Stops(t, p)[k] = Across(p[k], Stops(t, p)[k - 1])
    <3>1. Len(p) \in Nat
      BY <1>1
    <3> QED BY <3>1, StopsSteps
  <2>2. Stops(t, p)[1] = Across(p[1], Stops(t, p)[1 - 1])
    BY <2>1, <1>1
  <2> QED BY <2>1, <2>2, <1>1
<1>3. Keys[i].child \in Tables /\ Keys[i].parent \in Tables /\ Keys[i].child # Keys[i].parent
  BY KeyTables
<1>4. Across(i, t) # t
  BY <1>3 DEF Across
<1> DEFINE size == Cardinality(Tables)
<1>5. size \in Nat /\ size >= 2
  <2>1. IsFiniteSet(Tables)
    BY SchemaAcyclic
  <2>2. size \in Nat
    BY <2>1, FS_CardinalityType
  <2>3. {Keys[i].child, Keys[i].parent} \subseteq Tables
    BY <1>3
  <2>4. Cardinality({Keys[i].child, Keys[i].parent}) <= size
    BY <2>1, <2>3, FS_Subset
  <2>5. Cardinality({Keys[i].child, Keys[i].parent}) = 2
    <3> DEFINE a == Keys[i].child
               b == Keys[i].parent
    <3>1. a # b
      BY <1>3
    <3> HIDE DEF a, b
    <3>2. Cardinality({a}) = 1 /\ IsFiniteSet({a}) /\ b \notin {a}
      BY <3>1, FS_Singleton
    <3>3. Cardinality({a} \cup {b}) = Cardinality({a}) + 1
      BY <3>2, FS_AddElement
    <3>4. {a, b} = {a} \cup {b}
      OBVIOUS
    <3>5. Cardinality({a, b}) = 2
      BY <3>2, <3>3, <3>4
    <3> QED BY <3>5 DEF a, b
  <2> QED BY <2>2, <2>4, <2>5
<1> HIDE DEF size, p
<1>6. p \in BoundedSeq(DOMAIN Keys, size - 1)
  <2>1. 1 \in 0..(size - 1)
    BY <1>5
  <2> QED BY <1>1, <2>1 DEF BoundedSeq, SeqOf
<1>7. Simple(t, p)
  <2>1. Stops(t, p)[0] \in {Keys[p[1]].child, Keys[p[1]].parent} /\ Stops(t, p)[0] # Stops(t, p)[1]
    BY <1>1, <1>2, <1>4
  <2>2. \A k \in 1..Len(p) : k = 1 /\ \A j \in 0..(k - 1) : j = 0
    BY <1>1
  <2> QED BY <2>1, <2>2 DEF Simple
<1>8. <<t, p>> \in Routes
  BY <1>1, <1>3, <1>6, <1>7 DEF Routes, size
<1>9. Endpoint(t, p) = Across(i, t)
  BY <1>1, <1>2 DEF Endpoint
<1> QED BY <1>8, <1>9 DEF p, Contiguous

LEMMA PathRoutes ==
  ASSUME NEW t, NEW depth, NEW p \in Paths(t, depth)
  PROVE  Contiguous(t, p) /\ p # << >>
<1>1. PICK route \in Routes : route[1] = t /\ p = route[2]
  BY DEF Paths
<1>2. PICK x, q : x \in Tables /\ route = <<x, q>> /\ q # << >>
  BY DEF Routes
<1> QED BY <1>1, <1>2 DEF Contiguous

-----------------------------------------------------------------------------
(* Every task a builder gives is ready. *)

LEMMA NoWindows == ToSet(<< >>) = {}
<1>1. << >> \in Seq({})
  OBVIOUS
<1>2. DOMAIN << >> = 1..0
  BY <1>1, LenProperties
<1> QED BY <1>2 DEF ToSet

(* A plan of a mechanism without a horizon, windows or a specification.    *)
LEMMA SimplePlan ==
  ASSUME NEW d, NEW plan, DOMAIN plan = DOMAIN EmptyPlan, plan.mechanism \in Mechanisms, plan.calendar = << >>,
         plan.spec = {}, plan.windows = << >>, plan.horizon = NoTime,
         plan.rowCutoff => plan.rules # NoTime /\ plan.target \in Timed,
         plan.mechanism \notin HorizonMechanisms,
         plan.mechanism = "interaction_response" => plan.key # 0 /\ plan.rowCutoff /\ plan.from # NoColumn,
         plan.mechanism \notin AttributeMechanisms => plan.paths # {},
         plan.mechanism \in AttributeMechanisms => plan.column \in Features[plan.target],
         RoutesValid(plan), LabelOrFeature(plan)
  PROVE  PlanReady(d, plan)
<1>1. PlanWellFormed(plan)
  BY DEF PlanWellFormed
<1>2. WindowsFit(d, plan)
  BY NoWindows DEF WindowsFit
<1> QED BY <1>1, <1>2 DEF PlanReady

(* A timed table with rows has a last time.                                *)
LEMMA LastTime ==
  ASSUME NEW d, DatabaseWellFormed(d), NEW t \in Timed, RowsOf(d, t) # {}
  PROVE  Max(Times(d, t)) \in Nat /\ Max(Times(d, t)) # NoTime
<1>1. Times(d, t) # {}
  <2>1. /\ Times(d, t) = {d.time[t][r] : r \in 1..d.rows[t]}
        /\ RowsOf(d, t) = 1..d.rows[t]
    BY TimesOf
  <2> QED BY <2>1
<1>2. /\ Times(d, t) \subseteq Nat
      /\ Min(Times(d, t)) \in Times(d, t) /\ Max(Times(d, t)) \in Times(d, t)
      /\ \A x \in Times(d, t) : Min(Times(d, t)) <= x /\ x <= Max(Times(d, t))
  BY <1>1, FirstAndLast
<1>3. Max(Times(d, t)) \in Nat
  BY <1>2
<1> QED BY <1>3 DEF NoTime

(* A built task has rows.                                                  *)
LEMMA HasRows ==
  ASSUME NEW d, NEW draft, NEW rows, DOMAIN draft.labels = rows, NEW task \in Stratified(d, draft), IsTask(task)
  PROVE  rows # {}
<1>1. /\ DOMAIN task = {"plan", "support", "query", "labels"}
      /\ task.plan = draft.plan
      /\ Rows(task) = Labelled(draft.labels)
      /\ task.support \cap task.query = {}
      /\ \A r \in Rows(task) : task.labels[r] = draft.labels[r] /\ task.labels[r] >= 0
      /\ Rows(task) \subseteq RowsInView(d, draft.plan)
      /\ [support |-> task.support, query |-> task.query]
            \in StratifiedSplits(draft.labels, Labelled(draft.labels))
  BY StratifiedTask
<1> QED BY <1>1 DEF Rows, Labelled, IsTask

LEMMA RandomColumnReady ==
  ASSUME NEW d, DatabaseWellFormed(d), NEW c \in RandomColumnCandidates(d),
         NEW task \in RandomColumnTasks(d, c), IsTask(task)
  PROVE  TaskReady(d, task)
<1>1. c.target \in Tables /\ c.columns \subseteq Features[c.target]
  <2>1. PICK t \in Tables : c = [target |-> t, columns |-> Usable(d, t)]
    BY DEF RandomColumnCandidates
  <2> QED BY <2>1 DEF Usable
<1> DEFINE Drafted(column, threshold) ==
             Draft([Plan("random_column", [target |-> c.target, source |-> c.target], << >>)
                      EXCEPT !.column = column, !.threshold = threshold, !.paths = {},
                             !.strategy = "stratified_rows"],
                   Above(d.value[c.target][column], threshold))
<1>2. PICK column \in c.columns : \E threshold \in Values(d, c.target, column) :
        task \in Stratified(d, Drafted(column, threshold))
  <2>1. RandomColumnTasks(d, c) =
          UNION {Stratified(d, Drafted(choice[1], choice[2])) :
                   choice \in UNION {{column} \X Values(d, c.target, column) : column \in c.columns}}
    BY DEF RandomColumnTasks
  <2> HIDE DEF Drafted
  <2> QED BY <2>1
<1>a. PICK threshold \in Values(d, c.target, column) : task \in Stratified(d, Drafted(column, threshold))
  BY <1>2
<1> DEFINE plan == [Plan("random_column", [target |-> c.target, source |-> c.target], << >>)
                      EXCEPT !.column = column, !.threshold = threshold, !.paths = {},
                             !.strategy = "stratified_rows"]
           labels == Above(d.value[c.target][column], threshold)
<1>3. /\ DOMAIN plan = DOMAIN EmptyPlan /\ plan.target = c.target
      /\ plan.mechanism = "random_column" /\ plan.column = column /\ plan.threshold = threshold
      /\ plan.calendar = << >> /\ plan.spec = {} /\ plan.windows = << >> /\ plan.horizon = NoTime
      /\ plan.rowCutoff = FALSE /\ plan.paths = {}
  BY DEF Plan, EmptyPlan
<1>4. DOMAIN labels = RowsOf(d, c.target)
  <2>1. d.value[c.target][column] \in [RowsOf(d, c.target) -> Int]
    BY <1>1 DEF DatabaseWellFormed
  <2> QED BY <2>1 DEF Above
<1>5. task \in Stratified(d, Draft(plan, labels))
  BY <1>a
<1> HIDE DEF plan
<1>6. MechanismLabels(d, plan) = labels
  BY <1>3 DEF MechanismLabels
<1> HIDE DEF labels
<1>7. Draft(plan, labels).plan = plan /\ Draft(plan, labels).labels = labels
  BY DEF Draft
<1>8. PlanReady(d, plan)
  <2>1. RoutesValid(plan)
    BY <1>3 DEF RoutesValid
  <2> QED BY <1>1, <1>3, <2>1, SimplePlan
             DEF Mechanisms, AttributeMechanisms, HorizonMechanisms, ColumnMechanisms, LabelOrFeature
<1> QED BY <1>1, <1>3, <1>4, <1>5, <1>6, <1>7, <1>8, StratifiedReady

(* The labels of one cutoff and horizon are those that are replayed.       *)
LEMMA HorizonReplayed ==
  ASSUME NEW d, NEW plan, plan.mechanism \in EntityMechanisms, plan.semantics = 1
  PROVE  MechanismLabels(d, plan) = HorizonLabels(d, plan.key, plan.mechanism, plan.cutoff, plan.horizon)
<1>1. CASE plan.mechanism = "entity_future_event_existence"
  <2>1. HorizonLabels(d, plan.key, plan.mechanism, plan.cutoff, plan.horizon) =
          FutureExistence(d, plan.key, plan.cutoff, plan.horizon)
    BY <1>1 DEF HorizonLabels
  <2> QED BY <1>1, <2>1, ExistenceLabels
<1>2. CASE plan.mechanism = "history_gated_future_activity"
  BY <1>2 DEF HorizonLabels, MechanismLabels
<1>3. CASE plan.mechanism = "history_gated_future_inactive"
  <2>1. (plan.mechanism = "history_gated_future_active") = FALSE
    BY <1>3
  <2> QED BY <1>3, <2>1 DEF HorizonLabels, MechanismLabels
<1>4. CASE plan.mechanism = "history_gated_future_active"
  <2>1. (plan.mechanism = "history_gated_future_active") = TRUE
    BY <1>4
  <2> QED BY <1>4, <2>1 DEF HorizonLabels, MechanismLabels
<1> QED BY <1>1, <1>2, <1>3, <1>4 DEF EntityMechanisms, HistoryGatedSubmodes

(* A horizon lies after its cutoff.                                        *)
LEMMA HorizonAfter ==
  ASSUME NEW d, DatabaseWellFormed(d), NEW t \in Timed, HasSpan(d, t), NEW cutoff \in Int,
         NEW h \in Horizons(d, t, cutoff)
  PROVE  h \in Int /\ h > cutoff
<1> DEFINE lengths == Lengths(d, t, HorizonPercent)
<1>1. HorizonPercent \in Nat \X Nat /\ HorizonPercent[1] <= HorizonPercent[2] /\ HorizonPercent[2] < 100
  BY PlannerConfig, PlannerFractions DEF PlannerConfigAccepted
<1>2. PICK low \in Nat, high \in Nat : lengths = low..high /\ 1 <= low /\ low <= high
  BY <1>1, LengthsWithin
<1>3. Min(lengths) = low /\ Max(lengths) = high
  BY <1>2, EndsOfInterval
<1> HIDE DEF lengths
<1>4. \E x \in Times(d, t) : h = MinOf(MaxOf(x, cutoff + Min(lengths)), cutoff + Max(lengths))
  BY DEF Horizons, lengths
<1>5. PICK x \in Times(d, t) : h = MinOf(MaxOf(x, cutoff + low), cutoff + high)
  BY <1>3, <1>4
<1>6. x \in Nat
  <2>1. Times(d, t) \subseteq Nat
    BY TimesOf
  <2> QED BY <2>1
<1> QED BY <1>2, <1>5, <1>6 DEF MinOf, MaxOf

(* A cutoff that is drawn from the times of a table is a natural number,   *)
(* no later than the last of them.                                         *)
LEMMA CutoffWithin ==
  ASSUME NEW d, DatabaseWellFormed(d), NEW t \in Timed, HasSpan(d, t), NEW cutoff \in CutoffDraws(d, t)
  PROVE  cutoff \in Nat /\ cutoff # NoTime
<1>1. CutoffQuantiles \in Nat \X Nat /\ CutoffQuantiles[1] < 100 /\ CutoffQuantiles[2] < 100
  BY PlannerConfig, PlannerFractions DEF PlannerConfigAccepted
<1>2. Times(d, t) # {} /\ Times(d, t) \subseteq Nat
  BY SpanOf
<1>3. cutoff \in QuantileDraws(d, t, CutoffQuantiles)
  BY DEF CutoffDraws
<1>4. cutoff \in Int /\ \E a, b \in Times(d, t) : a <= cutoff /\ cutoff <= b
  BY <1>1, <1>2, <1>3, QuantileWithin
<1> QED BY <1>2, <1>4 DEF NoTime

LEMMA EntityHorizonReady ==
  ASSUME NEW d, DatabaseWellFormed(d), NEW c \in FutureEventCandidates(d), NEW mechanism \in EntityMechanisms,
         NEW task \in EntityHorizonTasks(d, c, mechanism), IsTask(task)
  PROVE  TaskReady(d, task)
<1>1. /\ c.key \in DOMAIN Keys /\ c.target = Keys[c.key].parent /\ c.source = Keys[c.key].child
      /\ c.source \in Timed
  BY DEF FutureEventCandidates, TimedEvents
<1> DEFINE Labels(cutoff, h) == HorizonLabels(d, c.key, mechanism, cutoff, h)
           Base(cutoff) == [Plan(mechanism, c, <<c.key>>) EXCEPT !.key = c.key, !.cutoff = cutoff,
                              !.rules = cutoff, !.strategy = "stratified_entities"]
           Chosen(cutoff, h) == ~\E e \in Horizons(d, c.source, cutoff) :
                                    e < h /\ Labels(cutoff, e) = Labels(cutoff, h)
           Drafted(cutoff, h) == Draft([Base(cutoff) EXCEPT !.horizon = h], Labels(cutoff, h))
           At(cutoff) == UNION {Stratified(d, Drafted(cutoff, h)) :
                                  h \in {h \in Horizons(d, c.source, cutoff) : Chosen(cutoff, h)}}
<1>2. HasSpan(d, c.source) /\ \E cutoff \in CutoffDraws(d, c.source) : task \in At(cutoff)
  <2>1. task # NoTask
    BY DEF IsTask, NoTask
  <2>2. EntityHorizonTasks(d, c, mechanism) =
          IF ~HasSpan(d, c.source) THEN {NoTask}
          ELSE UNION {IF Horizons(d, c.source, cutoff) = {} THEN {NoTask} ELSE At(cutoff) :
                        cutoff \in CutoffDraws(d, c.source)}
    BY DEF EntityHorizonTasks
  <2> HIDE DEF At
  <2> QED BY <2>1, <2>2
<1>a. PICK cutoff \in CutoffDraws(d, c.source) : task \in At(cutoff)
  <2> HIDE DEF At
  <2> QED BY <1>2
<1>3. PICK h \in Horizons(d, c.source, cutoff) : task \in Stratified(d, Drafted(cutoff, h))
  <2> HIDE DEF Drafted, Chosen
  <2> QED BY <1>a
<1>4. cutoff \in Nat /\ cutoff # NoTime
  BY <1>1, <1>2, CutoffWithin
<1>5. h \in Int /\ h > cutoff
  <2> HIDE DEF At, Drafted
  <2>1. c.source \in Timed /\ HasSpan(d, c.source) /\ cutoff \in Int
    BY <1>1, <1>2, <1>4
  <2> QED BY <2>1, HorizonAfter
<1> DEFINE plan == [Base(cutoff) EXCEPT !.horizon = h]
<1>6. /\ DOMAIN plan = DOMAIN EmptyPlan /\ plan.mechanism = mechanism
      /\ plan.target = c.target /\ plan.source = c.source /\ plan.key = c.key
      /\ plan.cutoff = cutoff /\ plan.rules = cutoff /\ plan.rowCutoff = FALSE /\ plan.horizon = h
      /\ plan.paths = {<<c.key>>} /\ plan.calendar = << >> /\ plan.spec = {} /\ plan.windows = << >>
      /\ plan.semantics = 1 /\ plan.column = "__label__"
  BY DEF Plan, EmptyPlan
<1>7. Drafted(cutoff, h).plan = plan /\ Drafted(cutoff, h).labels = Labels(cutoff, h)
  BY DEF Draft
<1> HIDE DEF plan, Drafted
<1>8. MechanismLabels(d, plan) = Labels(cutoff, h)
  BY <1>6, HorizonReplayed
<1>9. DOMAIN Labels(cutoff, h) = RowsOf(d, c.target)
  <2>1. /\ DOMAIN HorizonLabels(d, c.key, mechanism, cutoff, h) = RowsOf(d, Keys[c.key].parent)
        /\ mechanism \in HistoryGatedSubmodes =>
              Labelled(HorizonLabels(d, c.key, mechanism, cutoff, h)) \subseteq WithHistory(d, c.key, cutoff)
        /\ \A r \in RowsOf(d, Keys[c.key].parent) :
              HorizonLabels(d, c.key, mechanism, cutoff, h)[r] \in {-1} \cup 0..TopLabel
    BY <1>1, HorizonLabelRows
  <2> QED BY <1>1, <2>1
<1> HIDE DEF Labels
<1>10. PlanReady(d, plan)
  <2>1. mechanism \in HorizonMechanisms /\ mechanism \notin AttributeMechanisms /\ mechanism # "interaction_response"
    BY DEF EntityMechanisms, HistoryGatedSubmodes, HorizonMechanisms, AttributeMechanisms
  <2>2. c.key # 0
    <3>1. Keys \in Seq([child : Tables, parent : Tables])
      BY SchemaWellFormed
    <3>2. DOMAIN Keys = 1..Len(Keys) /\ Len(Keys) \in Nat
      BY <3>1, LenProperties
    <3> QED BY <1>1, <3>2
  <2>3. Contiguous(c.target, <<c.key>>) /\ Endpoint(c.target, <<c.key>>) = c.source
    <3>1. Contiguous(c.target, <<c.key>>) /\ Endpoint(c.target, <<c.key>>) = Across(c.key, c.target)
      BY <1>1, KeyRoutes
    <3>2. Keys[c.key].child \in Tables /\ Keys[c.key].parent \in Tables /\ Keys[c.key].child # Keys[c.key].parent
      BY <1>1, KeyTables
    <3> QED BY <1>1, <3>1, <3>2 DEF Across
  <2>4. RoutesValid(plan)
    BY <1>6, <2>3 DEF RoutesValid
  <2>5. h # NoTime
    BY <1>4, <1>5 DEF NoTime
  <2>6. PlanWellFormed(plan)
    BY <1>4, <1>5, <1>6, <2>1, <2>2, <2>5 DEF PlanWellFormed
  <2>7. WindowsFit(d, plan)
    BY <1>6, NoWindows DEF WindowsFit
  <2> QED BY <1>6, <2>1, <2>4, <2>6, <2>7 DEF PlanReady, FutureHidden, Mechanisms, LabelOrFeature
<1>11. c.target \in Tables
  BY <1>1, KeyTables
<1> QED BY <1>3, <1>6, <1>7, <1>8, <1>9, <1>10, <1>11, StratifiedReady

LEMMA RelationAttributeReady ==
  ASSUME NEW d, DatabaseWellFormed(d), NEW c \in RelationAttributeCandidates(d),
         NEW task \in RelationAttributeTasks(d, c), IsTask(task)
  PROVE  TaskReady(d, task)
<1>1. \E i \in DOMAIN Keys :
        /\ c.target = Keys[i].child /\ c.source = Keys[i].parent /\ c.path = <<i>>
        /\ c.column \in Features[c.target]
        /\ (c.categorical => c.classes > 0)
  <2>1. PICK i \in DOMAIN Keys :
          /\ c.target = Keys[i].child /\ c.source = Keys[i].parent /\ c.path = <<i>>
          /\ c.column \in Features[Keys[i].child]
          /\ c.categorical = (Cardinality(Values(d, Keys[i].child, c.column)) \in 3..MaxCategories)
          /\ c.classes = MinOf(MaxOf(2, Cardinality(Values(d, Keys[i].child, c.column))), MaxCategories)
    BY DEF RelationAttributeCandidates
  <2>2. PICK n :
          /\ c.categorical = (n \in 3..MaxCategories)
          /\ c.classes = MinOf(MaxOf(2, n), MaxCategories)
    BY <2>1
  <2>3. MaxCategories \in Nat \ {0}
    BY PlannerConfig DEF PlannerConfigAccepted
  <2>4. n \in 3..MaxCategories => MinOf(MaxOf(2, n), MaxCategories) > 0
    BY <2>3 DEF MinOf, MaxOf
  <2> QED BY <2>1, <2>2, <2>4
<1>2. PICK i \in DOMAIN Keys :
        /\ c.target = Keys[i].child /\ c.source = Keys[i].parent /\ c.path = <<i>>
        /\ c.column \in Features[c.target]
        /\ (c.categorical => c.classes > 0)
  BY <1>1
<1>3. c.target \in Tables
  BY <1>2, KeyTables
<1> DEFINE scores == PathSourceScores(d, c.target, c.path, c.source, c.from)
           rows == RowsOf(d, c.target)
           timed == c.target \in Timed
           last == Max(Times(d, c.target))
           base == [Plan("relation_attribute", c, c.path) EXCEPT !.column = c.column, !.from = c.from,
                      !.strategy = IF timed THEN "temporal_rows" ELSE "stratified_rows",
                      !.cutoff = IF timed THEN last ELSE NoTime, !.rules = IF timed THEN last ELSE NoTime]
           drafts == IF c.categorical
                     THEN {Draft([base EXCEPT !.classes = c.classes], CategoricalQuantiles(scores, c.classes))}
                     ELSE {Draft([base EXCEPT !.threshold = q], Above(scores, q)) : q \in ThresholdDraws(scores)}
           Splits(labels) == IF timed THEN TemporalSplits(labels, rows, d.time[c.target])
                             ELSE StratifiedSplits(labels, rows)
<1>4. PICK draft \in drafts : task \in TasksOf(d, draft, Splits(draft.labels))
  BY DEF RelationAttributeTasks
<1>5. DOMAIN scores = rows /\ IsFiniteSet(rows) /\ rows \subseteq Nat
  BY <1>3, RowsFinite DEF PathSourceScores
<1> DEFINE plan == draft.plan
<1>6. /\ DOMAIN plan = DOMAIN EmptyPlan /\ plan.mechanism = "relation_attribute"
      /\ plan.target = c.target /\ plan.source = c.source /\ plan.column = c.column /\ plan.from = c.from
      /\ plan.paths = {c.path} /\ plan.calendar = << >> /\ plan.spec = {} /\ plan.windows = << >>
      /\ plan.horizon = NoTime /\ plan.rowCutoff = FALSE
  <2>1. /\ DOMAIN base = DOMAIN EmptyPlan /\ base.mechanism = "relation_attribute"
        /\ base.target = c.target /\ base.source = c.source /\ base.column = c.column /\ base.from = c.from
        /\ base.paths = {c.path} /\ base.calendar = << >> /\ base.spec = {} /\ base.windows = << >>
        /\ base.horizon = NoTime /\ base.rowCutoff = FALSE
    BY DEF Plan, EmptyPlan
  <2>2. (\E q : plan = [base EXCEPT !.threshold = q]) \/ plan = [base EXCEPT !.classes = c.classes]
    <3> HIDE DEF base, scores
    <3>1. CASE c.categorical
      <4>1. draft = Draft([base EXCEPT !.classes = c.classes], CategoricalQuantiles(scores, c.classes))
        BY <3>1
      <4> QED BY <4>1 DEF Draft
    <3>2. CASE ~c.categorical
      <4>1. PICK q : draft = Draft([base EXCEPT !.threshold = q], Above(scores, q))
        BY <3>2
      <4> QED BY <4>1 DEF Draft
    <3> QED BY <3>1, <3>2
  <2> HIDE DEF base, timed, plan
  <2> QED BY <2>1, <2>2 DEF EmptyPlan
<1>7. MechanismLabels(d, plan) = draft.labels
  <2>1. base.classes = 0 /\ DOMAIN base = DOMAIN EmptyPlan
    BY DEF Plan, EmptyPlan
  <2>2. MechanismLabels(d, plan) = IF plan.classes > 0 THEN CategoricalQuantiles(scores, plan.classes)
                                   ELSE Above(scores, plan.threshold)
    <3>1. (CHOOSE p \in plan.paths : TRUE) = c.path
      BY <1>6
    <3> HIDE DEF plan, drafts
    <3> QED BY <1>6, <3>1 DEF MechanismLabels
  <2> HIDE DEF base, scores
  <2>3. CASE c.categorical
    <3>1. draft = Draft([base EXCEPT !.classes = c.classes], CategoricalQuantiles(scores, c.classes))
      BY <2>3
    <3>2. plan = [base EXCEPT !.classes = c.classes] /\ draft.labels = CategoricalQuantiles(scores, c.classes)
      BY <3>1 DEF Draft
    <3>3. plan.classes = c.classes
      BY <3>2, <2>1 DEF EmptyPlan
    <3> HIDE DEF plan, drafts
    <3> QED BY <3>2, <3>3, <2>2, <2>3, <1>2
  <2>4. CASE ~c.categorical
    <3>1. PICK q : draft = Draft([base EXCEPT !.threshold = q], Above(scores, q))
      BY <2>4
    <3>2. plan = [base EXCEPT !.threshold = q] /\ draft.labels = Above(scores, q)
      BY <3>1 DEF Draft
    <3>3. plan.classes = 0 /\ plan.threshold = q
      BY <3>2, <2>1 DEF EmptyPlan
    <3> HIDE DEF plan, drafts
    <3> QED BY <3>2, <3>3, <2>2
  <2> QED BY <2>3, <2>4
<1>8. DOMAIN draft.labels = rows
  <2>1. DOMAIN CategoricalQuantiles(scores, c.classes) = rows /\ \A q : DOMAIN Above(scores, q) = rows
    <3> HIDE DEF scores, rows
    <3> QED BY <1>5 DEF CategoricalQuantiles, Above
  <2> HIDE DEF base, scores, rows
  <2> QED BY <2>1 DEF Draft
<1> HIDE DEF drafts, base, scores
<1>9. PICK s \in Splits(draft.labels) :
        /\ task = [plan |-> draft.plan, support |-> s.support, query |-> s.query,
                   labels |-> [r \in s.support \cup s.query |-> draft.labels[r]]]
        /\ s.support \cup s.query \subseteq RowsInView(d, draft.plan)
  <2> HIDE DEF Splits
  <2> QED BY <1>4, TaskFromSplit
<1>10. /\ s.support \subseteq rows /\ s.query = rows \ s.support
       /\ SplitKept(draft.labels, s.support, s.query)
  <2> DEFINE labels == draft.labels
             time == d.time[c.target]
  <2>1. CASE timed
    <3>1. time \in [rows -> Nat]
      BY <2>1 DEF DatabaseWellFormed
    <3>2. s \in TemporalSplits(labels, rows, time)
      BY <2>1
    <3>5. rows \subseteq Nat /\ IsFiniteSet(rows)
      BY <1>5
    <3> HIDE DEF rows, labels, time, timed, Splits
    <3>3. /\ s.support \subseteq rows /\ s.query = rows \ s.support
          /\ \A x \in s.support, q \in s.query : time[x] <= time[q]
      BY <3>5, <3>1, <3>2, TemporalDivides
    <3>4. SplitKept(labels, s.support, s.query)
      BY <1>5, <3>1, <3>2, TemporalKeeps
    <3> QED BY <3>3, <3>4 DEF labels
  <2>2. CASE ~timed
    <3>1. s \in StratifiedSplits(labels, rows)
      BY <2>2
    <3> HIDE DEF rows, labels, timed
    <3>2. s.support \subseteq rows /\ s.query = rows \ s.support
      BY <3>1, StratifiedDivides
    <3>3. SplitKept(labels, s.support, s.query)
      BY <1>5, <3>1, StratifiedKeeps
    <3> QED BY <3>2, <3>3 DEF labels
  <2> QED BY <2>1, <2>2
<1> HIDE DEF Splits
<1>11. PlanReady(d, plan)
  <2> HIDE DEF plan
  <2>1. Contiguous(c.target, c.path) /\ Endpoint(c.target, c.path) = c.source
    <3>1. Contiguous(c.target, <<i>>) /\ Endpoint(c.target, <<i>>) = Across(i, c.target)
      BY <1>2, KeyRoutes
    <3> QED BY <1>2, <3>1 DEF Across
  <2>2. RoutesValid(plan)
    BY <1>6, <2>1 DEF RoutesValid
  <2> QED BY <1>2, <1>6, <2>2, SimplePlan
             DEF Mechanisms, AttributeMechanisms, HorizonMechanisms, ColumnMechanisms, LabelOrFeature
<1>12. /\ task.plan = plan /\ task.support = s.support /\ task.query = s.query
       /\ DOMAIN task = {"plan", "support", "query", "labels"}
       /\ \A r \in s.support \cup s.query : task.labels[r] = draft.labels[r]
  BY <1>9
<1>13. Rows(task) = rows
  BY <1>10, <1>12 DEF Rows
<1>14. SplitKept(task.labels, task.support, task.query)
  BY <1>10, <1>12, KeptByRows
<1>15. /\ task.support # {} /\ task.query # {}
       /\ TwoClasses(task.labels, task.support) /\ TwoClasses(task.labels, task.query)
  BY <1>14, KeptClasses
<1>16. DataWellFormed(task)
  BY <1>10, <1>12, <1>15 DEF DataWellFormed
<1>17. \A r \in Rows(task) : task.labels[r] >= 0
  <2>1. TaskSound(d, task)
    BY RelationAttributeSound
  <2>2. \A r \in Rows(task) : task.labels[r] \in 0..TopLabel
    BY <2>1 DEF TaskSound
  <2> QED BY <2>2
<1> HIDE DEF plan, rows
<1>18. Rows(task) \subseteq RowsInView(d, task.plan)
  BY <1>9, <1>12 DEF Rows, plan
<1>19. \A r \in Rows(task) : task.labels[r] = MechanismLabels(d, task.plan)[r]
  BY <1>7, <1>12 DEF Rows
<1> QED BY <1>11, <1>12, <1>15, <1>16, <1>17, <1>18, <1>19 DEF TaskReady

(* The labels of a copy of the parent's value above a threshold.           *)
LEMMA FutureAttributeReady ==
  ASSUME NEW d, DatabaseWellFormed(d), NEW c \in FutureEventAttributeCandidates(d),
         NEW task \in FutureAttributeTasks(d, c), IsTask(task)
  PROVE  TaskReady(d, task)
<1>1. /\ c.key \in DOMAIN Keys /\ c.target = Keys[c.key].child /\ c.source = Keys[c.key].parent
      /\ c.target \in Timed /\ c.target \in Tables
  <2>1. /\ c.key \in DOMAIN Keys /\ c.target = Keys[c.key].child /\ c.source = Keys[c.key].parent
        /\ c.target \in Timed
    BY DEF FutureEventAttributeCandidates, TimedEvents
  <2> QED BY <2>1, KeyTables
<1> DEFINE scores == PathSourceScores(d, c.target, <<c.key>>, c.source, c.from)
           base == [Plan("future_event_attribute_condition", c, <<c.key>>) EXCEPT !.column = c.column,
                      !.from = c.from, !.rowCutoff = TRUE, !.rules = Max(Times(d, c.target)),
                      !.strategy = "stratified_event_rows"]
<1>2. PICK q : task \in Stratified(d, Draft([base EXCEPT !.threshold = q], Above(scores, q)))
  BY DEF FutureAttributeTasks
<1> DEFINE plan == [base EXCEPT !.threshold = q]
           labels == Above(scores, q)
           draft == Draft(plan, labels)
<1>3. /\ DOMAIN plan = DOMAIN EmptyPlan /\ plan.mechanism = "future_event_attribute_condition"
      /\ plan.target = c.target /\ plan.source = c.source /\ plan.from = c.from /\ plan.paths = {<<c.key>>}
      /\ plan.calendar = << >> /\ plan.spec = {} /\ plan.windows = << >> /\ plan.horizon = NoTime
      /\ plan.rowCutoff = TRUE /\ plan.rules = Max(Times(d, c.target))
      /\ plan.classes = 0 /\ plan.threshold = q
  BY DEF Plan, EmptyPlan
<1>4. DOMAIN labels = RowsOf(d, c.target)
  BY DEF Above, PathSourceScores
<1>5. draft.plan = plan /\ draft.labels = labels
  BY DEF Draft
<1>6. task \in Stratified(d, draft)
  BY <1>2
<1> HIDE DEF plan
<1>7. MechanismLabels(d, plan) = labels
  <2>1. (CHOOSE p \in plan.paths : TRUE) = <<c.key>>
    BY <1>3
  <2> QED BY <1>3, <2>1 DEF MechanismLabels
<1> HIDE DEF labels, draft
<1>8. RowsOf(d, c.target) # {}
  BY <1>4, <1>5, <1>6, HasRows
<1>9. PlanReady(d, plan)
  <2>1. Contiguous(c.target, <<c.key>>) /\ Endpoint(c.target, <<c.key>>) = c.source
    <3>1. Contiguous(c.target, <<c.key>>) /\ Endpoint(c.target, <<c.key>>) = Across(c.key, c.target)
      BY <1>1, KeyRoutes
    <3> QED BY <1>1, <3>1 DEF Across
  <2>2. RoutesValid(plan)
    BY <1>3, <2>1 DEF RoutesValid
  <2>3. plan.rules # NoTime
    BY <1>1, <1>3, <1>8, LastTime
  <2>4. plan.paths # {}
    BY <1>3
  <2> QED BY <1>1, <1>3, <2>2, <2>3, <2>4, SimplePlan
             DEF Mechanisms, AttributeMechanisms, HorizonMechanisms, ColumnMechanisms, LabelOrFeature
<1> QED BY <1>1, <1>3, <1>4, <1>5, <1>6, <1>7, <1>9, StratifiedReady

LEMMA InteractionReady ==
  ASSUME NEW d, DatabaseWellFormed(d), NEW c \in InteractionCandidates(d),
         NEW task \in InteractionTasks(d, c), IsTask(task)
  PROVE  TaskReady(d, task)
<1>1. /\ c.key \in DOMAIN Keys /\ c.target = Keys[c.key].child /\ c.source = Keys[c.key].parent
      /\ c.target \in Timed /\ c.from \in Features[c.source] /\ c.target \in Tables /\ c.source \in Tables
  <2>1. /\ c.key \in DOMAIN Keys /\ c.target = Keys[c.key].child /\ c.source = Keys[c.key].parent
        /\ c.target \in Timed /\ c.from \in Usable(d, c.source)
    BY DEF InteractionCandidates, TimedEvents
  <2> QED BY <2>1, KeyTables DEF Usable
<1> DEFINE base == [Plan("interaction_response", c, <<c.key>>) EXCEPT !.from = c.from, !.key = c.key,
                      !.item = c.item, !.rowCutoff = TRUE, !.rules = Max(Times(d, c.target)),
                      !.strategy = "stratified_rows"]
           passes == InteractionPasses(d, c.key)
           Drafted(s) == Draft([base EXCEPT !.passes = s, !.retries = Len(s) - 1], s[Len(s)])
<1>2. HasSpan(d, c.target) /\ \E s \in PassSequences(passes) : task \in Stratified(d, Drafted(s))
  <2>1. task # NoTask
    BY DEF IsTask, NoTask
  <2>2. InteractionTasks(d, c) =
          IF ~HasSpan(d, c.target) \/ InteractionGated(d, c.key) = {} THEN {NoTask}
          ELSE UNION {Stratified(d, Drafted(s)) : s \in PassSequences(passes)}
    BY DEF InteractionTasks
  <2> HIDE DEF Drafted, passes
  <2> QED BY <2>1, <2>2
<1>a. PICK s \in PassSequences(passes) : task \in Stratified(d, Drafted(s))
  BY <1>2
<1>3. Len(s) \in Nat /\ s[Len(s)] \in passes
  BY LastPass
<1>4. DOMAIN (s[Len(s)]) = RowsOf(d, c.target)
  BY <1>1, <1>3 DEF InteractionPasses
<1> DEFINE plan == [base EXCEPT !.passes = s, !.retries = Len(s) - 1]
           draft == Drafted(s)
<1>5. /\ DOMAIN plan = DOMAIN EmptyPlan /\ plan.mechanism = "interaction_response"
      /\ plan.target = c.target /\ plan.source = c.source /\ plan.from = c.from /\ plan.paths = {<<c.key>>}
      /\ plan.calendar = << >> /\ plan.spec = {} /\ plan.windows = << >> /\ plan.horizon = NoTime
      /\ plan.rowCutoff = TRUE /\ plan.rules = Max(Times(d, c.target)) /\ plan.key = c.key
      /\ plan.passes = s /\ plan.retries = Len(s) - 1 /\ plan.column = "__label__"
  BY DEF Plan, EmptyPlan
<1>6. draft.plan = plan /\ draft.labels = s[Len(s)]
  BY DEF Draft
<1> HIDE DEF plan, Drafted, passes
<1>7. MechanismLabels(d, plan) = s[Len(s)]
  <2>1. MechanismLabels(d, plan) = s[plan.retries + 1]
    BY <1>5 DEF MechanismLabels, Replayed
  <2>2. plan.retries + 1 = Len(s)
    BY <1>3, <1>5
  <2> QED BY <2>1, <2>2
<1>8. PlanReady(d, plan)
  <2>1. Contiguous(c.target, <<c.key>>) /\ Endpoint(c.target, <<c.key>>) = c.source
    <3>1. Contiguous(c.target, <<c.key>>) /\ Endpoint(c.target, <<c.key>>) = Across(c.key, c.target)
      BY <1>1, KeyRoutes
    <3> QED BY <1>1, <3>1 DEF Across
  <2>2. RoutesValid(plan)
    BY <1>5, <2>1 DEF RoutesValid
  <2>3. plan.rules # NoTime
    <3>1. Times(d, c.target) # {}
      BY <1>1, <1>2, SpanOf
    <3>2. RowsOf(d, c.target) # {}
      <4>1. /\ Times(d, c.target) = {d.time[c.target][r] : r \in 1..d.rows[c.target]}
            /\ RowsOf(d, c.target) = 1..d.rows[c.target]
        BY <1>1, TimesOf
      <4> QED BY <3>1, <4>1
    <3> QED BY <1>1, <1>5, <3>2, LastTime
  <2>4. c.key # 0
    <3>1. Keys \in Seq([child : Tables, parent : Tables])
      BY SchemaWellFormed
    <3>2. DOMAIN Keys = 1..Len(Keys) /\ Len(Keys) \in Nat
      BY <3>1, LenProperties
    <3> QED BY <1>1, <3>2
  <2>5. c.from # NoColumn
    BY <1>1, ColumnsNamed
  <2>6. plan.paths # {}
    BY <1>5
  <2> QED BY <1>1, <1>5, <2>2, <2>3, <2>4, <2>5, <2>6, SimplePlan
             DEF Mechanisms, AttributeMechanisms, HorizonMechanisms, LabelOrFeature
<1> HIDE DEF draft
<1>9. task \in Stratified(d, draft)
  BY <1>a DEF draft
<1> QED BY <1>1, <1>4, <1>5, <1>6, <1>7, <1>8, <1>9, StratifiedReady

(* A split by class needs two labels.                                      *)
LEMMA TwoLabels ==
  ASSUME NEW d, NEW draft, NEW task \in Stratified(d, draft), IsTask(task)
  PROVE  \E x, y \in DOMAIN draft.labels : draft.labels[x] # draft.labels[y]
<1> DEFINE labels == draft.labels
           rows == Labelled(labels)
           classes == {labels[r] : r \in rows}
<1>1. \E s : s \in StratifiedSplits(draft.labels, Labelled(draft.labels))
  <2>1. /\ DOMAIN task = {"plan", "support", "query", "labels"}
        /\ task.plan = draft.plan
        /\ Rows(task) = Labelled(draft.labels)
        /\ task.support \cap task.query = {}
        /\ \A r \in Rows(task) : task.labels[r] = draft.labels[r] /\ task.labels[r] >= 0
        /\ Rows(task) \subseteq RowsInView(d, draft.plan)
        /\ [support |-> task.support, query |-> task.query]
              \in StratifiedSplits(draft.labels, Labelled(draft.labels))
    BY StratifiedTask
  <2> QED BY <2>1
<1>2. Cardinality(classes) >= 2
  <2> HIDE DEF labels, rows
  <2>1. EnoughPerClass(labels, rows)
    BY <1>1 DEF StratifiedSplits, labels, rows
  <2> QED BY <2>1 DEF EnoughPerClass
<1>3. rows \subseteq DOMAIN labels
  BY DEF Labelled
<1> HIDE DEF labels, rows
<1>4. SUFFICES ASSUME \A x, y \in rows : labels[x] = labels[y] PROVE FALSE
  BY <1>3 DEF labels
<1>5. classes = {} \/ \E v : classes = {v}
  <2>1. CASE rows = {}
    BY <2>1
  <2>2. CASE rows # {}
    <3>1. PICK x \in rows : TRUE
      BY <2>2
    <3>2. classes = {labels[x]}
      BY <1>4
    <3> QED BY <3>2
  <2> QED BY <2>1, <2>2
<1> HIDE DEF classes
<1>6. Cardinality({}) = 0 /\ \A v : Cardinality({v}) = 1
  BY FS_EmptySet, FS_Singleton
<1> QED BY <1>2, <1>5, <1>6

(* After the last event of the source all rows have the same aggregate.    *)
LEMMA NothingLater ==
  ASSUME NEW d, DatabaseWellFormed(d), NEW c, c.source \in Timed, NEW cutoff \in Nat,
         \A x \in Times(d, c.source) : x <= cutoff, NEW windows,
         NEW cutoffs, cutoffs = [r \in RowsOf(d, c.target) |-> cutoff],
         NEW x \in RowsOf(d, c.target), NEW y \in RowsOf(d, c.target)
  PROVE  WindowedAggregates(d, c, cutoffs, windows)[x] = WindowedAggregates(d, c, cutoffs, windows)[y]
<1> DEFINE reached == Reached(d, c.target, c.path)
           time == d.time[c.source]
           InWindow(r, w) == {e \in RowsOf(d, c.source) :
                                e \in reached[r] /\ time[e] > cutoffs[r] /\ time[e] <= cutoffs[r] + w}
           Over(r, w) == AggregateOf(d.value[c.source][c.from], c.operator, InWindow(r, w))
           None == AggregateOf(d.value[c.source][c.from], c.operator, {})
<1>1. \A e \in RowsOf(d, c.source) : time[e] \in Nat /\ time[e] <= cutoff
  <2>1. /\ d.time[c.source] \in [1..d.rows[c.source] -> Nat]
        /\ Times(d, c.source) = {d.time[c.source][r] : r \in 1..d.rows[c.source]}
        /\ RowsOf(d, c.source) = 1..d.rows[c.source]
    BY TimesOf
  <2> QED BY <2>1
<1>2. \A r \in {x, y} : \A w : InWindow(r, w) = {}
  <2>1. \A r \in {x, y} : cutoffs[r] = cutoff
    OBVIOUS
  <2> HIDE DEF time, reached
  <2> QED BY <1>1, <2>1
<1>3. \A r \in {x, y} : WindowedAggregates(d, c, cutoffs, windows)[r] =
                          SumOver(windows, [w \in ToSet(windows) |-> Over(r, w)])
  BY DEF WindowedAggregates
<1> HIDE DEF InWindow
<1>4. \A r \in {x, y} : \A w : Over(r, w) = None
  BY <1>2
<1> HIDE DEF Over, None
<1>5. \A r \in {x, y} : [w \in ToSet(windows) |-> Over(r, w)] = [w \in ToSet(windows) |-> None]
  BY <1>4
<1> QED BY <1>3, <1>5

(* Windows are at least one tick and no longer than the span.              *)
LEMMA WindowsDrawn ==
  ASSUME NEW d, DatabaseWellFormed(d), NEW t \in Timed, HasSpan(d, t), NEW windows \in WindowDraws(d, t)
  PROVE  /\ \A w \in ToSet(windows) : w \in 1..Span(d, t)
         /\ Max(ToSet(windows)) \in Nat /\ Max(ToSet(windows)) >= 1
<1> DEFINE short == Lengths(d, t, ShortPercent)
           long == Lengths(d, t, LongPercent)
<1>1. Span(d, t) \in Nat
  BY SpanOf
<1>2. short \subseteq 1..Span(d, t)
  <2>1. ShortPercent \in Nat \X Nat /\ ShortPercent[1] <= ShortPercent[2] /\ ShortPercent[2] < 100
    BY PlannerConfig, PlannerFractions DEF PlannerConfigAccepted
  <2>2. \E low, high \in Nat : /\ Lengths(d, t, ShortPercent) = low..high
                               /\ 1 <= low /\ low <= high /\ high <= Span(d, t)
    BY <2>1, LengthsWithin
  <2> QED BY <1>1, <2>2
<1>3. long \subseteq 1..Span(d, t)
  <2>1. LongPercent \in Nat \X Nat /\ LongPercent[1] <= LongPercent[2] /\ LongPercent[2] < 100
    BY PlannerConfig, PlannerFractions DEF PlannerConfigAccepted
  <2>2. \E low, high \in Nat : /\ Lengths(d, t, LongPercent) = low..high
                               /\ 1 <= low /\ low <= high /\ high <= Span(d, t)
    BY <2>1, LengthsWithin
  <2> QED BY <1>1, <2>2
<1> HIDE DEF short, long
<1>4. \E w, x \in short \cup long : windows \in {<<w>>, <<w, x>>}
  BY DEF WindowDraws, short, long
<1>5. PICK w \in 1..Span(d, t), x \in 1..Span(d, t) : windows \in {<<w>>, <<w, x>>}
  BY <1>2, <1>3, <1>4
<1>6. ToSet(windows) \in {{w}, {w, x}}
  <2>1. CASE windows = <<w>>
    <3>1. DOMAIN windows = 1..1 /\ windows[1] = w
      BY <2>1
    <3>2. ToSet(windows) = {w}
      BY <3>1 DEF ToSet
    <3> QED BY <3>2
  <2>2. CASE windows = <<w, x>>
    <3>1. DOMAIN windows = 1..2 /\ windows[1] = w /\ windows[2] = x
      BY <2>2
    <3>2. \A k : k \in 1..2 <=> k = 1 \/ k = 2
      OBVIOUS
    <3>3. ToSet(windows) = {w, x}
      BY <3>1, <3>2 DEF ToSet
    <3> QED BY <3>3
  <2> QED BY <1>5, <2>1, <2>2
<1> DEFINE S == ToSet(windows)
<1>7. \E m \in S : \A k \in S : m >= k
  <2>1. w >= w /\ x >= x /\ (w >= x \/ x >= w)
    BY <1>1
  <2> HIDE DEF S
  <2> QED BY <1>6, <2>1 DEF S
<1> HIDE DEF S
<1>8. Max(S) \in S
  BY <1>7 DEF Max
<1>9. \A k \in S : k \in 1..Span(d, t)
  BY <1>6 DEF S
<1> QED BY <1>1, <1>8, <1>9 DEF S

(* A windowed aggregate, under one cutoff or under the times of its rows.  *)
LEMMA TemporalAggregateReady ==
  ASSUME NEW d, DatabaseWellFormed(d), NEW c \in TemporalAggregateCandidates(d),
         NEW task \in TemporalAggregateTasks(d, c), IsTask(task)
  PROVE  TaskReady(d, task)
<1>1. /\ c.target \in Tables /\ c.source \in Timed
      /\ c = [target |-> c.target, source |-> c.source, path |-> c.path, operator |-> c.operator, from |-> c.from]
      /\ c.path \in Paths(c.target, 2) /\ Endpoint(c.target, c.path) = c.source
  <2>1. PICK t \in {t \in Tables : Role[t] \in {"entity", "event"} /\ KeysOf(t) # {}} :
        \E p \in {p \in Paths(t, 2) : /\ Endpoint(t, p) \in Timed
                                      /\ Role[t] = "event" => Role[Endpoint(t, p)] = "detail"} :
          \E o, s : c = [target |-> t, source |-> Endpoint(t, p), path |-> p, operator |-> o, from |-> s]
    BY DEF TemporalAggregateCandidates
  <2> QED BY <2>1
<1> DEFINE Global(cutoff, windows) ==
             AggregateDrafts(d, c, [r \in RowsOf(d, c.target) |-> cutoff],
                             GlobalPlan(d, c, cutoff, windows), windows)
           PerRow(windows) == AggregateDrafts(d, c, d.time[c.target], RowPlan(d, c), windows)
           drafts == IF ByRow(c) THEN UNION {PerRow(w) : w \in WindowDraws(d, c.source)}
                     ELSE UNION {Global(cutoff, w) : cutoff \in CutoffDraws(d, c.source), w \in WindowDraws(d, c.source)}
<1>2. HasSpan(d, c.source) /\ \E draft \in drafts : task \in Stratified(d, draft)
  <2>1. TemporalAggregateTasks(d, c) =
          IF ~HasSpan(d, c.source) THEN {NoTask} ELSE UNION {Stratified(d, draft) : draft \in drafts}
    BY DEF TemporalAggregateTasks
  <2>2. task # NoTask
    BY DEF IsTask, NoTask
  <2> HIDE DEF drafts
  <2> QED BY <2>1, <2>2
<1>3. PICK draft \in drafts : task \in Stratified(d, draft)
  BY <1>2
<1>4. PICK windows \in WindowDraws(d, c.source) :
        IF ByRow(c) THEN draft \in PerRow(windows)
        ELSE \E cutoff \in CutoffDraws(d, c.source) : draft \in Global(cutoff, windows)
  <2> HIDE DEF Global, PerRow
  <2> QED BY <1>3
<1> HIDE DEF drafts
<1> DEFINE base == AggregateBase(c)
<1>5. /\ DOMAIN base = DOMAIN EmptyPlan /\ base.mechanism = "temporal_relational_aggregate"
      /\ base.target = c.target /\ base.source = c.source /\ base.paths = {c.path}
      /\ base.operator = c.operator /\ base.from = c.from /\ base.rowCutoff = ByRow(c)
      /\ base.calendar = << >> /\ base.spec = {} /\ base.cutoff = NoTime /\ base.horizon = NoTime
      /\ base.column = "__label__"
  BY DEF AggregateBase, Plan, EmptyPlan
<1> HIDE DEF base
<1> DEFINE plan == draft.plan
           Common == /\ DOMAIN plan = DOMAIN EmptyPlan /\ plan.mechanism = "temporal_relational_aggregate"
                     /\ plan.target = c.target /\ plan.source = c.source /\ plan.paths = {c.path}
                     /\ plan.operator = c.operator /\ plan.from = c.from /\ plan.rowCutoff = ByRow(c)
                     /\ plan.calendar = << >> /\ plan.spec = {} /\ plan.windows = windows
                     /\ plan.column = "__label__"
<1>6. ASSUME NEW cutoffs, NEW p, draft \in AggregateDrafts(d, c, cutoffs, p, windows)
      PROVE  \E q : /\ plan = [p EXCEPT !.windows = windows, !.threshold = q]
                     /\ draft.labels = Above(WindowedAggregates(d, c, cutoffs, windows), q)
  <2> DEFINE values == WindowedAggregates(d, c, cutoffs, windows)
  <2>1. PICK q \in ThresholdDraws(values) :
          draft = Draft([p EXCEPT !.windows = windows, !.threshold = q], Above(values, q))
    BY <1>6 DEF AggregateDrafts
  <2> HIDE DEF values
  <2>2. /\ plan = [p EXCEPT !.windows = windows, !.threshold = q]
        /\ draft.labels = Above(values, q)
    BY <2>1 DEF Draft
  <2> QED BY <2>2 DEF values
<1>7. ASSUME Common, NEW cutoffs, cutoffs = CutoffsOf(d, plan),
             draft.labels = Above(WindowedAggregates(d, c, cutoffs, windows), plan.threshold)
      PROVE  DOMAIN draft.labels = RowsOf(d, c.target) /\ MechanismLabels(d, plan) = draft.labels
  <2>1. WindowOf(plan) = c
    <3>1. (CHOOSE p \in plan.paths : TRUE) = c.path
      BY <1>7
    <3> HIDE DEF plan
    <3>2. WindowOf(plan) = [target |-> c.target, source |-> c.source, path |-> c.path,
                            operator |-> c.operator, from |-> c.from]
      BY <1>7, <3>1 DEF WindowOf
    <3> QED BY <1>1, <3>2
  <2>2. DOMAIN Above(WindowedAggregates(d, c, cutoffs, windows), plan.threshold) = RowsOf(d, c.target)
    BY DEF Above, WindowedAggregates
  <2> HIDE DEF plan
  <2>3. MechanismLabels(d, plan) = Above(WindowedAggregates(d, c, cutoffs, windows), plan.threshold)
    BY <1>7, <2>1, AggregateLabels
  <2> QED BY <1>7, <2>2, <2>3
<1>8. ASSUME Common, PlanWellFormed(plan), plan.rowCutoff => plan.target \in Timed
      PROVE  PlanReady(d, plan)
  <2> HIDE DEF plan
  <2>1. Contiguous(c.target, c.path) /\ c.path # << >>
    BY <1>1, PathRoutes
  <2>2. RoutesValid(plan)
    BY <1>1, <1>8, <2>1 DEF RoutesValid
  <2>3. WindowsFit(d, plan)
    <3>1. \A w \in ToSet(windows) : w \in 1..Span(d, c.source)
      BY <1>1, <1>2, WindowsDrawn
    <3>2. Span(d, c.source) \in Nat /\ \E a, b \in Times(d, c.source) : Span(d, c.source) = b - a
      BY <1>1, <1>2, SpanOf
    <3> DEFINE s == Span(d, c.source)
    <3> HIDE DEF s
    <3>3. \A w \in ToSet(windows) : w \in 0..s
      BY <3>1, <3>2 DEF s
    <3> QED BY <1>1, <1>8, <3>2, <3>3 DEF WindowsFit, s
  <2> QED BY <1>8, <2>2, <2>3 DEF PlanReady, Mechanisms, AttributeMechanisms, HorizonMechanisms, LabelOrFeature
<1>9. CASE ByRow(c)
  <2> DEFINE p == RowPlan(d, c)
  <2>1. p = [base EXCEPT !.rules = Max(Times(d, c.target))]
    BY DEF RowPlan, base
  <2> HIDE DEF p
  <2>2. draft \in AggregateDrafts(d, c, d.time[c.target], p, windows)
    BY <1>4, <1>9 DEF p
  <2>3. PICK q : /\ plan = [p EXCEPT !.windows = windows, !.threshold = q]
                 /\ draft.labels = Above(WindowedAggregates(d, c, d.time[c.target], windows), q)
    BY <2>2, <1>6
  <2>4. /\ DOMAIN p = DOMAIN EmptyPlan /\ p.mechanism = "temporal_relational_aggregate"
        /\ p.target = c.target /\ p.source = c.source /\ p.paths = {c.path}
        /\ p.operator = c.operator /\ p.from = c.from /\ p.rowCutoff = ByRow(c)
        /\ p.calendar = << >> /\ p.spec = {} /\ p.cutoff = NoTime /\ p.horizon = NoTime
        /\ p.rules = Max(Times(d, c.target)) /\ p.column = "__label__"
    BY <1>5, <2>1 DEF EmptyPlan
  <2> HIDE DEF plan
  <2>5. /\ Common /\ plan.threshold = q /\ plan.cutoff = NoTime /\ plan.horizon = NoTime
        /\ plan.rules = Max(Times(d, c.target))
    BY <2>3, <2>4 DEF EmptyPlan
  <2>6. c.target \in Timed
    BY <1>9 DEF ByRow
  <2>7. d.time[c.target] = CutoffsOf(d, plan)
    BY <1>9, <2>5 DEF CutoffsOf
  <2>8. DOMAIN draft.labels = RowsOf(d, c.target) /\ MechanismLabels(d, plan) = draft.labels
    BY <1>7, <2>3, <2>5, <2>7
  <2>9. RowsOf(d, c.target) # {}
    BY <1>3, <2>8, HasRows
  <2>10. plan.rules # NoTime
    BY <2>5, <2>6, <2>9, LastTime
  <2>11. PlanWellFormed(plan)
    <3>1. plan.paths # {}
      BY <2>5
    <3> QED BY <2>5, <2>6, <2>10, <3>1 DEF PlanWellFormed, HorizonMechanisms
  <2>12. PlanReady(d, plan)
    BY <1>8, <2>5, <2>6, <2>11
  <2> QED BY <1>1, <1>3, <2>5, <2>8, <2>12, StratifiedReady DEF plan
<1>10. CASE ~ByRow(c)
  <2>1. PICK cutoff \in CutoffDraws(d, c.source) : draft \in Global(cutoff, windows)
    BY <1>4, <1>10
  <2> DEFINE p == GlobalPlan(d, c, cutoff, windows)
             horizon == MinOf(Max(Times(d, c.source)), cutoff + Max(ToSet(windows)))
             cutoffs == [r \in RowsOf(d, c.target) |-> cutoff]
  <2>2. p = [base EXCEPT !.cutoff = cutoff, !.rules = cutoff, !.horizon = horizon]
    BY DEF GlobalPlan, base
  <2> HIDE DEF p, horizon
  <2>3. draft \in AggregateDrafts(d, c, cutoffs, p, windows)
    BY <2>1 DEF p
  <2>4. PICK q : /\ plan = [p EXCEPT !.windows = windows, !.threshold = q]
                 /\ draft.labels = Above(WindowedAggregates(d, c, cutoffs, windows), q)
    <3> HIDE DEF cutoffs
    <3> QED BY <2>3, <1>6
  <2>5. /\ DOMAIN p = DOMAIN EmptyPlan /\ p.mechanism = "temporal_relational_aggregate"
        /\ p.target = c.target /\ p.source = c.source /\ p.paths = {c.path}
        /\ p.operator = c.operator /\ p.from = c.from /\ p.rowCutoff = ByRow(c)
        /\ p.calendar = << >> /\ p.spec = {} /\ p.cutoff = cutoff /\ p.horizon = horizon
        /\ p.rules = cutoff /\ p.column = "__label__"
    BY <1>5, <2>2 DEF EmptyPlan
  <2> HIDE DEF plan
  <2>6. /\ Common /\ plan.threshold = q /\ plan.cutoff = cutoff /\ plan.horizon = horizon
        /\ plan.rules = cutoff
    BY <2>4, <2>5 DEF EmptyPlan
  <2>7. cutoffs = CutoffsOf(d, plan)
    BY <1>10, <2>6 DEF CutoffsOf
  <2>8. DOMAIN draft.labels = RowsOf(d, c.target) /\ MechanismLabels(d, plan) = draft.labels
    BY <1>7, <2>4, <2>6, <2>7
  <2>9. cutoff \in Nat /\ cutoff # NoTime
    BY <1>1, <1>2, CutoffWithin
  <2>10. horizon > cutoff
    <3>1. Max(ToSet(windows)) \in Nat /\ Max(ToSet(windows)) >= 1
      BY <1>1, <1>2, WindowsDrawn
    <3>2. /\ Times(d, c.source) \subseteq Nat
          /\ Max(Times(d, c.source)) \in Times(d, c.source)
          /\ \A x \in Times(d, c.source) : x <= Max(Times(d, c.source))
      <4>1. Times(d, c.source) # {}
        BY <1>1, <1>2, SpanOf
      <4>2. /\ Times(d, c.source) \subseteq Nat
            /\ Min(Times(d, c.source)) \in Times(d, c.source) /\ Max(Times(d, c.source)) \in Times(d, c.source)
            /\ \A x \in Times(d, c.source) : Min(Times(d, c.source)) <= x /\ x <= Max(Times(d, c.source))
        BY <1>1, <4>1, FirstAndLast
      <4> QED BY <4>2
    <3>3. Max(Times(d, c.source)) > cutoff
      <4> SUFFICES ASSUME ~(Max(Times(d, c.source)) > cutoff) PROVE FALSE
        OBVIOUS
      <4>1. \A x \in Times(d, c.source) : x <= cutoff
        BY <2>9, <3>2
      <4>2. PICK x \in DOMAIN draft.labels, y \in DOMAIN draft.labels : draft.labels[x] # draft.labels[y]
        BY <1>3, TwoLabels
      <4>3. x \in RowsOf(d, c.target) /\ y \in RowsOf(d, c.target)
        BY <2>8
      <4>4. WindowedAggregates(d, c, cutoffs, windows)[x] = WindowedAggregates(d, c, cutoffs, windows)[y]
        BY <1>1, <2>9, <4>1, <4>3, NothingLater
      <4> HIDE DEF cutoffs
      <4>5. DOMAIN WindowedAggregates(d, c, cutoffs, windows) = RowsOf(d, c.target)
        BY DEF WindowedAggregates
      <4> DEFINE values == WindowedAggregates(d, c, cutoffs, windows)
      <4> HIDE DEF values
      <4>6. draft.labels[x] = Bit(values[x] > q) /\ draft.labels[y] = Bit(values[y] > q)
        BY <2>4, <4>3, <4>5 DEF Above, values
      <4> QED BY <4>2, <4>4, <4>6 DEF values
    <3> QED BY <2>9, <3>1, <3>2, <3>3 DEF horizon, MinOf
  <2>11. PlanWellFormed(plan)
    <3>1. plan.paths # {}
      BY <2>6
    <3> QED BY <1>10, <2>6, <2>10, <3>1 DEF PlanWellFormed, HorizonMechanisms
  <2>12. PlanReady(d, plan)
    BY <1>8, <1>10, <2>6, <2>11
  <2> QED BY <1>1, <1>3, <2>6, <2>8, <2>12, StratifiedReady DEF plan
<1> QED BY <1>9, <1>10

LEMMA ToSetOne ==
  ASSUME NEW a PROVE ToSet(<<a>>) = {a}
<1>1. DOMAIN <<a>> = 1..1 /\ <<a>>[1] = a
  OBVIOUS
<1> QED BY <1>1 DEF ToSet

LEMMA ToSetTwo ==
  ASSUME NEW a, NEW b PROVE ToSet(<<a, b>>) = {a, b}
<1>1. DOMAIN <<a, b>> = 1..2 /\ <<a, b>>[1] = a /\ <<a, b>>[2] = b
  OBVIOUS
<1>2. \A k : k \in 1..2 <=> k = 1 \/ k = 2
  OBVIOUS
<1> QED BY <1>1, <1>2 DEF ToSet

(* The paths of a composite candidate lead from its target to timed tables.*)
TimedPath(t, p) == p \in Paths(t, MaxPathDepth) /\ Endpoint(t, p) \in Timed

LEMMA CompositePaths ==
  ASSUME NEW families, NEW c \in CompositeCandidates(families)
  PROVE  /\ c.family \in families
         /\ IF c.family = "multi_source" THEN \E p, q : c.paths = <<p, q>> ELSE \E p : c.paths = <<p>>
         /\ \A p \in ToSet(c.paths) : TimedPath(c.target, p)
<1>1. \A s \in Skeletons : TimedPath(s.target, s.path)
  BY DEF Skeletons, TimedPath
<1> DEFINE Of(f) ==
      CASE f = "multi_source" ->
             {[family |-> f, target |-> s[1].target, paths |-> <<s[1].path, s[2].path>>] : s \in TwoSources}
        [] f = "multi_hop_filtered" ->
             {[family |-> f, target |-> s.target, paths |-> <<s.path>>] :
                s \in {s \in Skeletons : Len(s.path) >= 2}}
        [] OTHER ->
             {[family |-> f, target |-> s.target, paths |-> <<s.path>>] : s \in Skeletons}
<1>2. PICK f \in families : c \in Of(f)
  BY DEF CompositeCandidates
<1>3. CASE f = "multi_source"
  <2>1. c \in {[family |-> f, target |-> s[1].target, paths |-> <<s[1].path, s[2].path>>] : s \in TwoSources}
    BY <1>2, <1>3
  <2>2. PICK s \in TwoSources : c = [family |-> f, target |-> s[1].target, paths |-> <<s[1].path, s[2].path>>]
    BY <2>1
  <2>3. s[1] \in Skeletons /\ s[2] \in Skeletons /\ s[1].target = s[2].target
    BY DEF TwoSources
  <2>4. TimedPath(c.target, s[1].path) /\ TimedPath(c.target, s[2].path)
    BY <1>1, <2>2, <2>3
  <2>5. ToSet(c.paths) = {s[1].path, s[2].path}
    BY <2>2, ToSetTwo
  <2> QED BY <1>3, <2>2, <2>4, <2>5
<1>4. CASE f # "multi_source"
  <2>1. PICK s \in Skeletons : c = [family |-> f, target |-> s.target, paths |-> <<s.path>>]
    BY <1>2, <1>4
  <2>2. ToSet(c.paths) = {s.path}
    BY <2>1, ToSetOne
  <2> QED BY <1>1, <1>4, <2>1, <2>2
<1> QED BY <1>3, <1>4

(* A drawn aggregate reads a source with a span, in a window on one side   *)
(* of the cutoff.                                                          *)
AggregateDrawn(d, t, a) ==
  /\ TimedPath(t, a.path) /\ Times(d, Endpoint(t, a.path)) # {}
  /\ AggregateWellFormed(a)

Kinds == {"history", "future", "either"}

LEMMA DrawnAggregate ==
  ASSUME NEW d, DatabaseWellFormed(d), NEW t, NEW p, TimedPath(t, p), NEW cutoff, NEW operators, NEW needed, NEW most,
         NEW kind \in Kinds, NEW a \in AggregateDraws(d, t, p, cutoff, operators, needed, most, kind)
  PROVE  AggregateDrawn(d, t, a) /\ a.path = p
<1> DEFINE source == Endpoint(t, p)
<1>1. source \in Timed /\ p # << >>
  <2>1. Contiguous(t, p) /\ p # << >>
    BY PathRoutes DEF TimedPath
  <2> QED BY <2>1 DEF TimedPath
<1>2. /\ Cardinality(Times(d, source)) >= 2 \/ ~(Cardinality(Times(d, source)) < 2)
      /\ \E reading \in Readings(d, source, operators) : \E w \in Windows(d, source, cutoff, kind) :
           /\ a.path = p /\ a.start = w.start /\ a.end = w.end
           /\ a.operator = reading[1] /\ a.column = reading[2]
  <2> DEFINE Sets(column) == IF most = 0 THEN {{}}
                             ELSE {{x} : x \in PredicateDraws(d, source, column)} \cup IF needed THEN {} ELSE {{}}
  <2>1. ~(Cardinality(Times(d, source)) < 2)
    <3> HIDE DEF source
    <3> QED BY DEF AggregateDraws, source
  <2>2. a \in UNION {{ [path |-> p, start |-> w.start, end |-> w.end, operator |-> reading[1],
                         column |-> reading[2], predicates |-> s] :
                           w \in Windows(d, source, cutoff, kind), s \in Sets(reading[2]) } :
                      reading \in Readings(d, source, operators)}
    <3> HIDE DEF source
    <3> QED BY DEF AggregateDraws, source
  <2> HIDE DEF Sets, source
  <2> QED BY <2>1, <2>2
<1>3. PICK reading \in Readings(d, source, operators), w \in Windows(d, source, cutoff, kind) :
           /\ a.path = p /\ a.start = w.start /\ a.end = w.end
           /\ a.operator = reading[1] /\ a.column = reading[2]
  BY <1>2
<1>4. Times(d, source) # {}
  <2> SUFFICES ASSUME Times(d, source) = {} PROVE FALSE
    OBVIOUS
  <2>1. Cardinality({}) = 0
    BY FS_EmptySet
  <2> HIDE DEF source
  <2> QED BY <1>2, <2>1
<1> DEFINE low == Min(Times(d, source))
           high == Max(Times(d, source))
           sizes == MaxOf(1, Round(high - low, 20))..MaxOf(1, Round(2 * (high - low), 5))
<1>5. \A s \in sizes : s \in Int /\ s >= 1
  <2>1. low \in Nat /\ high \in Nat /\ low <= high
    <3>1. /\ Times(d, source) \subseteq Nat
          /\ Min(Times(d, source)) \in Times(d, source) /\ Max(Times(d, source)) \in Times(d, source)
          /\ \A x \in Times(d, source) : Min(Times(d, source)) <= x /\ x <= Max(Times(d, source))
      BY <1>1, <1>4, FirstAndLast
    <3> HIDE DEF source
    <3> QED BY <3>1
  <2> HIDE DEF low, high
  <2>2. Round(high - low, 20) \in Nat
    <3>1. high - low \in Nat
      BY <2>1
    <3> QED BY <3>1, RoundNat
  <2>3. MaxOf(1, Round(high - low, 20)) \in Nat /\ MaxOf(1, Round(high - low, 20)) >= 1
    BY <2>2 DEF MaxOf
  <2> QED BY <2>3
<1>6. \E s \in sizes : w = [start |-> -s, end |-> 0] \/ w = [start |-> 0, end |-> s]
  <2> HIDE DEF sizes
  <2> DEFINE history == {[start |-> -s, end |-> 0] : s \in sizes}
             future == {[start |-> 0, end |-> s] : s \in sizes}
  <2>1. w \in CASE kind = "history" -> history [] kind = "future" -> future
                 [] kind = "either" -> history \cup future
    BY DEF Windows, sizes
  <2>2. w \in history \cup future
    <3> HIDE DEF history, future
    <3> QED BY <2>1 DEF Kinds
  <2> QED BY <2>2
<1>7. a.start < a.end /\ IF a.end <= 0 THEN a.start < 0 ELSE a.start >= 0
  <2> HIDE DEF sizes
  <2>1. PICK s \in sizes : w = [start |-> -s, end |-> 0] \/ w = [start |-> 0, end |-> s]
    BY <1>6
  <2>2. s \in Int /\ s >= 1
    BY <1>5
  <2>3. CASE w = [start |-> -s, end |-> 0]
    <3>1. a.start = -s /\ a.end = 0
      BY <1>3, <2>3
    <3> QED BY <2>2, <3>1
  <2>4. CASE w = [start |-> 0, end |-> s]
    <3>1. a.start = 0 /\ a.end = s
      BY <1>3, <2>4
    <3> QED BY <2>2, <3>1
  <2> QED BY <2>1, <2>3, <2>4
<1>8. (a.operator = "count") = (a.column = NoColumn)
  <2>1. (reading[1] = "count") = (reading[2] = NoColumn)
    BY <1>3 DEF Readings
  <2> QED BY <1>3, <2>1
<1> QED BY <1>1, <1>3, <1>4, <1>7, <1>8 DEF AggregateDrawn, AggregateWellFormed

LEMMA SpecDrawn ==
  ASSUME NEW d, DatabaseWellFormed(d), NEW families, families \subseteq CompositeFamilies,
         NEW c \in CompositeCandidates(families), NEW cutoff, NEW spec \in SpecDraws(d, c, cutoff)
  PROVE  /\ spec.aggregates # << >> /\ ToSet(spec.aggregates) # {}
         /\ \A a \in ToSet(spec.aggregates) \cup spec.gate :
              AggregateDrawn(d, c.target, a) /\ a.path \in ToSet(c.paths)
<1>1. /\ c.family \in families
      /\ IF c.family = "multi_source" THEN \E p, q : c.paths = <<p, q>> ELSE \E p : c.paths = <<p>>
      /\ \A p \in ToSet(c.paths) : TimedPath(c.target, p)
  BY CompositePaths
<1>2. /\ TimedPath(c.target, c.paths[1]) /\ c.paths[1] \in ToSet(c.paths)
      /\ c.family = "multi_source" => TimedPath(c.target, c.paths[2]) /\ c.paths[2] \in ToSet(c.paths)
  <2>1. CASE c.family = "multi_source"
    <3>1. PICK p, q : c.paths = <<p, q>>
      BY <1>1, <2>1
    <3>2. c.paths[1] = p /\ c.paths[2] = q /\ ToSet(c.paths) = {p, q}
      BY <3>1, ToSetTwo
    <3> QED BY <1>1, <3>2
  <2>2. CASE c.family # "multi_source"
    <3>1. PICK p : c.paths = <<p>>
      BY <1>1, <2>2
    <3>2. c.paths[1] = p /\ ToSet(c.paths) = {p}
      BY <3>1, ToSetOne
    <3> QED BY <1>1, <2>2, <3>2
  <2> QED BY <2>1, <2>2
<1> DEFINE Draw(k, operators, needed, most, kind) ==
             AggregateDraws(d, c.target, c.paths[k], cutoff, operators, needed, most, kind)
           Good(a) == AggregateDrawn(d, c.target, a) /\ a.path \in ToSet(c.paths)
<1>3. \A operators, needed, most : \A kind \in Kinds :
        /\ \A a \in Draw(1, operators, needed, most, kind) : Good(a)
        /\ c.family = "multi_source" => \A a \in Draw(2, operators, needed, most, kind) : Good(a)
  BY <1>2, DrawnAggregate
<1>4. {"history", "future", "either"} \subseteq Kinds
  BY DEF Kinds
<1> DEFINE numeric == {"count", "sum", "mean", "min", "max"}
           Single(a, label) == [family |-> c.family, aggregates |-> <<a>>, combine |-> "sum", label |-> label, gate |-> {}]
           Double(a, b, o) ==
             [family |-> c.family, aggregates |-> <<a, b>>, combine |-> o, label |-> "gt", gate |-> {}]
           Gated(a, g) == [family |-> c.family, aggregates |-> <<a>>, combine |-> "sum", label |-> "gt", gate |-> {g}]
<1>0. spec \in SpecDraws(d, c, cutoff)
  OBVIOUS
<1>5. CASE c.family \in {"filtered_aggregate", "count_distinct", "quantified_event", "multi_hop_filtered"}
  <2>1. \E a, label : Good(a) /\ spec = Single(a, label)
    <3>1. CASE c.family = "filtered_aggregate"
      <4>1. SpecDraws(d, c, cutoff) = {Single(a, "gt") : a \in Draw(1, numeric, FALSE, MaxPredicates, "either")}
        BY ONLY <3>1 DEF SpecDraws
      <4> HIDE DEF Draw, numeric, Single, Good
      <4>2. PICK a \in Draw(1, numeric, FALSE, MaxPredicates, "either") : spec = Single(a, "gt")
        BY <1>0, <4>1
      <4>3. Good(a)
        BY <1>3, <1>4
      <4> QED BY <4>2, <4>3
    <3>2. CASE c.family = "count_distinct"
      <4>1. SpecDraws(d, c, cutoff) = {Single(a, "ge") : a \in Draw(1, {"count_distinct"}, FALSE, MaxPredicates, "either")}
        BY ONLY <3>2 DEF SpecDraws
      <4> HIDE DEF Draw, Single, Good
      <4>2. PICK a \in Draw(1, {"count_distinct"}, FALSE, MaxPredicates, "either") : spec = Single(a, "ge")
        BY <1>0, <4>1
      <4>3. Good(a)
        BY <1>3, <1>4
      <4> QED BY <4>2, <4>3
    <3>3. CASE c.family = "quantified_event"
      <4>1. SpecDraws(d, c, cutoff) = {Single(a, "gt") : a \in Draw(1, {"count"}, TRUE, MaxPredicates, "future")}
        BY ONLY <3>3 DEF SpecDraws
      <4> HIDE DEF Draw, Single, Good
      <4>2. PICK a \in Draw(1, {"count"}, TRUE, MaxPredicates, "future") : spec = Single(a, "gt")
        BY <1>0, <4>1
      <4>3. Good(a)
        BY <1>3, <1>4
      <4> QED BY <4>2, <4>3
    <3>4. CASE c.family = "multi_hop_filtered"
      <4>1. SpecDraws(d, c, cutoff)
              = {Single(a, "gt") : a \in Draw(1, {"count", "count_distinct"}, TRUE, MaxPredicates, "either")}
        BY ONLY <3>4 DEF SpecDraws
      <4> HIDE DEF Draw, Single, Good
      <4>2. PICK a \in Draw(1, {"count", "count_distinct"}, TRUE, MaxPredicates, "either") : spec = Single(a, "gt")
        BY <1>0, <4>1
      <4>3. Good(a)
        BY <1>3, <1>4
      <4> QED BY <4>2, <4>3
    <3> QED BY <1>5, <3>1, <3>2, <3>3, <3>4
  <2> HIDE DEF Draw, Good
  <2>3. PICK a, label : Good(a) /\ spec = Single(a, label)
    <3> HIDE DEF Single
    <3> QED BY <2>1
  <2>4. spec.aggregates = <<a>> /\ spec.gate = {}
    BY <2>3
  <2>5. ToSet(spec.aggregates) = {a} /\ spec.aggregates # << >>
    BY <2>4, ToSetOne
  <2> QED BY <2>3, <2>4, <2>5 DEF Good
<1>6. CASE c.family = "multi_source"
  <2> DEFINE A == Draw(1, numeric, FALSE, MaxPredicates, "either")
             B == Draw(2, numeric, FALSE, MaxPredicates, "either")
             O == {"sum", "mean", "max", "min"}
  <2>1. SpecDraws(d, c, cutoff) = {Double(a, b, o) : a \in A, b \in B, o \in O}
    BY ONLY <1>6 DEF SpecDraws
  <2>2. (\A a \in A : Good(a)) /\ (\A b \in B : Good(b))
    <3> HIDE DEF Good, Draw, numeric
    <3> QED BY <1>3, <1>4, <1>6
  <2> HIDE DEF Good, Double, A, B, O
  <2>3. PICK a \in A, b \in B, o \in O : spec = Double(a, b, o)
    BY <1>0, <2>1
  <2>4. spec.aggregates = <<a, b>> /\ spec.gate = {}
    BY <2>3 DEF Double
  <2>5. ToSet(spec.aggregates) = {a, b} /\ spec.aggregates # << >>
    BY <2>4, ToSetTwo
  <2> QED BY <2>2, <2>4, <2>5 DEF Good
<1>7. CASE c.family = "history_conditioned_future"
  <2> DEFINE A == Draw(1, {"count", "sum", "mean"}, FALSE, MaxPredicates, "future")
             G == Draw(1, {"count"}, FALSE, 0, "history")
  <2>1. SpecDraws(d, c, cutoff) = {Gated(a, g) : a \in A, g \in G}
    BY ONLY <1>7 DEF SpecDraws
  <2>2. (\A a \in A : Good(a)) /\ (\A g \in G : Good(g))
    <3> HIDE DEF Good, Draw
    <3> QED BY <1>3, <1>4
  <2> HIDE DEF Good, Gated, A, G
  <2>3. PICK a \in A, g \in G : spec = Gated(a, g)
    BY <1>0, <2>1
  <2>4. spec.aggregates = <<a>> /\ spec.gate = {g}
    BY <2>3 DEF Gated
  <2>5. ToSet(spec.aggregates) = {a} /\ spec.aggregates # << >>
    BY <2>4, ToSetOne
  <2> QED BY <2>2, <2>4, <2>5 DEF Good
<1> QED BY <1>1, <1>5, <1>6, <1>7 DEF CompositeFamilies

LEMMA CompositeReady ==
  ASSUME NEW d, DatabaseWellFormed(d), NEW families, families \subseteq CompositeFamilies,
         NEW c \in CompositeCandidates(families), NEW task \in CompositeTasksOf(d, c), IsTask(task)
  PROVE  TaskReady(d, task)
<1> DEFINE sources == {Endpoint(c.target, p) : p \in ToSet(c.paths)}
           pooled == UNION {Times(d, s) : s \in sources}
           draws == UNION {QuantileDraws(d, s, <<35, 65>>) : s \in sources}
           cutoffs == {x \in Min(draws)..Max(draws) : x > Min(pooled) /\ x < Max(pooled)}
<1>0. PICK cutoff \in cutoffs : \E spec \in SpecDraws(d, c, cutoff) :
        \E draft \in CompositeDrafts(d, c, cutoff, spec) : task \in Stratified(d, draft)
  <2>1. task # NoTask
    BY DEF IsTask, NoTask
  <2>2. CompositeTasksOf(d, c) =
          {NoTask} \cup UNION {UNION {UNION {Stratified(d, draft) : draft \in CompositeDrafts(d, c, cutoff, spec)} :
                                        spec \in SpecDraws(d, c, cutoff)} : cutoff \in cutoffs}
    BY DEF CompositeTasksOf
  <2> HIDE DEF cutoffs
  <2> QED BY <2>1, <2>2
<1>1. PICK spec \in SpecDraws(d, c, cutoff) :
        \E draft \in CompositeDrafts(d, c, cutoff, spec) : task \in Stratified(d, draft)
  <2> HIDE DEF cutoffs
  <2> QED BY <1>0
<1>2. PICK draft \in CompositeDrafts(d, c, cutoff, spec) : task \in Stratified(d, draft)
  BY <1>1
<1>3. /\ spec.aggregates # << >> /\ ToSet(spec.aggregates) # {}
      /\ \A a \in ToSet(spec.aggregates) \cup spec.gate :
           AggregateDrawn(d, c.target, a) /\ a.path \in ToSet(c.paths)
  BY SpecDrawn
<1>4. \A p \in ToSet(c.paths) : TimedPath(c.target, p)
  BY CompositePaths
<1>5. cutoff # NoTime
  <2>1. pooled \in SUBSET Nat
    <3>1. \A p \in ToSet(c.paths) : Times(d, Endpoint(c.target, p)) \subseteq Nat
      <4> SUFFICES ASSUME NEW p \in ToSet(c.paths) PROVE Times(d, Endpoint(c.target, p)) \subseteq Nat
        OBVIOUS
      <4>1. Endpoint(c.target, p) \in Timed
        BY <1>4 DEF TimedPath
      <4> QED BY <4>1, TimesOf
    <3> QED BY <3>1
  <2>2. pooled # {}
    <3>1. PICK a \in ToSet(spec.aggregates) : AggregateDrawn(d, c.target, a) /\ a.path \in ToSet(c.paths)
      BY <1>3
    <3>2. Times(d, Endpoint(c.target, a.path)) # {}
      BY <3>1 DEF AggregateDrawn
    <3> QED BY <3>1, <3>2
  <2>3. cutoff > Min(pooled)
    <3> HIDE DEF pooled, draws
    <3> QED BY <1>0
  <2> HIDE DEF pooled
  <2>4. Min(pooled) \in Nat
    <3>1. \E x \in pooled : \A y \in pooled : x <= y
      BY <2>1, <2>2, LeastNatural
    <3>2. Min(pooled) \in pooled
      BY <3>1 DEF Min
    <3> QED BY <2>1, <3>2
  <2> QED BY <2>3, <2>4 DEF NoTime
<1> HIDE DEF cutoffs
<1> DEFINE base == CompositeBase(c, cutoff, spec)
           scores == CompositeScores(d, c.target, spec, cutoff)
           eligible == EligibleRows(d, c.target, spec, cutoff)
<1>6. PICK q : draft = Draft([base EXCEPT !.threshold = q],
                             [r \in DOMAIN scores |-> IF r \in eligible THEN Bit(Passes(scores[r], spec.label, q)) ELSE -1])
  <2> HIDE DEF base, scores, eligible
  <2>1. CompositeDrafts(d, c, cutoff, spec) =
          {Draft([base EXCEPT !.threshold = q],
                 [r \in DOMAIN scores |-> IF r \in eligible THEN Bit(Passes(scores[r], spec.label, q)) ELSE -1]) :
             q \in {scores[r] : r \in eligible}}
    BY DEF CompositeDrafts, base, scores, eligible
  <2> QED BY <2>1
<1> DEFINE plan == draft.plan
<1>7. /\ DOMAIN base = DOMAIN EmptyPlan /\ base.mechanism = "relational_classification"
      /\ base.target = c.target /\ base.paths = ToSet(c.paths) /\ base.spec = {spec}
      /\ base.cutoff = cutoff /\ base.rules = cutoff /\ base.rowCutoff = FALSE
      /\ base.horizon = NoTime /\ base.calendar = << >> /\ base.windows = << >>
      /\ base.column = "__label__"
  BY DEF CompositeBase, Plan, EmptyPlan
<1> HIDE DEF base
<1>8. /\ DOMAIN plan = DOMAIN EmptyPlan /\ plan.mechanism = "relational_classification"
      /\ plan.target = c.target /\ plan.paths = ToSet(c.paths) /\ plan.spec = {spec}
      /\ plan.cutoff = cutoff /\ plan.rules = cutoff /\ plan.rowCutoff = FALSE
      /\ plan.horizon = NoTime /\ plan.calendar = << >> /\ plan.windows = << >>
      /\ plan.threshold = q /\ plan.column = "__label__"
  <2>1. plan = [base EXCEPT !.threshold = q]
    <3> HIDE DEF scores, eligible
    <3> QED BY <1>6 DEF Draft
  <2> QED BY <1>7, <2>1 DEF EmptyPlan
<1>9. draft.labels = CompositeLabels(d, c.target, spec, q, cutoff) /\ DOMAIN draft.labels = RowsOf(d, c.target)
  <2>1. DOMAIN scores = RowsOf(d, c.target)
    BY DEF CompositeScores
  <2> HIDE DEF scores, eligible
  <2>2. draft.labels = [r \in DOMAIN scores |-> IF r \in eligible THEN Bit(Passes(scores[r], spec.label, q)) ELSE -1]
    BY <1>6 DEF Draft
  <2>3. CompositeLabels(d, c.target, spec, q, cutoff)
          = [r \in RowsOf(d, c.target) |-> IF r \in eligible THEN Bit(Passes(scores[r], spec.label, q)) ELSE -1]
    BY DEF CompositeLabels, scores, eligible
  <2> QED BY <2>1, <2>2, <2>3
<1> HIDE DEF plan, scores, eligible
<1>10. MechanismLabels(d, plan) = draft.labels
  <2> DEFINE s == CHOOSE s \in plan.spec : TRUE
  <2>1. s = spec
    BY <1>8
  <2>2. MechanismLabels(d, plan) = CompositeLabels(d, plan.target, s, plan.threshold, plan.cutoff)
    BY <1>8 DEF MechanismLabels
  <2> QED BY <1>8, <1>9, <2>1, <2>2
<1>11. SpecAggregates(plan) = ToSet(spec.aggregates) \cup spec.gate
  BY <1>8 DEF SpecAggregates
<1>12. \A a \in SpecAggregates(plan) : AggregateDrawn(d, c.target, a)
  BY <1>3, <1>11
<1>13. SpecReady(plan)
  <2> SUFFICES ASSUME NEW a \in SpecAggregates(plan)
               PROVE  /\ Contiguous(plan.target, a.path) /\ Endpoint(plan.target, a.path) \in Timed
                      /\ a.operator # "count" => a.column # NoColumn
    BY <1>5, <1>8 DEF SpecReady, FutureHidden
  <2>1. TimedPath(c.target, a.path) /\ AggregateWellFormed(a)
    BY <1>12 DEF AggregateDrawn
  <2>2. Contiguous(c.target, a.path)
    BY <2>1, PathRoutes DEF TimedPath
  <2> QED BY <1>8, <2>1, <2>2 DEF TimedPath, AggregateWellFormed
<1>14. PlanWellFormed(plan)
  <2>1. SpecWellFormed(spec)
    BY <1>3 DEF SpecWellFormed, AggregateDrawn
  <2>2. plan.paths # {}
    BY <1>3, <1>8
  <2> QED BY <1>8, <2>1, <2>2 DEF PlanWellFormed, HorizonMechanisms
<1>15. PlanReady(d, plan)
  <2>1. RoutesValid(plan)
    <3>1. \A p \in ToSet(c.paths) : Contiguous(c.target, p)
      BY <1>4, PathRoutes DEF TimedPath
    <3> QED BY <1>8, <3>1 DEF RoutesValid
  <2>2. WindowsFit(d, plan)
    BY <1>8, NoWindows DEF WindowsFit
  <2> QED BY <1>8, <1>13, <1>14, <2>1, <2>2
             DEF PlanReady, Mechanisms, HorizonMechanisms, AttributeMechanisms, LabelOrFeature
<1>16. c.target \in Tables
  BY CompositeTarget
<1> QED BY <1>2, <1>8, <1>9, <1>10, <1>15, <1>16, StratifiedReady DEF plan

(* Every task that the planner may build is ready.                         *)
LEMMA BuildsReady ==
  ASSUME NEW d, DatabaseWellFormed(d), NEW mechanism \in Mechanisms, NEW families,
         families \subseteq CompositeFamilies,
         NEW c \in Candidates(d, mechanism, families), NEW built \in Builds(d, mechanism, c), IsTask(built)
  PROVE  TaskReady(d, built)
<1>1. CASE mechanism = "relation_attribute"
  <2>1. c \in RelationAttributeCandidates(d) /\ built \in RelationAttributeTasks(d, c)
    BY <1>1 DEF Candidates, Builds, HorizonMechanisms
  <2> QED BY <2>1, RelationAttributeReady
<1>2. CASE mechanism = "random_column"
  <2>1. c \in RandomColumnCandidates(d) /\ built \in RandomColumnTasks(d, c)
    BY <1>2 DEF Candidates, Builds, HorizonMechanisms
  <2> QED BY <2>1, RandomColumnReady
<1>3. CASE mechanism \in HorizonMechanisms
  <2>1. c \in FutureEventCandidates(d)
    BY <1>3 DEF Candidates, HorizonMechanisms
  <2>2. built \in EntityHorizonTasks(d, c, mechanism)
    BY <1>3 DEF Builds, HorizonMechanisms, FutureExistenceTasks, HistoryGatedTasks, HistoryGatedSubmodeTasks
  <2>3. mechanism \in EntityMechanisms
    BY <1>3 DEF HorizonMechanisms, EntityMechanisms, HistoryGatedSubmodes
  <2> QED BY <2>1, <2>2, <2>3, EntityHorizonReady
<1>4. CASE mechanism = "future_event_attribute_condition"
  <2>1. c \in FutureEventAttributeCandidates(d) /\ built \in FutureAttributeTasks(d, c)
    BY <1>4 DEF Candidates, Builds, HorizonMechanisms
  <2> QED BY <2>1, FutureAttributeReady
<1>5. CASE mechanism = "temporal_relational_aggregate"
  <2>1. c \in TemporalAggregateCandidates(d) /\ built \in TemporalAggregateTasks(d, c)
    BY <1>5 DEF Candidates, Builds, HorizonMechanisms
  <2> QED BY <2>1, TemporalAggregateReady
<1>6. CASE mechanism = "interaction_response"
  <2>1. c \in InteractionCandidates(d) /\ built \in InteractionTasks(d, c)
    BY <1>6 DEF Candidates, Builds, HorizonMechanisms
  <2> QED BY <2>1, InteractionReady
<1>7. CASE mechanism = "relational_classification"
  <2>1. c \in CompositeCandidates(families) /\ built \in CompositeTasksOf(d, c)
    BY <1>7 DEF Candidates, Builds, HorizonMechanisms
  <2> QED BY <2>1, CompositeReady
<1> QED BY <1>1, <1>2, <1>3, <1>4, <1>5, <1>6, <1>7 DEF Mechanisms, AttributeMechanisms

-----------------------------------------------------------------------------
(* The calendar. *)

(* Two plans that differ in their calendar at most.                        *)
ButForCalendar(p, q) == \A f \in DOMAIN EmptyPlan \ {"calendar"} : p[f] = q[f]

LEMMA FieldsOfPlan ==
  ASSUME NEW p, NEW q, ButForCalendar(p, q)
  PROVE  /\ p.mechanism = q.mechanism /\ p.target = q.target /\ p.source = q.source /\ p.column = q.column
         /\ p.from = q.from /\ p.key = q.key /\ p.item = q.item /\ p.cutoff = q.cutoff
         /\ p.horizon = q.horizon /\ p.rowCutoff = q.rowCutoff /\ p.rules = q.rules /\ p.paths = q.paths
         /\ p.operator = q.operator /\ p.threshold = q.threshold /\ p.windows = q.windows
         /\ p.classes = q.classes /\ p.passes = q.passes /\ p.retries = q.retries /\ p.spec = q.spec
         /\ p.semantics = q.semantics
BY DEF ButForCalendar, EmptyPlan

LEMMA EntityValuesOfFields ==
  ASSUME NEW d, NEW p, NEW q, ButForCalendar(p, q)
  PROVE  ProgramEntityValues(d, p) = ProgramEntityValues(d, q)
<1> DEFINE Valued(target, source, key, cutoff, horizon, semantics, from, threshold) ==
      LET time == d.time[source]
          selected == {e \in RowsOf(d, source) :
                         /\ d.ref[key][e] # 0
                         /\ time[e] > cutoff /\ time[e] <= horizon
                         /\ semantics = 2 => d.value[source][from][e] > threshold}
          Count(r) == Cardinality({e \in selected : d.ref[key][e] = r})
      IN [r \in RowsOf(d, target) |->
            Bit(IF semantics \in {2, 4} THEN Count(r) > 0 ELSE Count(r) > threshold)]
<1>1. /\ ProgramEntityValues(d, p)
           = Valued(p.target, p.source, p.key, p.cutoff, p.horizon, p.semantics, p.from, p.threshold)
      /\ ProgramEntityValues(d, q)
           = Valued(q.target, q.source, q.key, q.cutoff, q.horizon, q.semantics, q.from, q.threshold)
  BY DEF ProgramEntityValues
<1> HIDE DEF Valued
<1> QED BY <1>1, FieldsOfPlan

(* The calendar has no part in the labels.                                 *)
LEMMA LabelsOfFields ==
  ASSUME NEW d, NEW p, NEW q, ButForCalendar(p, q), p.mechanism \in Mechanisms
  PROVE  MechanismLabels(d, p) = MechanismLabels(d, q)
<1>0. /\ p.mechanism = q.mechanism /\ p.target = q.target /\ p.source = q.source /\ p.column = q.column
      /\ p.from = q.from /\ p.key = q.key /\ p.item = q.item /\ p.cutoff = q.cutoff
      /\ p.horizon = q.horizon /\ p.rowCutoff = q.rowCutoff /\ p.rules = q.rules /\ p.paths = q.paths
      /\ p.operator = q.operator /\ p.threshold = q.threshold /\ p.windows = q.windows
      /\ p.classes = q.classes /\ p.passes = q.passes /\ p.retries = q.retries /\ p.spec = q.spec
      /\ p.semantics = q.semantics
  BY FieldsOfPlan
<1> DEFINE Meaning(plan) == CHOOSE s \in plan.spec : TRUE
           Path(plan) == CHOOSE x \in plan.paths : TRUE
           Scores(plan) == PathSourceScores(d, plan.target, Path(plan), plan.source, plan.from)
<1>1. CASE p.mechanism = "relational_classification"
  <2>1. Meaning(p) = Meaning(q)
    BY <1>0
  <2>2. \A plan : plan.mechanism = "relational_classification" =>
          MechanismLabels(d, plan) = CompositeLabels(d, plan.target, Meaning(plan), plan.threshold, plan.cutoff)
    BY DEF MechanismLabels
  <2> HIDE DEF Meaning
  <2> QED BY <1>0, <1>1, <2>1, <2>2
<1>2. CASE p.mechanism = "random_column"
  <2>1. \A plan : plan.mechanism = "random_column" =>
          MechanismLabels(d, plan) = Above(d.value[plan.target][plan.column], plan.threshold)
    BY DEF MechanismLabels
  <2> QED BY <1>0, <1>2, <2>1
<1>3. CASE p.mechanism = "interaction_response"
  <2>1. \A plan : plan.mechanism = "interaction_response" => MechanismLabels(d, plan) = plan.passes[plan.retries + 1]
    BY DEF MechanismLabels, Replayed
  <2> QED BY <1>0, <1>3, <2>1
<1>4. CASE p.mechanism = "entity_future_event_existence"
  <2>1. ProgramEntityValues(d, p) = ProgramEntityValues(d, q)
    BY EntityValuesOfFields
  <2>2. /\ MechanismLabels(d, p) = IF \/ p.semantics \in {3, 4, 5}
                                      \/ p.semantics = 2 /\ p.from # NoColumn
                                   THEN ProgramEntityValues(d, p)
                                   ELSE FutureExistence(d, p.key, p.cutoff, p.horizon)
        /\ MechanismLabels(d, q) = IF \/ q.semantics \in {3, 4, 5}
                                      \/ q.semantics = 2 /\ q.from # NoColumn
                                   THEN ProgramEntityValues(d, q)
                                   ELSE FutureExistence(d, q.key, q.cutoff, q.horizon)
    BY <1>0, <1>4, ExistenceLabels
  <2> QED BY <1>0, <2>1, <2>2
<1>5. CASE p.mechanism = "history_gated_future_activity"
  <2>1. \A plan : plan.mechanism = "history_gated_future_activity" =>
          MechanismLabels(d, plan) = HistoryGated(d, plan.key, plan.cutoff, plan.horizon)
    BY DEF MechanismLabels
  <2> QED BY <1>0, <1>5, <2>1
<1>6. CASE p.mechanism = "history_gated_future_inactive"
  <2>1. \A plan : plan.mechanism = "history_gated_future_inactive" =>
          MechanismLabels(d, plan) = HistoryGatedFuture(d, plan.key, plan.cutoff, plan.horizon, FALSE)
    BY DEF MechanismLabels
  <2> QED BY <1>0, <1>6, <2>1
<1>7. CASE p.mechanism = "history_gated_future_active"
  <2>1. \A plan : plan.mechanism = "history_gated_future_active" =>
          MechanismLabels(d, plan) = HistoryGatedFuture(d, plan.key, plan.cutoff, plan.horizon, TRUE)
    BY DEF MechanismLabels
  <2> QED BY <1>0, <1>7, <2>1
<1>8. CASE p.mechanism \in {"relation_attribute", "future_event_attribute_condition"}
  <2>1. Scores(p) = Scores(q)
    BY <1>0
  <2>2. \A plan : plan.mechanism \in {"relation_attribute", "future_event_attribute_condition"} =>
          MechanismLabels(d, plan) = IF plan.classes > 0 THEN CategoricalQuantiles(Scores(plan), plan.classes)
                                     ELSE Above(Scores(plan), plan.threshold)
    BY DEF MechanismLabels
  <2> HIDE DEF Scores
  <2> QED BY <1>0, <1>8, <2>1, <2>2
<1>9. CASE p.mechanism = "temporal_relational_aggregate"
  <2>1. WindowOf(p) = WindowOf(q)
    BY <1>0 DEF WindowOf
  <2>2. CutoffsOf(d, p) = CutoffsOf(d, q)
    BY <1>0 DEF CutoffsOf
  <2>3. /\ MechanismLabels(d, p)
             = Above(WindowedAggregates(d, WindowOf(p), CutoffsOf(d, p), p.windows), p.threshold)
        /\ MechanismLabels(d, q)
             = Above(WindowedAggregates(d, WindowOf(q), CutoffsOf(d, q), q.windows), q.threshold)
    BY <1>0, <1>9, AggregateLabels
  <2> QED BY <1>0, <2>1, <2>2, <2>3
<1> QED BY <1>1, <1>2, <1>3, <1>4, <1>5, <1>6, <1>7, <1>8, <1>9
        DEF Mechanisms, HorizonMechanisms, AttributeMechanisms

(* A ready task is valid in every calendar of the database that it fits.   *)
LEMMA ReadyValid ==
  ASSUME NEW d, DatabaseWellFormed(d), NEW built, TaskReady(d, built), NEW task,
         task.support = built.support, task.query = built.query, task.labels = built.labels,
         ButForCalendar(task.plan, built.plan),
         task.plan.calendar # << >> =>
           CalendarHolds(task.plan.calendar, {d}) /\ FitsCalendar(task.plan, task.plan.calendar)
  PROVE  PlanWellFormed(task.plan) /\ DataWellFormed(task) /\ TaskValid(d, task) /\ LabelOrFeature(task.plan)
<1> DEFINE p == task.plan
           q == built.plan
           calendar == p.calendar
<1> HIDE DEF p, q
<1>1. /\ p.mechanism = q.mechanism /\ p.target = q.target /\ p.source = q.source /\ p.column = q.column
      /\ p.from = q.from /\ p.key = q.key /\ p.item = q.item /\ p.cutoff = q.cutoff
      /\ p.horizon = q.horizon /\ p.rowCutoff = q.rowCutoff /\ p.rules = q.rules /\ p.paths = q.paths
      /\ p.operator = q.operator /\ p.threshold = q.threshold /\ p.windows = q.windows
      /\ p.classes = q.classes /\ p.passes = q.passes /\ p.retries = q.retries /\ p.spec = q.spec
      /\ p.semantics = q.semantics
  BY FieldsOfPlan DEF p, q
<1>2. /\ PlanReady(d, q) /\ DataWellFormed(built)
      /\ TwoClasses(built.labels, built.support) /\ TwoClasses(built.labels, built.query)
      /\ Rows(built) \subseteq RowsInView(d, q)
      /\ \A r \in Rows(built) : built.labels[r] = MechanismLabels(d, q)[r] /\ built.labels[r] >= 0
  BY DEF TaskReady, q
<1>3. calendar # << >> => CalendarHolds(calendar, {d}) /\ FitsCalendar(p, calendar)
  BY DEF p
<1>4. MechanismLabels(d, p) = MechanismLabels(d, q)
  <2>1. p.mechanism \in Mechanisms
    BY <1>1, <1>2 DEF PlanReady
  <2>2. ButForCalendar(p, q)
    BY DEF p, q
  <2> QED BY <2>1, <2>2, LabelsOfFields
<1>5. PlanWellFormed(p)
  <2>1. calendar # << >> => \A w \in ToSet(p.windows) : w \in 0..(calendar[2] - calendar[1])
    <3> SUFFICES ASSUME calendar # << >>, NEW w \in ToSet(q.windows)
                 PROVE  w \in 0..(calendar[2] - calendar[1])
      BY <1>1
    <3>1. PICK t \in Timed : \E a, b \in Times(d, t) : w \in 0..(b - a)
      BY <1>2 DEF PlanReady, WindowsFit
    <3>2. PICK a \in Times(d, t), b \in Times(d, t) : w \in 0..(b - a)
      BY <3>1
    <3>3. calendar \in Nat \X Nat /\ Times(d, t) \subseteq calendar[1]..calendar[2]
      BY <1>3 DEF CalendarHolds
    <3>4. a \in calendar[1]..calendar[2] /\ b \in calendar[1]..calendar[2]
          /\ calendar[1] \in Nat /\ calendar[2] \in Nat
      BY <3>3
    <3> QED BY <3>2, <3>4
  <2>2. PlanWellFormed(q)
    BY <1>2 DEF PlanReady
  <2>3. calendar # << >> =>
          /\ \A x \in {p.cutoff, p.horizon} \ {NoTime} : Within(calendar, x)
          /\ p.rules # NoTime /\ Timed # {} => Within(calendar, p.rules)
    BY <1>3 DEF FitsCalendar
  <2> QED BY <1>1, <2>1, <2>2, <2>3 DEF PlanWellFormed
<1>6. DataWellFormed(task)
  BY <1>2 DEF DataWellFormed
<1>7. Rows(task) = Rows(built) /\ RowsInView(d, p) = RowsInView(d, q)
  BY <1>1 DEF Rows, RowsInView
<1>8. LabelsValid(d, task)
  BY <1>2, <1>4, <1>7 DEF LabelsValid, Rows, p
<1>9. p.spec # {} => CompositeValid(task)
  <2> SUFFICES ASSUME p.spec # {} PROVE CompositeValid(task)
    OBVIOUS
  <2>1. SpecReady(q)
    BY <1>1, <1>2 DEF PlanReady
  <2>2. SpecAggregates(p) = SpecAggregates(q)
    BY <1>1 DEF SpecAggregates
  <2>3. FutureHidden(p)
    BY <1>1, <2>1 DEF SpecReady, FutureHidden
  <2>4. \A r \in Rows(task) : task.labels[r] >= 0
    BY <1>2, <1>7
  <2>5. \A a \in SpecAggregates(p) :
          /\ Contiguous(p.target, a.path) /\ Endpoint(p.target, a.path) \in Timed
          /\ a.operator # "count" => a.column # NoColumn
    BY <1>1, <2>1, <2>2 DEF SpecReady
  <2>6. calendar # << >> => \A a \in SpecAggregates(p) :
          Within(calendar, p.cutoff + a.start) /\ Within(calendar, p.cutoff + a.end)
    BY <1>1, <1>3, <2>1 DEF SpecReady, FitsCalendar
  <2> QED BY <2>3, <2>4, <2>5, <2>6 DEF CompositeValid, Rows, p
<1>10. TaskValid(d, task)
  <2>1. /\ p.rowCutoff => p.target \in Timed
        /\ p.mechanism \in AttributeMechanisms => p.column \in Features[p.target]
        /\ p.mechanism \in HorizonMechanisms => FutureHidden(p)
    BY <1>1, <1>2 DEF PlanReady, FutureHidden
  <2>2. RoutesValid(p)
    BY <1>1, <1>2 DEF PlanReady, RoutesValid
  <2> QED BY <1>2, <1>7, <1>8, <1>9, <2>1, <2>2 DEF TaskValid, Rows, p
<1>11. LabelOrFeature(p)
  BY <1>1, <1>2 DEF PlanReady, LabelOrFeature
<1> QED BY <1>5, <1>6, <1>10, <1>11 DEF p

LEMMA BoundValid ==
  ASSUME NEW d, DatabaseWellFormed(d), NEW calendar, calendar # << >> => CalendarHolds(calendar, {d}),
         NEW built, TaskReady(d, built), IsTask(BindCalendar(built, calendar))
  PROVE  LET task == BindCalendar(built, calendar)
         IN PlanWellFormed(task.plan) /\ DataWellFormed(task) /\ TaskValid(d, task) /\ LabelOrFeature(task.plan)
<1> DEFINE task == BindCalendar(built, calendar)
<1>1. CASE calendar = << >>
  <2>1. task = built
    BY <1>1 DEF BindCalendar
  <2>2. task.plan.calendar = << >> /\ ButForCalendar(task.plan, built.plan)
    BY <2>1 DEF TaskReady, PlanReady, ButForCalendar
  <2> HIDE DEF task
  <2>3. PlanWellFormed(task.plan) /\ DataWellFormed(task) /\ TaskValid(d, task) /\ LabelOrFeature(task.plan)
    BY <2>1, <2>2, ReadyValid
  <2> QED BY <2>3 DEF task
<1>2. CASE calendar # << >>
  <2>1. FitsCalendar(built.plan, calendar) /\ task = [built EXCEPT !.plan.calendar = calendar]
    BY <1>2 DEF BindCalendar, IsTask, NoTask
  <2>2. /\ task.support = built.support /\ task.query = built.query /\ task.labels = built.labels
        /\ task.plan = [built.plan EXCEPT !.calendar = calendar]
    BY <2>1 DEF TaskReady
  <2>3. task.plan.calendar = calendar /\ ButForCalendar(task.plan, built.plan)
    BY <2>2 DEF TaskReady, PlanReady, ButForCalendar, EmptyPlan
  <2> HIDE DEF task
  <2>4. FitsCalendar(task.plan, calendar)
    <3>1. /\ task.plan.cutoff = built.plan.cutoff /\ task.plan.horizon = built.plan.horizon
          /\ task.plan.rules = built.plan.rules /\ task.plan.windows = built.plan.windows
          /\ task.plan.spec = built.plan.spec
      BY <2>3, FieldsOfPlan
    <3>2. SpecAggregates(task.plan) = SpecAggregates(built.plan)
      BY <3>1 DEF SpecAggregates
    <3> QED BY <2>1, <3>1, <3>2 DEF FitsCalendar
  <2>5. PlanWellFormed(task.plan) /\ DataWellFormed(task) /\ TaskValid(d, task) /\ LabelOrFeature(task.plan)
    BY <1>2, <2>2, <2>3, <2>4, ReadyValid
  <2> QED BY <2>5 DEF task
<1> QED BY <1>1, <1>2

-----------------------------------------------------------------------------
(* Every task an executed program gives is ready. *)

(* No foreign key leads from an entity up to a table with times.           *)
LEMMA EntitiesClimbToStatic ==
  ASSUME NEW t \in Tables, Role[t] = "entity", NEW p \in Seq(DOMAIN Keys), Climbs(t, p)
  PROVE  Endpoint(t, p) \notin Timed
<1> DEFINE n == Len(p)
           stops == Stops(t, p)
           T == {k \in 0..n : Role[stops[k]] \notin {"entity", "lookup"}}
<1>1. n \in Nat /\ \A k \in 1..n : p[k] \in DOMAIN Keys
  BY LenProperties
<1>2. stops[0] = t /\ \A k \in 1..n : stops[k] = Across(p[k], stops[k - 1])
  <2>1. /\ DOMAIN Stops(t, p) = 0..Len(p) /\ Stops(t, p)[0] = t
        /\ \A k \in 1..Len(p) : Stops(t, p)[k] = Across(p[k], Stops(t, p)[k - 1])
    BY <1>1, StopsSteps
  <2> QED BY <2>1
<1>3. \A k \in 1..n : Keys[p[k]].child = stops[k - 1]
  BY DEF Climbs
<1> HIDE DEF n, stops
<1>4. T = {}
  <2> SUFFICES ASSUME T # {} PROVE FALSE
    OBVIOUS
  <2>1. T \in SUBSET Nat
    BY <1>1
  <2> HIDE DEF T
  <2>2. PICK k \in T : \A j \in T : k <= j
    BY <2>1, LeastNatural
  <2>3. k \in 0..n /\ Role[stops[k]] \notin {"entity", "lookup"}
    BY <2>2 DEF T
  <2>4. k \in 1..n /\ k - 1 \in 0..n /\ k - 1 \notin T
    BY <1>1, <1>2, <2>2, <2>3
  <2>5. Role[stops[k - 1]] \in {"entity", "lookup"}
    BY <2>4 DEF T
  <2>6. p[k] \in DOMAIN Keys /\ Keys[p[k]].child = stops[k - 1] /\ stops[k] = Keys[p[k]].parent
    BY <1>1, <1>2, <1>3, <2>4 DEF Across
  <2>7. Role[Keys[p[k]].parent] \in {"entity", "lookup"}
    BY <2>5, <2>6, EntitiesAreStatic
  <2> QED BY <2>3, <2>6, <2>7
<1>5. Role[stops[n]] \in {"entity", "lookup"}
  BY <1>1, <1>4
<1>6. stops[n] \notin Timed
  BY <1>5, SchemaWellFormed
<1> QED BY <1>6 DEF Endpoint, n, stops

(* No cutoff hides an entity.                                              *)
LEMMA EntitiesAreVisible ==
  ASSUME NEW d, NEW t \in Tables, Role[t] = "entity", NEW c
  PROVE  VisibleRows(d, t, c) = RowsOf(d, t)
<1>1. t \notin Timed
  BY SchemaWellFormed
<1>2. ObservedRows(d, t, c) = RowsOf(d, t)
  BY <1>1 DEF ObservedRows
<1>3. \A route \in TimedAncestors : route[1] # t
  <2> SUFFICES ASSUME NEW r \in Routes, \A k \in 1..Len(r[2]) : Keys[r[2][k]].child = Stops(r[1], r[2])[k - 1],
                      Endpoint(r[1], r[2]) \in Timed, r[1] = t
               PROVE  FALSE
    BY DEF TimedAncestors
  <2>1. PICK x \in Tables, p \in BoundedSeq(DOMAIN Keys, Cardinality(Tables) - 1) : r = <<x, p>>
    BY DEF Routes
  <2>2. p \in Seq(DOMAIN Keys)
    <3>1. PICK m \in 0..(Cardinality(Tables) - 1) : p \in [1..m -> DOMAIN Keys]
      BY <2>1 DEF BoundedSeq, SeqOf
    <3>2. m \in Nat
      BY <3>1
    <3>3. \A f \in [1..m -> DOMAIN Keys] : f \in Seq(DOMAIN Keys)
      BY <3>2, FunctionIsSeq
    <3> QED BY <3>1, <3>3
  <2>3. x = t /\ Climbs(t, p) /\ Endpoint(t, p) \in Timed
    BY <2>1 DEF Climbs
  <2> QED BY <2>2, <2>3, EntitiesClimbToStatic
<1> QED BY <1>2, <1>3 DEF VisibleRows

(* A program that may be executed, as it is drawn.                         *)
ProgramReady(program) ==
  /\ ProgramSound(program) /\ ProgramPlanValid(program)
  /\ program.cutoff \in Nat /\ Role[Keys[program.key].parent] = "entity"

(* The validator computes the labels of an executed program again.         *)
LEMMA ExecutionReplayed ==
  ASSUME NEW d, NEW program, ProgramReady(program), NEW labels \in EntityLabels(d, program)
  PROVE  MechanismLabels(d, ProgramTaskPlan(program)) = labels
<1> DEFINE plan == ProgramTaskPlan(program)
           event == Keys[program.key].child
           rows == RowsOf(d, Keys[program.key].parent)
           existence == FutureExistence(d, program.key, program.cutoff, program.horizon)
           Later == {e \in RowsOf(d, event) : /\ d.ref[program.key][e] # 0
                                               /\ d.time[event][e] > program.cutoff
                                               /\ d.time[event][e] <= program.horizon}
           Above2 == {e \in Later : d.value[event][program.attribute][e] > program.threshold}
           Count(r, events) == Cardinality({e \in events : d.ref[program.key][e] = r})
<1>1. /\ plan.mechanism = MechanismForFamily(program.family)
      /\ plan.target = Keys[program.key].parent /\ plan.source = event
      /\ plan.key = program.key /\ plan.cutoff = program.cutoff /\ plan.horizon = program.horizon
      /\ plan.from = program.attribute /\ plan.threshold = program.threshold
      /\ plan.semantics = SemanticsCode[program.family]
  BY DEF ProgramTaskPlan, Plan, EmptyPlan
<1> HIDE DEF plan
<1>2. CASE program.family = "future_event_existence"
  <2>1. labels = existence
    <3>1. EntityLabels(d, program) = {existence}
      BY ONLY <1>2 DEF EntityLabels
    <3> HIDE DEF existence
    <3> QED BY <3>1
  <2>2. plan.mechanism = "entity_future_event_existence" /\ plan.semantics = 1
    BY <1>1, <1>2 DEF MechanismForFamily, SemanticsCode
  <2>3. MechanismLabels(d, plan) =
          IF \/ plan.semantics \in {3, 4, 5}
             \/ plan.semantics = 2 /\ plan.from # NoColumn
          THEN ProgramEntityValues(d, plan)
          ELSE FutureExistence(d, plan.key, plan.cutoff, plan.horizon)
    BY <2>2, ExistenceLabels
  <2> QED BY <1>1, <2>1, <2>2, <2>3 DEF plan
<1>3. CASE program.family \in HistoryGatedSubmodes
  <2> DEFINE Gated(positive) == HistoryGatedFuture(d, program.key, program.cutoff, program.horizon, positive)
  <2>1. plan.mechanism = program.family
    BY <1>1, <1>3 DEF MechanismForFamily, HistoryGatedSubmodes
  <2>2. CASE program.family = "history_gated_future_active"
    <3>1. EntityLabels(d, program) = {Gated(TRUE)}
      BY ONLY <2>2 DEF EntityLabels
    <3>2. MechanismLabels(d, plan) = HistoryGatedFuture(d, plan.key, plan.cutoff, plan.horizon, TRUE)
      BY <2>1, <2>2 DEF MechanismLabels
    <3>3. MechanismLabels(d, plan) = Gated(TRUE)
      BY <1>1, <3>2
    <3> HIDE DEF Gated
    <3> QED BY <3>1, <3>3 DEF plan
  <2>3. CASE program.family = "history_gated_future_inactive"
    <3>1. EntityLabels(d, program) = {Gated(FALSE)}
      BY ONLY <2>3 DEF EntityLabels
    <3>2. MechanismLabels(d, plan) = HistoryGatedFuture(d, plan.key, plan.cutoff, plan.horizon, FALSE)
      BY <2>1, <2>3 DEF MechanismLabels
    <3>3. MechanismLabels(d, plan) = Gated(FALSE)
      BY <1>1, <3>2
    <3> HIDE DEF Gated
    <3> QED BY <3>1, <3>3 DEF plan
  <2> QED BY <1>3, <2>2, <2>3 DEF HistoryGatedSubmodes
<1> DEFINE Valued(selected, some) ==
      [r \in RowsOf(d, plan.target) |->
         Bit(IF some THEN Cardinality({e \in selected : d.ref[plan.key][e] = r}) > 0
             ELSE Cardinality({e \in selected : d.ref[plan.key][e] = r}) > plan.threshold)]
           Selected == {e \in RowsOf(d, plan.source) :
                          /\ d.ref[plan.key][e] # 0
                          /\ d.time[plan.source][e] > plan.cutoff /\ d.time[plan.source][e] <= plan.horizon
                          /\ plan.semantics = 2 => d.value[plan.source][plan.from][e] > plan.threshold}
<1>4. ProgramEntityValues(d, plan) = Valued(Selected, plan.semantics \in {2, 4})
  BY DEF ProgramEntityValues
<1>5. plan.semantics # 2 => Selected = Later
  BY <1>1
<1>6. plan.semantics = 2 => Selected = Above2
  BY <1>1
<1>7. ASSUME plan.mechanism = "entity_future_event_existence",
             plan.semantics \in {3, 4, 5} \/ (plan.semantics = 2 /\ plan.from # NoColumn)
      PROVE  MechanismLabels(d, plan) = ProgramEntityValues(d, plan)
  <2>1. MechanismLabels(d, plan) =
          IF \/ plan.semantics \in {3, 4, 5}
             \/ plan.semantics = 2 /\ plan.from # NoColumn
          THEN ProgramEntityValues(d, plan)
          ELSE FutureExistence(d, plan.key, plan.cutoff, plan.horizon)
    BY <1>7, ExistenceLabels
  <2> QED BY <1>7, <2>1
<1> DEFINE Some(events) == [r \in rows |-> Bit(Count(r, events) > 0)]
           Many(events) == [r \in rows |-> Bit(Count(r, events) > program.threshold)]
<1>8. \A events : Valued(events, TRUE) = Some(events) /\ Valued(events, FALSE) = Many(events)
  BY <1>1
<1>9. CASE program.family = "future_event_attribute"
  <2>1. program.attribute # NoColumn /\ EntityLabels(d, program) = {Some(Above2)}
    <3>1. EntityLabels(d, program) = IF program.attribute = NoColumn THEN {} ELSE {Some(Above2)}
      BY ONLY <1>9 DEF EntityLabels
    <3> HIDE DEF Some, Above2
    <3> QED BY <3>1
  <2>2. plan.mechanism = "entity_future_event_existence" /\ plan.semantics = 2
    BY <1>1, <1>9 DEF MechanismForFamily, SemanticsCode
  <2> HIDE DEF Some, Many, Valued, Above2, Later, Selected
  <2>3. ProgramEntityValues(d, plan) = Some(Above2)
    <3>1. (plan.semantics \in {2, 4}) = TRUE
      BY <2>2
    <3>2. ProgramEntityValues(d, plan) = Valued(Above2, TRUE)
      BY <1>4, <1>6, <2>2, <3>1
    <3> QED BY <1>8, <3>2
  <2> QED BY <1>1, <1>7, <2>1, <2>2, <2>3 DEF plan
<1>10. CASE program.family = "interaction_response"
  <2>1. EntityLabels(d, program) = {Some(Later)}
    BY ONLY <1>10 DEF EntityLabels
  <2>2. plan.mechanism = "entity_future_event_existence" /\ plan.semantics = 4
    BY <1>1, <1>10 DEF MechanismForFamily, SemanticsCode
  <2> HIDE DEF Some, Many, Valued, Above2, Later, Selected
  <2>3. ProgramEntityValues(d, plan) = Some(Later)
    <3>1. (plan.semantics \in {2, 4}) = TRUE /\ plan.semantics # 2
      BY <2>2
    <3>2. ProgramEntityValues(d, plan) = Valued(Later, TRUE)
      BY <1>4, <1>5, <3>1
    <3> QED BY <1>8, <3>2
  <2> QED BY <1>7, <2>1, <2>2, <2>3 DEF plan
<1>11. CASE program.family \in {"temporal_aggregate", "multi_hop_program"}
  <2>1. EntityLabels(d, program) = {Many(Later)}
    <3>1. CASE program.family = "temporal_aggregate"
      BY ONLY <3>1 DEF EntityLabels
    <3>2. CASE program.family = "multi_hop_program"
      BY ONLY <3>2 DEF EntityLabels
    <3> QED BY <1>11, <3>1, <3>2
  <2>2. plan.mechanism = "entity_future_event_existence" /\ plan.semantics \in {3, 5}
    BY <1>1, <1>11 DEF MechanismForFamily, SemanticsCode
  <2> HIDE DEF Some, Many, Valued, Above2, Later, Selected
  <2>3. ProgramEntityValues(d, plan) = Many(Later)
    <3>1. (plan.semantics \in {2, 4}) = FALSE /\ plan.semantics # 2
      BY <2>2
    <3>2. ProgramEntityValues(d, plan) = Valued(Later, FALSE)
      BY <1>4, <1>5, <3>1
    <3> QED BY <1>8, <3>2
  <2> QED BY <1>7, <2>1, <2>2, <2>3 DEF plan
<1> QED BY <1>2, <1>3, <1>9, <1>10, <1>11 DEF ProgramReady, ProgramSound, SemanticsCode, HistoryGatedSubmodes

LEMMA ExecutionReady ==
  ASSUME NEW d, DatabaseWellFormed(d), NEW program, ProgramReady(program), NEW rate,
         NEW task \in Executions(d, program, rate)
  PROVE  TaskReady(d, task) /\ task.plan.column = "__label__"
<1> DEFINE plan == ProgramTaskPlan(program)
           key == program.key
<1>1. PICK labels \in EntityLabels(d, program) : task \in ProgramTasks(plan, labels, rate)
  BY DEF Executions
<1> DEFINE rows == Labelled(labels)
<1>2. PICK s \in StratifiedSplits(labels, rows) :
        task = [plan |-> plan, support |-> s.support, query |-> s.query, labels |-> [r \in rows |-> labels[r]]]
  BY <1>1 DEF ProgramTasks
<1>3. s.support \subseteq rows /\ s.query = rows \ s.support
  BY StratifiedDivides
<1>4. /\ DOMAIN plan = DOMAIN EmptyPlan /\ plan.mechanism = MechanismForFamily(program.family)
      /\ plan.target = Keys[key].parent /\ plan.source = Keys[key].child
      /\ plan.key = key /\ plan.cutoff = program.cutoff /\ plan.rules = program.cutoff
      /\ plan.horizon = program.horizon /\ plan.rowCutoff = FALSE /\ plan.paths = {<<key>>}
      /\ plan.calendar = << >> /\ plan.spec = {} /\ plan.windows = << >> /\ plan.column = "__label__"
  BY DEF ProgramTaskPlan, Plan, EmptyPlan
<1> HIDE DEF plan
<1>5. /\ key \in DOMAIN Keys /\ program.cutoff \in Nat /\ program.horizon > program.cutoff
      /\ Role[Keys[key].parent] = "entity" /\ Keys[key].parent \in Tables
      /\ Keys[key].child \in Tables /\ Keys[key].parent # Keys[key].child
  BY KeyTables DEF ProgramReady, ProgramSound, ProgramPlanValid
<1>6. MechanismLabels(d, plan) = labels
  BY ExecutionReplayed DEF plan
<1>7. DOMAIN labels = RowsOf(d, plan.target)
  <2>1. /\ DOMAIN labels = RowsOf(d, Keys[program.key].parent)
        /\ MechanismForFamily(program.family) \in HistoryGatedSubmodes =>
             Labelled(labels) \subseteq WithHistory(d, program.key, program.cutoff)
        /\ \A r \in DOMAIN labels : labels[r] \in {-1} \cup 0..TopLabel
    BY ExecutionLabels DEF ProgramReady
  <2> QED BY <1>4, <2>1
<1>8. rows \subseteq DOMAIN labels /\ \A r \in rows : labels[r] >= 0
  BY DEF Labelled
<1> HIDE DEF rows
<1>9. Rows(task) = rows /\ \A r \in rows : task.labels[r] = labels[r] /\ task.labels[r] >= 0
  BY <1>2, <1>3, <1>8 DEF Rows
<1>10. /\ task.support # {} /\ task.query # {}
       /\ TwoClasses(task.labels, task.support) /\ TwoClasses(task.labels, task.query)
  <2>1. IsFiniteSet(rows)
    <3>1. IsFiniteSet(RowsOf(d, plan.target))
      BY <1>4, <1>5, RowsFinite
    <3> QED BY <1>7, <1>8, <3>1, FS_Subset
  <2>2. SplitKept(labels, s.support, s.query)
    BY <2>1, StratifiedKeeps
  <2>3. task.support = s.support /\ task.query = s.query /\ \A r \in s.support \cup s.query : task.labels[r] = labels[r]
    BY <1>2, <1>3
  <2>4. SplitKept(task.labels, task.support, task.query)
    BY <2>2, <2>3, KeptByRows
  <2> QED BY <2>4, KeptClasses
<1>11. DataWellFormed(task)
  BY <1>2, <1>3, <1>10 DEF DataWellFormed
<1>12. RowsInView(d, plan) = RowsOf(d, plan.target)
  BY <1>4, <1>5, EntitiesAreVisible DEF RowsInView
<1>13. PlanReady(d, plan)
  <2>1. plan.mechanism \in HorizonMechanisms
    BY <1>4 DEF MechanismForFamily, HorizonMechanisms
  <2>2. /\ plan.mechanism \in Mechanisms /\ plan.mechanism \notin AttributeMechanisms
        /\ plan.mechanism # "interaction_response"
    BY <2>1 DEF Mechanisms, HorizonMechanisms, AttributeMechanisms
  <2>3. key # 0
    <3>1. Keys \in Seq([child : Tables, parent : Tables])
      BY SchemaWellFormed
    <3>2. DOMAIN Keys = 1..Len(Keys) /\ Len(Keys) \in Nat
      BY <3>1, LenProperties
    <3> QED BY <1>5, <3>2
  <2>4. RoutesValid(plan)
    <3>1. Contiguous(plan.target, <<key>>) /\ Endpoint(plan.target, <<key>>) = Across(key, plan.target)
      BY <1>4, <1>5, KeyRoutes
    <3> QED BY <1>4, <1>5, <3>1 DEF RoutesValid, Across
  <2>5. plan.cutoff # NoTime /\ plan.horizon # NoTime
    BY <1>4, <1>5 DEF NoTime
  <2>6. PlanWellFormed(plan)
    BY <1>4, <1>5, <2>2, <2>3, <2>5 DEF PlanWellFormed
  <2>7. WindowsFit(d, plan)
    BY <1>4, NoWindows DEF WindowsFit
  <2> QED BY <1>4, <2>2, <2>4, <2>6, <2>7 DEF PlanReady, FutureHidden, LabelOrFeature
<1>14. task.plan = plan /\ DOMAIN task = {"plan", "support", "query", "labels"}
  BY <1>2
<1> QED BY <1>4, <1>6, <1>7, <1>8, <1>9, <1>10, <1>11, <1>12, <1>13, <1>14 DEF TaskReady

(* Every program that may be drawn within a calendar, and whose horizon    *)
(* its constructor accepts, is ready.                                      *)
LEMMA DrawnReady ==
  ASSUME NEW calendar \in Nat \X Nat, calendar[1] < calendar[2], NEW count \in Nat,
         NEW families, families \subseteq DOMAIN SemanticsCode,
         NEW plans \in ProgramPlans(calendar, count, families), NEW k \in DOMAIN plans, ProgramPlanValid(plans[k])
  PROVE  ProgramReady(plans[k])
<1>0. ProgramSound(plans[k])
  BY DrawnSound
<1>1. \E index \in 1..count, family \in families : plans[k] \in ProgramDraws(calendar, index, family)
  <2> DEFINE Drawn == UNION {ProgramDraws(calendar, index, family) : index \in 1..count, family \in families}
  <2>1. plans \in UNION {[1..count -> Drawn]}
    BY DEF ProgramPlans
  <2>2. plans[k] \in Drawn
    <3> HIDE DEF Drawn
    <3>1. plans \in [1..count -> Drawn]
      BY <2>1
    <3> QED BY <3>1
  <2> QED BY <2>2
<1>2. PICK index \in 1..count, family \in families : plans[k] \in ProgramDraws(calendar, index, family)
  BY <1>1
<1> DEFINE key == Bundles[1 + ((index - 1) % Len(Bundles))]
           span == calendar[2] - calendar[1]
           After(cutoff) == {[from |-> cutoff, to |-> MinOf(calendar[2], cutoff + MaxOf(1, h))] :
                               h \in Fraction(span, ProgramHorizonPercent)}
           windows == UNION {After(calendar[1] + c) : c \in Fraction(span, ProgramCutoffPercent)}
<1>3. \E window \in windows : plans[k].key = key /\ plans[k].cutoff = window.from
  <2> HIDE DEF windows, key
  <2> QED BY <1>2 DEF ProgramDraws, windows, key
<1>4. Role[Keys[key].parent] = "entity"
  <2>1. Bundles \in Seq(DOMAIN Keys) /\ Len(Bundles) \in Nat /\ Len(Bundles) > 0
    BY BundlesJoin, EmptySeq, LenProperties
  <2>2. 1 + ((index - 1) % Len(Bundles)) \in 1..Len(Bundles)
    BY <2>1
  <2>3. key \in ToSet(Bundles)
    BY <2>1, <2>2, LenProperties DEF ToSet
  <2> QED BY <2>3, BundlesJoin
<1>5. \A window \in windows : window.from \in Nat
  <2>1. calendar[1] \in Nat /\ span \in Nat
    OBVIOUS
  <2>2. ProgramCutoffPercent[1] \in Nat /\ ProgramCutoffPercent[2] \in Nat
    BY ProgramFractions
  <2>3. \A c \in Fraction(span, ProgramCutoffPercent) : c \in Nat
    <3> HIDE DEF span
    <3>1. \A n \in Nat : Round(n, 100) \in Nat
      BY RoundNat
    <3>2. \A p \in ProgramCutoffPercent[1]..ProgramCutoffPercent[2] : span * p \in Nat
      BY <2>1, <2>2
    <3> QED BY <3>1, <3>2 DEF Fraction
  <2>4. \A c \in Fraction(span, ProgramCutoffPercent) : calendar[1] + c \in Nat
    BY <2>1, <2>3
  <2> HIDE DEF span
  <2>5. \A cutoff : \A window \in After(cutoff) : window.from = cutoff
    OBVIOUS
  <2> HIDE DEF After
  <2> QED BY <2>4, <2>5
<1> HIDE DEF windows, key
<1> QED BY <1>0, <1>3, <1>4, <1>5 DEF ProgramReady

-----------------------------------------------------------------------------
(* The invariant. *)

(* Only a task that was planned on a feature has one as its target column. *)
MayLeak(plan) == programs = << >> /\ plan.mechanism \in ColumnMechanisms

(* The programs are ready and the tasks valid; what was asked for as       *)
(* programs is planned as programs; a refusal of the overlay ends the run. *)
BuildersAgree ==
  /\ \A k \in DOMAIN programs : ProgramReady(programs[k])
  /\ \A k \in 1..Len(tasks) : TaskValid(db, tasks[k])
  /\ \A k \in 1..Len(tasks) : MayLeak(tasks[k].plan) \/ tasks[k].plan.column = "__label__"
  /\ databases # {} /\ programs = << >> => request.programs = 0
  /\ failure = "leakage" => stage = "failed"
  /\ BuildersMeetValidator

(* The refusals that the agreement is about.                               *)
Refusals == {"plan", "validation", "leakage"}

LEMMA RunningUnrefused == ASSUME BuildersAgree, stage # "failed" PROVE failure \notin Refusals
BY DEF BuildersAgree, BuildersMeetValidator, Refusals

(* A step that leaves what is built alone.                                 *)
LEMMA AgreementStays ==
  ASSUME BuildersAgree, UNCHANGED <<request, databases, programs, tasks>>,
         failure' \notin Refusals \/ UNCHANGED <<stage, stored, failure>>
  PROVE  BuildersAgree'
<1>1. db' = db
  BY DEF db
<1>2. BuildersMeetValidator' /\ (failure' = "leakage" => stage' = "failed")
  BY DEF BuildersAgree, BuildersMeetValidator, Refusals
<1>3. \A k \in 1..Len(tasks') : MayLeak(tasks[k].plan)' = MayLeak(tasks[k].plan)
  BY DEF MayLeak
<1> QED BY <1>1, <1>2, <1>3 DEF BuildersAgree

(* A plan that stores its labels in a column of their own does not leak.   *)
LEMMA LabelsDoNotLeak ==
  ASSUME NEW overlay, NEW plan, plan.target \in Tables, plan.column = "__label__"
  PROVE  ~Leaks(overlay, plan)
<1>1. plan.column \notin Features[plan.target]
  BY LabelIsNoColumn
<1>2. \A t, c, n : FirstOthers(t, c, n) \subseteq Features[t]
  BY DEF FirstOthers
<1> QED BY <1>1, <1>2 DEF Leaks, Sources, Drivers

(* A task is added that the validator accepts.                             *)
LEMMA AgreementGrows ==
  ASSUME ChainInv, BuildersAgree, stage = "tasks",
         NEW task, PlanWellFormed(task.plan), DataWellFormed(task), TaskValid(db, task),
         MayLeak(task.plan) \/ task.plan.column = "__label__",
         Add(task), UNCHANGED <<request, databases, programs>>
  PROVE  BuildersAgree'
<1>1. tasks' = Append(tasks, task) /\ UNCHANGED failure /\ failure \notin Refusals
  BY RunningUnrefused DEF Add
<1>2. IsSequence(tasks) /\ Len(tasks) \in Nat
  BY DEF ChainInv, StepsInOrder, IsSequence
<1>3. /\ IsSequence(tasks') /\ Len(tasks') = Len(tasks) + 1
      /\ \A k \in 1..Len(tasks) : tasks'[k] = tasks[k]
      /\ tasks'[Len(tasks) + 1] = task
  BY <1>1, <1>2, Extended
<1>4. db' = db
  BY DEF db
<1>5. \A k \in 1..Len(tasks') : k \in 1..Len(tasks) \/ k = Len(tasks) + 1
  BY <1>2, <1>3
<1>6. \A k \in 1..Len(tasks') : TaskValid(db, tasks'[k])
  BY <1>3, <1>5 DEF BuildersAgree
<1>7. \A k \in 1..Len(tasks') : (MayLeak(tasks[k].plan) \/ tasks[k].plan.column = "__label__")'
  BY <1>3, <1>5 DEF BuildersAgree, MayLeak
<1> QED BY <1>1, <1>4, <1>6, <1>7 DEF BuildersAgree, BuildersMeetValidator, Refusals

LEMMA MaterializeMeets ==
  ASSUME ChainInv, BuildersAgree, Materialize PROVE BuildersAgree'
<1>1. stage = "instance" /\ UNCHANGED <<request, tasks, signatures, stored, exported, samples>>
  BY DEF Materialize
<1>2. databases = {} /\ programs = << >> /\ tasks = << >> /\ request \in Requests
  BY <1>1 DEF ChainInv, DatabaseFixed
<1>3. PICK plans \in IF request.programs = 0 THEN {<< >>}
                     ELSE ProgramPlans(request.calendar, request.programs, request.families) :
        \/ (\A k \in DOMAIN plans : ProgramPlanValid(plans[k])) /\ \E d \in request.databases : Accept(d, plans)
        \/ Retry
  BY DEF Materialize
<1>4. CASE Retry
  <2>1. UNCHANGED <<databases, programs>> /\ (failure' = "instance" \/ UNCHANGED <<stage, stored, failure>>)
    BY <1>1, <1>4 DEF Retry, Fail
  <2> QED BY <1>1, <2>1, AgreementStays DEF Refusals
<1>5. CASE (\A k \in DOMAIN plans : ProgramPlanValid(plans[k])) /\ \E d \in request.databases : Accept(d, plans)
  <2>1. programs' = plans /\ UNCHANGED failure /\ failure \notin Refusals
    BY <1>1, <1>5, RunningUnrefused DEF Accept
  <2>2. /\ \A k \in DOMAIN plans : ProgramReady(plans[k])
        /\ plans = << >> => request.programs = 0
    <3>1. CASE request.programs = 0
      <4>1. plans = << >>
        BY <1>3, <3>1
      <4> QED BY <3>1, <4>1
    <3>2. CASE request.programs # 0
      <4>1. /\ request.programs \in Nat /\ request.programs > 0 /\ request.families \subseteq DOMAIN SemanticsCode
            /\ request.calendar \in Nat \X Nat /\ request.calendar[1] < request.calendar[2]
        BY <1>2, <3>2, RequestsWellFormed DEF CalendarHolds
      <4>2. plans \in ProgramPlans(request.calendar, request.programs, request.families)
        BY <1>3, <3>2
      <4>3. \A k \in DOMAIN plans : ProgramReady(plans[k])
        BY <4>1, <4>2, <1>5, DrawnReady
      <4>4. DOMAIN plans = 1..request.programs
        <5> DEFINE Drawn == UNION {ProgramDraws(request.calendar, index, family) :
                                     index \in 1..request.programs, family \in request.families}
        <5>1. plans \in UNION {[1..request.programs -> Drawn]}
          BY <4>2 DEF ProgramPlans
        <5> HIDE DEF Drawn
        <5> QED BY <5>1
      <4>5. 1 \in DOMAIN plans
        BY <4>1, <4>4
      <4>6. plans # << >>
        BY <4>5
      <4> QED BY <4>3, <4>6
    <3> QED BY <3>1, <3>2
  <2>3. tasks' = << >> /\ 1..Len(tasks') = {}
    <3>1. Len(<< >>) = 0 /\ 1..0 = {}
      BY EmptySequence
    <3> QED BY <1>1, <1>2, <3>1
  <2>4. UNCHANGED request
    BY <1>1
  <2> QED BY <2>1, <2>2, <2>3, <2>4 DEF BuildersAgree, BuildersMeetValidator, Refusals
<1> QED BY <1>3, <1>4, <1>5

LEMMA ExecuteMeets ==
  ASSUME ChainInv, BuildersAgree, ExecuteProgram PROVE BuildersAgree'
<1> DEFINE k == Len(tasks) + 1
<1>1. /\ stage = "tasks" /\ Len(tasks) < Len(programs)
      /\ UNCHANGED <<request, attempt, databases, programs, signatures, stored, exported, samples>>
  BY DEF ExecuteProgram
<1>2. CASE Fail("programs") /\ UNCHANGED tasks
  BY <1>1, <1>2, AgreementStays DEF Fail, Refusals
<1>3. ASSUME NEW task \in Executions(db, programs[k], <<0, 100>>), Add(task)
      PROVE  BuildersAgree'
  <2>1. k \in DOMAIN programs
    BY <1>1 DEF ChainInv, StepsInOrder, IsSequence
  <2>2. ProgramReady(programs[k])
    BY <2>1 DEF BuildersAgree
  <2>3. DatabaseWellFormed(db)
    <3>1. databases # {}
      BY <1>1 DEF ChainInv, DatabaseFixed
    <3>2. db \in request.databases /\ databases = {db} /\ DatabaseWellFormed(db) /\ request \in Requests
      BY <3>1, TheDatabase
    <3> QED BY <3>2
  <2>4. TaskReady(db, task) /\ task.plan.column = "__label__"
    BY <1>3, <2>2, <2>3, ExecutionReady
  <2>5. task.plan.calendar = << >> /\ ButForCalendar(task.plan, task.plan)
    BY <2>4 DEF TaskReady, PlanReady, ButForCalendar
  <2>6. PlanWellFormed(task.plan) /\ DataWellFormed(task) /\ TaskValid(db, task)
    BY <2>3, <2>4, <2>5, ReadyValid
  <2> QED BY <1>1, <1>3, <2>4, <2>6, AgreementGrows
<1> QED BY <1>2, <1>3 DEF ExecuteProgram

LEMMA PlanMeets ==
  ASSUME ChainInv, BuildersAgree, PlanTask PROVE BuildersAgree'
<1>1. /\ stage = "tasks" /\ programs = << >>
      /\ UNCHANGED <<request, databases, programs, stored, exported, samples>>
  BY DEF PlanTask
<1>2. PICK mechanism \in request.mechanisms : \E c \in Candidates(db, mechanism, request.families) :
        \E built \in Builds(db, mechanism, c) :
          LET task == IF IsTask(built) THEN BindCalendar(built, request.calendar) ELSE NoTask
          IN IF IsTask(task) /\ SignatureOf(task.plan) \notin signatures
             THEN Add(task) /\ signatures' = signatures \cup {SignatureOf(task.plan)}
             ELSE UNCHANGED <<tasks, signatures, stage, failure>>
  BY DEF PlanTask
<1>a. PICK c \in Candidates(db, mechanism, request.families) : \E built \in Builds(db, mechanism, c) :
          LET task == IF IsTask(built) THEN BindCalendar(built, request.calendar) ELSE NoTask
          IN IF IsTask(task) /\ SignatureOf(task.plan) \notin signatures
             THEN Add(task) /\ signatures' = signatures \cup {SignatureOf(task.plan)}
             ELSE UNCHANGED <<tasks, signatures, stage, failure>>
  BY <1>2
<1>3. PICK built \in Builds(db, mechanism, c) :
          LET task == IF IsTask(built) THEN BindCalendar(built, request.calendar) ELSE NoTask
          IN IF IsTask(task) /\ SignatureOf(task.plan) \notin signatures
             THEN Add(task) /\ signatures' = signatures \cup {SignatureOf(task.plan)}
             ELSE UNCHANGED <<tasks, signatures, stage, failure>>
  BY <1>a
<1> DEFINE bound == IF IsTask(built) THEN BindCalendar(built, request.calendar) ELSE NoTask
<1>4. CASE UNCHANGED <<tasks, stage, failure>>
  BY <1>1, <1>4, AgreementStays
<1>5. CASE IsTask(bound) /\ Add(bound)
  <2>1. databases # {}
    BY <1>1 DEF ChainInv, DatabaseFixed
  <2>2. DatabaseWellFormed(db) /\ request \in Requests /\ db \in request.databases
    <3>1. db \in request.databases /\ databases = {db} /\ DatabaseWellFormed(db) /\ request \in Requests
      BY <2>1, TheDatabase
    <3> QED BY <3>1
  <2>3. mechanism \in Mechanisms
    BY <2>2, RequestsWellFormed
  <2>4. IsTask(built) /\ bound = BindCalendar(built, request.calendar)
    BY <1>5 DEF IsTask, NoTask
  <2>5. request.families \subseteq CompositeFamilies
    BY <1>1, <2>1, <2>2, RequestsWellFormed DEF BuildersAgree
  <2>6. TaskReady(db, built)
    BY <2>2, <2>3, <2>4, <2>5, BuildsReady
  <2>7. request.calendar # << >> => CalendarHolds(request.calendar, {db})
    BY <2>2, RequestsWellFormed DEF CalendarHolds
  <2> HIDE DEF bound
  <2>8. PlanWellFormed(bound.plan) /\ DataWellFormed(bound) /\ TaskValid(db, bound) /\ LabelOrFeature(bound.plan)
    BY <1>5, <2>2, <2>4, <2>6, <2>7, BoundValid
  <2>9. MayLeak(bound.plan) \/ bound.plan.column = "__label__"
    BY <1>1, <2>8 DEF LabelOrFeature, MayLeak
  <2> QED BY <1>1, <1>5, <2>8, <2>9, AgreementGrows
<1> QED BY <1>3, <1>4, <1>5

LEMMA StoreMeets ==
  ASSUME ChainInv, BuildersAgree, StoreTask PROVE BuildersAgree'
<1>1. stage = "tasks" /\ stored < Len(tasks) /\ UNCHANGED <<request, databases, programs, tasks>>
  BY DEF StoreTask
<1>2. stored + 1 \in 1..Len(tasks)
  <2>1. Len(tasks) \in Nat /\ stored \in 0..Len(tasks)
    BY DEF ChainInv, StepsInOrder, IsSequence
  <2> QED BY <1>1, <2>1
<1>3. TaskValid(db, tasks[stored + 1])
  BY <1>2 DEF BuildersAgree
<1>4. CASE ~Leaks(request.overlay, tasks[stored + 1].plan)
  <2>1. UNCHANGED failure /\ failure \notin Refusals
    BY <1>1, <1>3, <1>4, RunningUnrefused DEF StoreTask
  <2> QED BY <1>1, <2>1, AgreementStays
<1>5. CASE Leaks(request.overlay, tasks[stored + 1].plan)
  <2>1. failure' = "leakage" /\ stage' = "failed" /\ UNCHANGED stored
    BY <1>3, <1>5 DEF StoreTask, Fail
  <2>2. request.overlay # "legacy"
    BY <1>5 DEF Leaks
  <2>3. tasks[stored + 1].plan.target \in Tables
    BY <1>2 DEF ChainInv, TasksSound, TaskSound, PlanSound
  <2>4. MayLeak(tasks[stored + 1].plan)
    BY <1>2, <1>5, <2>3, LabelsDoNotLeak DEF BuildersAgree
  <2>5. BuildersMeetValidator'
    BY <1>1, <2>1, <2>2, <2>4 DEF BuildersMeetValidator, MayLeak
  <2>6. db' = db
    BY <1>1 DEF db
  <2>7. \A k \in 1..Len(tasks') : MayLeak(tasks[k].plan)' = MayLeak(tasks[k].plan)
    BY <1>1 DEF MayLeak
  <2> QED BY <1>1, <2>1, <2>5, <2>6, <2>7 DEF BuildersAgree
<1> QED BY <1>4, <1>5

(* BuildersMeetValidator: the constructors of plans and task data accept   *)
(* whatever a builder or the executor of a program gives, and the          *)
(* validator, which computes the labels again from the plan alone, never   *)
(* refuses it; what an overlay stops from being stored was planned on a    *)
(* feature of its target table.                                            *)
THEOREM BuildersMeetValidatorHolds == Spec => []BuildersMeetValidator
<1>1. Init => BuildersAgree
  <2> SUFFICES ASSUME Init PROVE BuildersAgree
    OBVIOUS
  <2>1. Len(<< >>) = 0 /\ 1..0 = {}
    BY EmptySequence
  <2>2. DOMAIN << >> = {}
    OBVIOUS
  <2> QED BY <2>1, <2>2 DEF Init, BuildersAgree, BuildersMeetValidator
<1>2. ChainInv /\ BuildersAgree /\ [Next]_vars => BuildersAgree'
  <2> SUFFICES ASSUME ChainInv, BuildersAgree, [Next]_vars PROVE BuildersAgree'
    OBVIOUS
  <2>1. CASE TooFewTasks
    BY <2>1, AgreementStays DEF TooFewTasks, Fail, Refusals
  <2>2. CASE ExportTask
    BY <2>2, AgreementStays DEF ExportTask, Fail, Refusals
  <2>3. CASE PackageTask
    BY <2>3, AgreementStays DEF PackageTask
  <2>4. CASE Finish
    <3>1. failure \notin Refusals
      BY <2>4, RunningUnrefused DEF Finish
    <3>2. failure' \notin Refusals
      BY <2>4, <3>1 DEF Finish, Fail, Refusals
    <3> QED BY <2>4, <3>2, AgreementStays DEF Finish
  <2>5. CASE Ended \/ UNCHANGED vars
    BY <2>5, AgreementStays DEF Ended, vars
  <2> QED BY <2>1, <2>2, <2>3, <2>4, <2>5, MaterializeMeets, ExecuteMeets, PlanMeets, StoreMeets DEF Next
<1>3. BuildersAgree => BuildersMeetValidator
  BY DEF BuildersAgree
<1> QED BY <1>1, <1>2, <1>3, ChainSound, PTL DEF Spec

=============================================================================
