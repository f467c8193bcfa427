------------------------------ MODULE TaskExport ------------------------------
(***************************************************************************)
(* The export of a task: the splits of an RDB-PFN dataset, the cutoff of   *)
(* every exported row, and the fixed-size binary sample that goes into H5. *)
(***************************************************************************)
EXTENDS TaskPrograms

CONSTANTS
  ValidationFraction,    \* <<n, m>> for validation_fraction
  MinValidation,         \* min_validation_rows
  TotalRows              \* total_rows of an H5 sample

(* RDBPFNConverter and H5ExportConfig.                                     *)
ConverterAccepted ==
  /\ MinValidation \in Nat \ {0} /\ ValidationFraction \in Nat \X Nat
  /\ 0 < ValidationFraction[1] /\ ValidationFraction[1] < ValidationFraction[2]
H5Accepted == TotalRows \in Nat /\ TotalRows >= 2
ASSUME ExportConfig == ConverterAccepted /\ H5Accepted

(* The rows of the validation split: every outcome of the shuffles.  Each  *)
(* class keeps a row for training; the classes with two rows or more give  *)
(* a row in order, while there is room.  AnyValidation is the slip of a    *)
(* split that is not stratified.                                           *)
AnyValidation(labels, rows, count) == kSubset(count, rows)

ValidationRows(labels, rows, count) ==
  LET classes == {labels[r] : r \in rows}
      shared == {v \in classes : Cardinality(ClassRows(labels, rows, v)) >= 2}
      giving == {v \in shared : Cardinality({w \in shared : w < v}) < count}
  IN {chosen \in kSubset(count, rows) :
        /\ \A v \in classes : ~(ClassRows(labels, rows, v) \subseteq chosen)
        /\ \A v \in giving : ClassRows(labels, chosen, v) # {}}

ValidationCount(labels, rows) ==
  MinOf(MaxOf(MinValidation, Round(Cardinality(rows) * ValidationFraction[1], ValidationFraction[2])),
        Cardinality(rows) - Cardinality({labels[r] : r \in rows}))

(* _split_support; none where it raises.                                   *)
SupportSplits(labels, rows) ==
  LET count == ValidationCount(labels, rows)
  IN IF count < 1 THEN {}
     ELSE {[train |-> rows \ chosen, validation |-> chosen] : chosen \in ValidationRows(labels, rows, count)}

(* The cutoff written beside a row; NoTime without a cutoff column.        *)
ExportedCutoff(d, plan, r) ==
  IF plan.mechanism \notin HorizonMechanisms /\ plan.target \in Timed THEN d.time[plan.target][r]
  ELSE plan.cutoff

(* RDBPFNConverter.convert: the visible rows, the splits and their cutoffs;*)
(* none where it raises.                                                   *)
Conversions(d, task) ==
  LET visible == RowsInView(d, task.plan)
      support == task.support \cap visible
      query == task.query \cap visible
  IN IF support = {} \/ query = {} THEN {}
     ELSE {[train |-> s.train, validation |-> s.validation, test |-> query, table |-> visible,
            cutoff |-> [r \in support \cup query |-> ExportedCutoff(d, task.plan, r)]] :
             s \in SupportSplits(task.labels, support)}

(* validate_rdbpfn_dataset: no row of a split outside of the exported      *)
(* target table, and no foreign key to a row that is not exported.         *)
Exported(d, plan, t) == IF plan.rules = NoTime THEN RowsOf(d, t) ELSE VisibleRows(d, t, plan.rules)
DatasetValid(d, plan, dataset) ==
  /\ dataset.train \cup dataset.validation \cup dataset.test \subseteq dataset.table
  /\ \A i \in DOMAIN Keys :
       LET parents == Exported(d, plan, Keys[i].parent)
       IN {d.ref[i][r] : r \in Exported(d, plan, Keys[i].child)} \subseteq {0} \cup parents

-----------------------------------------------------------------------------
(* The classes that stand for 1: half of them, for which both sets have    *)
(* both labels.  With more than two classes the draws may miss.            *)
PositiveClasses(labels, support, query) ==
  LET classes == {labels[r] : r \in support \cup query}
      n == Cardinality(classes)
      sets == IF n = 2 THEN {{Max(classes)}} ELSE kSubset(MaxOf(1, n \div 2), classes)
  IN IF n < 2 THEN {} ELSE
     {p \in sets : \A part \in {support, query} :
         /\ \E r \in part : labels[r] \in p
         /\ \E r \in part : labels[r] \notin p}

DrawsMayMiss(labels, support, query) ==
  LET classes == {labels[r] : r \in support \cup query}
      n == Cardinality(classes)
  IN n # 2 /\ (n < 2 \/ PositiveClasses(labels, support, query) # kSubset(MaxOf(1, n \div 2), classes))

(* How many of `count` drawn rows are positive: one of each label and      *)
(* others, drawn again only where the rows do not suffice.  NoAnchors is   *)
(* the slip of drawing without them.                                       *)
NoAnchors(total, positive, count) ==
  IF total < count THEN 0..count ELSE MaxOf(0, count - (total - positive))..MinOf(positive, count)

PositiveDraws(total, positive, count) ==
  IF count = 1 THEN {0, 1}
  ELSE LET others == count - 2
       IN IF total < others THEN 1..(others + 1)
          ELSE 1 + MaxOf(0, others - (total - positive)) .. 1 + MinOf(positive, others)

SupportCount(support, query) ==
  MaxOf(1, MinOf(Round(TotalRows * support, support + query), TotalRows - 1))

(* _prepare_task_sample: the sizes of both parts and their positives.      *)
Samples(labels, dataset) ==
  LET support == dataset.train \cup dataset.validation
      count == SupportCount(Cardinality(support), Cardinality(dataset.test))
      Positives(part, p) == Cardinality({r \in part : labels[r] \in p})
  IN UNION {{[support |-> count, query |-> TotalRows - count, positives |-> <<s, q>>] :
               s \in PositiveDraws(Cardinality(support), Positives(support, p), count),
               q \in PositiveDraws(Cardinality(dataset.test), Positives(dataset.test, p), TotalRows - count)} :
            p \in PositiveClasses(labels, support, dataset.test)}

===============================================================================
