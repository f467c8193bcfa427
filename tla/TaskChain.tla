------------------------------- MODULE TaskChain -------------------------------
(***************************************************************************)
(* One database on its way from materialization to the H5 file: programs   *)
(* are drawn and the database is materialized, tasks are planned or the    *)
(* programs are executed, the tasks are validated and stored, converted to *)
(* RDB-PFN datasets, and packaged as binary samples.                       *)
(*                                                                         *)
(* A stage that raises ends the run; `failure` names the stage.            *)
(***************************************************************************)
EXTENDS TaskExport

CONSTANTS
  Requests,              \* what a run may be asked for
  MaxMaterializations,   \* max_materialization_attempts
  MaxAttempts            \* max_attempts_per_database

Mechanisms ==
  HorizonMechanisms \cup AttributeMechanisms \cup
  {"future_event_attribute_condition", "temporal_relational_aggregate", "interaction_response",
   "relational_classification"}

(* InstancePlan: a calendar ends after it starts.  A database with a time  *)
(* outside of it is not accepted (validate_database_instance).             *)
CalendarHolds(calendar, given) ==
  /\ calendar \in Nat \X Nat /\ calendar[1] < calendar[2]
  /\ \A d \in given : \A t \in Timed : Times(d, t) \subseteq calendar[1]..calendar[2]

(* NuisancePriorKind; "legacy" is an overlay that is off.                  *)
OverlayKinds == {"legacy", "mcar", "mar", "mnar", "proxy", "spurious", "distractor"}

ASSUME RequestsWellFormed ==
  \A asked \in Requests :
    /\ asked.overlay \in OverlayKinds
    /\ asked.tasks \in Nat /\ asked.programs \in Nat
    /\ asked.mechanisms \subseteq Mechanisms
    /\ asked.programs > 0 => asked.calendar # << >> /\ asked.families \subseteq DOMAIN SemanticsCode
    /\ asked.programs = 0 => asked.families \subseteq CompositeFamilies
    /\ asked.calendar # << >> => CalendarHolds(asked.calendar, asked.databases)
    /\ \A d \in asked.databases : DatabaseWellFormed(d)

VARIABLES
  request,       \* [databases, calendar, overlay, programs, mechanisms, families, tasks]
  stage,
  attempt,       \* attempts of this stage
  databases,     \* the database, once it is materialized
  programs,
  tasks,
  signatures,
  stored,        \* how many tasks passed validation
  exported,      \* the datasets of the stored tasks
  samples,       \* the samples of the packaged datasets; {} for a skipped one
  failure

vars == <<request, stage, attempt, databases, programs, tasks, signatures, stored, exported, samples, failure>>

db == CHOOSE d \in databases : TRUE

Init ==
  /\ request \in Requests
  /\ stage = "instance" /\ attempt = 0 /\ databases = {} /\ programs = << >>
  /\ tasks = << >> /\ signatures = {} /\ stored = 0 /\ exported = << >> /\ samples = << >>
  /\ failure = ""

Fail(where) == stage' = "failed" /\ failure' = where

-----------------------------------------------------------------------------
(* _generate_one_database_instance: programs and rows are drawn together   *)
(* until every program gives a task within the rate.  Without programs any *)
(* valid database will do.                                                 *)
Retry ==
  /\ attempt' = attempt + 1
  /\ IF attempt + 1 = MaxMaterializations THEN Fail("instance") ELSE UNCHANGED <<stage, failure>>
  /\ UNCHANGED <<databases, programs>>

Executable(d, plans) == \A k \in DOMAIN plans : Executions(d, plans[k], PositiveRate) # {}

Accept(d, plans) ==
  /\ stage' = "tasks" /\ attempt' = 0 /\ databases' = {d} /\ programs' = plans
  /\ UNCHANGED failure

Materialize ==
  /\ stage = "instance"
  /\ \E plans \in IF request.programs = 0 THEN {<< >>} ELSE ProgramPlans(request.calendar, request.programs, request.families) :
       \/ \E d \in request.databases :
            IF /\ \A k \in DOMAIN plans : ProgramPlanValid(plans[k])
               /\ Executable(d, plans)
            THEN Accept(d, plans) ELSE Retry
       \/ Retry
  /\ UNCHANGED <<request, tasks, signatures, stored, exported, samples>>

-----------------------------------------------------------------------------
(* TaskExecutor: one task per program, and no database without all.  A     *)
(* plan that its constructor refuses ends the run.                         *)
Add(task) ==
  IF PlanWellFormed(task.plan) /\ DataWellFormed(task)
  THEN tasks' = Append(tasks, task) /\ UNCHANGED <<stage, failure>>
  ELSE Fail("plan") /\ UNCHANGED tasks

ExecuteProgram ==
  /\ stage = "tasks" /\ programs # << >> /\ Len(tasks) < Len(programs)
  /\ LET given == Executions(db, programs[Len(tasks) + 1], <<0, 100>>)
     IN \/ \E task \in given : Add(task)
        \/ given = {} /\ Fail("programs") /\ UNCHANGED tasks
  /\ UNCHANGED <<request, attempt, databases, programs, signatures, stored, exported, samples>>

(* Where a mechanism may be applied, and what it may build there.          *)
Candidates(d, mechanism, families) ==
  CASE mechanism = "relation_attribute" -> RelationAttributeCandidates(d)
    [] mechanism = "random_column" -> RandomColumnCandidates(d)
    [] mechanism \in HorizonMechanisms -> FutureEventCandidates(d)
    [] mechanism = "future_event_attribute_condition" -> FutureEventAttributeCandidates(d)
    [] mechanism = "temporal_relational_aggregate" -> TemporalAggregateCandidates(d)
    [] mechanism = "interaction_response" -> InteractionCandidates(d)
    [] mechanism = "relational_classification" -> CompositeCandidates(families)

Builds(d, mechanism, c) ==
  CASE mechanism = "relation_attribute" -> RelationAttributeTasks(d, c)
    [] mechanism = "random_column" -> RandomColumnTasks(d, c)
    [] mechanism = "entity_future_event_existence" -> FutureExistenceTasks(d, c)
    [] mechanism = "history_gated_future_activity" -> HistoryGatedTasks(d, c)
    [] mechanism \in {"history_gated_future_active", "history_gated_future_inactive"} ->
         HistoryGatedSubmodeTasks(d, c, mechanism)
    [] mechanism = "future_event_attribute_condition" -> FutureAttributeTasks(d, c)
    [] mechanism = "temporal_relational_aggregate" -> TemporalAggregateTasks(d, c)
    [] mechanism = "interaction_response" -> InteractionTasks(d, c)
    [] mechanism = "relational_classification" -> CompositeTasksOf(d, c)

(* TaskPlan.signature.  A parameter drawn from a continuous range differs  *)
(* between attempts: the attempt stands for it.                            *)
Signature(plan) ==
  [plan EXCEPT !.column = IF @ \in UNION {Features[t] : t \in Tables} THEN @ ELSE "__label__",
               !.threshold = IF plan.spec = {} THEN 0 ELSE @,
               !.rules = NoTime, !.strategy = "", !.passes = << >>, !.retries = 0, !.semantics = 1,
               !.calendar = << >>,
               !.windows = IF plan.mechanism = "temporal_relational_aggregate" THEN @ ELSE << >>,
               !.classes = MinOf(@, 1)]

FreshDraws == {"history_gated_future_inactive", "history_gated_future_active",
               "interaction_response", "random_column"}

SignatureOf(plan) == <<Signature(plan), IF plan.mechanism \in FreshDraws THEN attempt ELSE 0>>

(* TaskPlanner.generate: every attempt counts, whatever comes of it.       *)
PlanTask ==
  /\ stage = "tasks" /\ programs = << >>
  /\ Len(tasks) < request.tasks /\ attempt < MaxAttempts
  /\ \E mechanism \in request.mechanisms :
       \E c \in Candidates(db, mechanism, request.families) :
         \E built \in Builds(db, mechanism, c) :
           LET task == IF IsTask(built) THEN BindCalendar(built, request.calendar) ELSE NoTask
           IN IF IsTask(task) /\ SignatureOf(task.plan) \notin signatures
              THEN Add(task) /\ signatures' = signatures \cup {SignatureOf(task.plan)}
              ELSE UNCHANGED <<tasks, signatures, stage, failure>>
  /\ attempt' = attempt + 1
  /\ UNCHANGED <<request, databases, programs, stored, exported, samples>>

NothingToPlan ==
  \A mechanism \in request.mechanisms : Candidates(db, mechanism, request.families) = {}

(* require_full_task_count.                                                *)
TooFewTasks ==
  /\ stage = "tasks" /\ programs = << >> /\ Len(tasks) < request.tasks
  /\ attempt = MaxAttempts \/ NothingToPlan
  /\ Fail("count")
  /\ UNCHANGED <<request, attempt, databases, programs, tasks, signatures, stored, exported, samples>>

AllGenerated == Len(tasks) = IF programs = << >> THEN request.tasks ELSE Len(programs)

(* Each task is validated before it is committed, and then compared with   *)
(* the overlay of its database; the ones before a refused one stay on disk.*)
StoreTask ==
  /\ stage = "tasks" /\ AllGenerated /\ stored < Len(tasks)
  /\ LET task == tasks[stored + 1]
     IN IF ~TaskValid(db, task) THEN Fail("validation") /\ UNCHANGED stored
        ELSE IF Leaks(request.overlay, task.plan) THEN Fail("leakage") /\ UNCHANGED stored
        ELSE stored' = stored + 1 /\ UNCHANGED <<stage, failure>>
  /\ UNCHANGED <<request, attempt, databases, programs, tasks, signatures, exported, samples>>

(* export_rdbpfn_tasks: the first task that cannot be converted ends it.   *)
ExportTask ==
  /\ stage = "tasks" /\ AllGenerated /\ stored = Len(tasks) /\ Len(exported) < stored
  /\ LET task == tasks[Len(exported) + 1]
         given == Conversions(db, task)
     IN \/ \E dataset \in given :
             IF DatasetValid(db, task.plan, dataset)
             THEN exported' = Append(exported, dataset) /\ UNCHANGED <<stage, failure>>
             ELSE Fail("dataset") /\ UNCHANGED exported
        \/ given = {} /\ Fail("conversion") /\ UNCHANGED exported
  /\ UNCHANGED <<request, attempt, databases, programs, tasks, signatures, stored, samples>>

(* export_processed_dbb_to_h5: a task without a usable sample is skipped.  *)
PackageTask ==
  /\ stage = "tasks" /\ Len(exported) = Len(tasks) /\ AllGenerated /\ Len(samples) < Len(exported)
  /\ LET dataset == exported[Len(samples) + 1]
         labels == tasks[Len(samples) + 1].labels
     IN \/ \E sample \in Samples(labels, dataset) : samples' = Append(samples, {sample})
        \/ /\ DrawsMayMiss(labels, dataset.train \cup dataset.validation, dataset.test)
           /\ samples' = Append(samples, {})
  /\ UNCHANGED <<request, stage, attempt, databases, programs, tasks, signatures, stored, exported, failure>>

Finish ==
  /\ stage = "tasks" /\ AllGenerated /\ Len(samples) = Len(tasks)
  /\ IF \A k \in DOMAIN samples : samples[k] = {} THEN Fail("h5")
     ELSE stage' = "done" /\ UNCHANGED failure
  /\ UNCHANGED <<request, attempt, databases, programs, tasks, signatures, stored, exported, samples>>

(* The run is over: no other state may be without a next step.             *)
Ended == stage \in {"done", "failed"} /\ UNCHANGED vars

Next ==
  \/ Materialize \/ ExecuteProgram \/ PlanTask \/ TooFewTasks
  \/ StoreTask \/ ExportTask \/ PackageTask \/ Finish \/ Ended

Spec == Init /\ [][Next]_vars

-----------------------------------------------------------------------------
(* What one stage accepted and stored, the next does not refuse: the task  *)
(* stage never raises "pre-sampled task program is invalid" for a program  *)
(* the instance stage executed, and a stored task can be exported - its    *)
(* support is large enough for a validation split and no exported key      *)
(* dangles.  BuildersMeetValidator has the refusals before a task is       *)
(* stored.                                                                 *)
StagesAgree == failure \notin {"programs", "conversion", "dataset"}

(* The mechanisms that store a feature as their target column.             *)
ColumnMechanisms == AttributeMechanisms \cup {"future_event_attribute_condition"}

(* The validator computes the labels again from the plan alone and never   *)
(* refuses what a builder built.  An overlay can stop a task that is valid *)
(* from being stored, and with it the stage, but only one that was planned *)
(* on a feature: never a program, nor a task with labels of its own.       *)
BuildersMeetValidator ==
  /\ failure \notin {"plan", "validation"}
  /\ failure = "leakage" =>
       /\ request.overlay # "legacy" /\ programs = << >>
       /\ tasks[stored + 1].plan.mechanism \in ColumnMechanisms

(* Some row that event e of the source of a plan refers to, over a chain   *)
(* of foreign keys, is later than the cutoff.                              *)
HangsOnLater(plan, e) ==
  \E route \in TimedAncestors :
    /\ route[1] = plan.source
    /\ \E x \in Reached(db, plan.source, route[2])[e] :
         db.time[Endpoint(plan.source, route[2])][x] > plan.cutoff

(* No row without a label (-1) enters a task, and every row of a task that *)
(* conditions on history has one: the exported tables show all of it, and  *)
(* nothing after it, except the events that hang on a row later than the   *)
(* cutoff, which the view prunes - all events of a row, it may be.         *)
EligibleRowsOnly ==
  \A k \in DOMAIN tasks :
    LET plan == tasks[k].plan
        rows == tasks[k].support \cup tasks[k].query
        Of(r, events) == {e \in events : db.ref[plan.key][e] = r}
        Earlier(r) == Of(r, {e \in RowsOf(db, plan.source) : db.time[plan.source][e] <= plan.cutoff})
    IN /\ \A r \in rows : tasks[k].labels[r] >= 0
       /\ k <= Len(exported) /\ plan.mechanism \in {"history_gated_future_active", "history_gated_future_inactive"} =>
            \A r \in rows :
              /\ Earlier(r) # {}
              /\ Of(r, Exported(db, plan, plan.source)) = {e \in Earlier(r) : ~HangsOnLater(plan, e)}

(* The database without what was known at time c of the source of a plan.  *)
Forgotten(plan, c) ==
  [db EXCEPT !.time[plan.source] = [e \in DOMAIN @ |-> IF @[e] <= c THEN NoTime ELSE @[e]]]

(* A label about the future is decided by rows that its features cannot    *)
(* reach: it stays the same when all that happened up to the cutoff that   *)
(* is exported beside the row is forgotten, and for a cutoff of the whole  *)
(* task no later row is exported.                                          *)
FutureUnseen ==
  \A k \in 1..Len(exported) :
    LET plan == tasks[k].plan
        cutoff == exported[k].cutoff
    IN plan.mechanism \in {"entity_future_event_existence", "temporal_relational_aggregate"} =>
         /\ \A r \in DOMAIN cutoff :
              MechanismLabels(Forgotten(plan, cutoff[r]), plan)[r] = tasks[k].labels[r]
         /\ ~plan.rowCutoff =>
              \A e \in Exported(db, plan, plan.source) : db.time[plan.source][e] <= plan.cutoff

(* A temporal split puts no query row before a support row.                *)
QueriesComeLater ==
  \A k \in 1..Len(exported) :
    tasks[k].plan.strategy = "temporal_rows" =>
      LET time == db.time[tasks[k].plan.target]
      IN \A s \in exported[k].train \cup exported[k].validation : \A q \in exported[k].test : time[s] <= time[q]

(* Training keeps a row of every class that is known at all, validation    *)
(* is not empty, and both together are the support.                        *)
SplitsKeepClasses ==
  \A k \in 1..Len(exported) :
    LET labels == tasks[k].labels
        Classes(rows) == {labels[r] : r \in rows}
    IN /\ exported[k].validation # {}
       /\ exported[k].train \cap exported[k].validation = {}
       /\ exported[k].train \cup exported[k].validation = tasks[k].support
       /\ Classes(exported[k].validation) \subseteq Classes(exported[k].train)
       /\ exported[k].test = tasks[k].query

(* A packaged part with two rows or more has both labels.                  *)
SamplesHaveBothLabels ==
  \A k \in 1..Len(samples) : \A sample \in samples[k] :
    /\ sample.support >= 2 => sample.positives[1] \in 1..(sample.support - 1)
    /\ sample.query >= 2 => sample.positives[2] \in 1..(sample.query - 1)

===============================================================================
