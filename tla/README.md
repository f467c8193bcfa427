# RDB prior: TLA+ models, checks and proofs

This directory holds TLA+ models of the synthetic relational-database prior in
`src/src/rdb_prior` (paths below are relative to that directory), the TLC
configurations that check them, and TLAPS proofs about them. `PROJECT.json`
says, for each definition, which lines of the source it stands for.

## 1. The system

The program draws relational databases in four stages. Each stage reads the
manifest of the one before it and leaves artifacts and a manifest of its own.

| Stage | Code | What it does | State it keeps |
|---|---|---|---|
| 1 schema | `schema/`, `pipeline.py:396` | draws a logical schema (*blueprint*): roles, ranks, foreign keys, motif occurrences | the growing lists of nodes, edges, occurrences |
| 2 database | `compilation/`, `instance/`, `generation/`, `process/`, `priors/`, `nuisance/`, `pipeline.py:586` | compiles the schema, plans an instance, draws rows, runs temporal processes | per entity a queue of events and a state trajectory; on disk one directory per database |
| 3 task | `task/` | plans and executes task programs over a database | on disk one directory per task |
| 4 export | `export/` | converts tasks to RDB-PFN's format, runs DFS and packs H5 files | output directories, a watchdog thread, one H5 file |

Beside them: `routing/` trains a router on exported data, `importers/` brings
relbench data into the same format, `evaluation/` compares priors, `runtime.py`
derives seeds by hashing typed parts (so that results do not depend on the
order of calls), and `cli.py`, `config.py` parse what the user asks for.

How the parts interact: stages communicate through files only. Inside a stage
the parent process hands items to a pool of worker processes and collects their
results; workers write artifacts, only the parent writes the manifest. Shards
of one stage may run at the same time over the same input. Inside one database
everything is sequential, but the *simulated* processes (event channels and
state transitions of an entity) interleave through a priority queue.

What is hard, and hard to test: the order in which pool workers, those of killed
runs among them, and reruns touch artifact directories; the order in which events and deadlines that
round to one calendar second are filed; long sequences of legal attachments
that lead the schema sampler into a corner; caches that must follow what they
were computed from; retries that draw some things again and keep others; a
schedule that is counted in one pass and drawn again in the next; a label that
the validator computes a second time from the plan alone, and a split that must
hold for data some other stage has drawn. `PROJECT.json` lists each hazard at its line, with the
properties that would catch it.

### Inventory

| Component | Operations | What makes it correct | Here |
|---|---|---|---|
| logical schema sampling (`schema/sampler.py`, `roles`, `motifs`, `validation`) | attach motif, attach background table, add extra foreign key, validate | every partial schema is legal, connected, acyclic; the target size is always reachable; validation never refuses | modelled |
| stages 2 and 3 (`pipeline.py`, `task/pipeline.py`, `artifacts.py`, `task/artifacts.py`) | select, generate, retry, commit, collect, raise, write manifest, crash, rerun | manifests list only whole artifacts of their run, in order; reruns recover; shards partition | partly: stages 1 and 4 only by analogy, not two runs of a shard started at once |
| entity states and event schedule (`generation/temporal_processes.py`, `state_trajectory.py`) | pop, skip stale, transition, event | recorded states stay true; one event per logical point; nothing after a terminal state | partly: the stateful schedule of one entity |
| two-pass materialization (`generation/database.py`, `pipeline.py:751-846`) | plan, bind, draft, resolve populations, generate, overlay, validate, retry | the rows of the second pass are the ones the first one counted; attempts run out | modelled (`Materialization`) |
| RDB-PFN conversion and H5 export (`export/`) | split, cut off, prune, validate, sample | both classes in support and query, nothing after the cutoff, no dangling key | partly: conversion and samples (`TaskExport`); the DFS process and the watchdog are planned |
| rule programs (`process/`) | evaluate in order, combine effects | order independence where promised | planned; that a prior without rules refuses is in `PriorPlanning` |
| view of a task (`task/view.py`) | apply rules, pass over foreign keys, repeat | the largest choice of rows before the cutoff that is closed under foreign keys | modelled |
| task programs and mechanisms (`task/`) | candidates, build, bind the calendar, sign, validate, execute programs | labels replay from the plan; splits keep both classes; nothing after the cutoff is shown | partly: `TaskChain`, without missing values |
| physical compilation (`compilation/`) | columns, keys, trace | every table has its key, every logical edge one foreign key | partly (`PhysicalSchemas`): no names, data types, semantic columns |
| instance planning (`instance/`) | order, rows, families, groups | parents before children; each key in one group | partly (`InstancePlanning`): no numeric parameters |
| priors (`priors/`) | choose a family, bundles of each occurrence, bind | a bound plan is never refused; column parents are acyclic | partly (`PriorPlanning`, `PriorBinding`): no forests and weights |
| nuisance overlay (`nuisance/`), checks of plans and databases (`validation/checks.py`) | overwrite, mask, redraw; refuse | only the overlay can spoil a database | partly (`NuisanceOverlay`): which values, not which numbers |
| routing (`routing/`) | cache, train, checkpoint | caches agree with their sources, checkpoints are whole | planned |
| relbench import | download, convert | atomic output | planned |
| statistics, networks, losses, CLI, configuration | numerical or pure input/output | - | not modelled |

## 2. Modules

```
SchemaRoles <- SchemaMotifs <- SchemaGraph <- BlueprintSampler <- MCBlueprintSampler
                                    ^              |      ^
                              SchemaGrowth <-------+      +-- BlueprintSamplerProofs (SequenceFacts)
ArtifactDirectory <- StageRun --INSTANCE--> ArtifactStore
                        ^-- StageRunProofs <- StageManifestProofs (SequenceFacts)
StateTrajectory <- EventSchedule --INSTANCE--> EntityHistory
                        ^-- EventScheduleProofs
TaskView <- MCTaskView
   ^-- TaskViewProofs
PhysicalSchemas <- InstancePlanning <- PriorPlanning <- PriorBinding <- DatabaseGeneration
      <- NuisanceOverlay <- Materialization <- MCMaterialization
                                   ^-- MaterializationProofs
RelationalData <- TaskMechanisms <- CompositeTasks <- TaskBuilders <- TaskValidation
      <- TaskPrograms <- TaskExport <- TaskChain <- MCTaskChain
                                           ^-- TaskChainProofs (SequenceFacts)
```

### Schema sampling

`SchemaRoles` is the role catalog of `schema/roles.py` with the role pairs that
may be joined; `SchemaMotifs` the motif library of `schema/motifs.py` with the
operators that say which roles a motif's free slots may take; `SchemaGraph` the
validation rules of `schema/validation.py`. `BlueprintSampler` is
`BlueprintSampler.sample` as a state machine: `nodes`, `edges` and `occs` are
the three lists of the code, `phase` is where the call is, and `candidates`,
`parents`, `added` are the locals of `_sample_extra_edges`. Each draw of the
random generator is a choice among all outcomes it can have, so weights are
left out: only whether a weight is configured matters (`Weighted`). IDs are
positions in the lists, as in the code. `SchemaGrowth` is the abstract
specification: a schema grows append-only by legal tables, then by legal
foreign keys, then is frozen.

### Stages, artifacts, manifests

`ArtifactDirectory` represents a directory as the set of files in it, each with
the run that wrote it; `shutil.rmtree` removes one file per step in any order.
`StageRun` models a stage: `worker` is what each process of each pool does
(the steps of `commit()` are separate, since other processes and kills come
in between), `queue`, `outcome`, `results` are the executor's pending items,
the futures and what `as_completed` has yielded, `mode` is the parent. Shards
are distinct parents over the same input; every run of a shard has a pool of its
own. A run may fail (`Fault`), and a new run starts on what is left.
`PerEntry = 1` is stage 2, more is stage 3, where a worker commits several tasks
of one database and may fail between them. `ArtifactStore` is the abstract
specification: artifacts appear whole, manifests are published over artifacts
that are there.

What is killed is a process. `BreakPool` kills a worker: the executor then ends
the other workers wherever they are, and the parent sees `BrokenProcessPool`.
`Crash` kills the parent: its workers go on where they are, and with the items
already in the pool's pipe (at most one more than there are workers), beside the
next run if there is one; `LoseWorker` kills such a worker. With `num_workers = 1`
there is no pool and the worker dies with its parent. Nothing keeps two runs out
of one `.<id>.tmp` or one target (`artifacts.py:262-353` has no lock), so a worker
may find its directory gone, remade, or with files of another run
(`FailToMake`, `FailToCommit`), write into it all the same, move it into place, or
go on deleting from it after another moved it (`RemoveMoved`). The history
variable `shared`, which no action reads, has the items two runs had to do at the
same time. **Of those items nothing is promised**: their artifacts may end up
mixed, torn or missing although a manifest lists them. The properties of the
stage are about the items a run has for itself (`Alone`), and say that the damage
stays where it is. Two runs of one shard that the user starts at the same time
are not modelled; they would meet in the same way, on every item.

### Entity states and events

`StateTrajectory` is `StatefulEntityTrajectory`: a sequence of changes at
logical points (calendar second, ordinal). `EventSchedule` is
`_stateful_event_schedule_group` for one entity; entities share nothing. The
heap is the set `queue` of entries with the code's order (`Earlier`), time is
counted in half seconds so that different times round to one second and ties of
`round()` (to even) occur. Rates, weights and rule overrides decide only which
wait and which state is drawn, so any of them can be. `EntityHistory` is the
abstract specification: events and moves in strictly advancing logical time,
each event recording the state all earlier moves left.

### The view of a task

`TaskView` is `build_task_view`: `masks` are the row masks after the observation
rules, `at` is the foreign key the current pass has come to, `changed` the flag
of the `while` loop. Foreign keys are a sequence in the order of the schema,
which is that of their IDs and says nothing of who is whose parent. Rows are
numbered from 1 and an unassigned foreign key is 0 (from 0, and -1, in the code).

### Materialization of a database

The chain below `Materialization` is pure: each module says what a stage of
`_generate_one_database_instance` may return. `PhysicalSchemas` is the compiler
(a schema has a sequence of columns for each table and a sequence of foreign
keys), `InstancePlanning` the planner, `PriorPlanning` the prior family and the
mechanism bundle of each motif occurrence, `PriorBinding` what the families
bind into the plan, `validate_instance_plan`, and the populations a draft
resolves, `DatabaseGeneration` the assignment of foreign keys, the times and the
overlay of the temporal processes, `NuisanceOverlay` the nuisance planner and
executor and `validate_database_instance`. An operator named in the plural
(`InstancePlans`, `PriorPlans`, `TimeChoices`, ...) is the set of all outcomes
of the draws; an outcome of the binder or of the resolution has `issues`, which
are the errors the code raises there.

`Materialization` is the worker: `stage` is where it is, `schema`, `prior`,
`plan` and `db` are its locals, `attempt` the attempts that were refused, and
`issues` what for; `pending` are the temporal processes still to be resolved or
overlaid. `CompileSchema` and `PlanPrior` run once; in each attempt
`PlanInstance` binds a draft, `ResolvePopulation` counts the events of one
population and plans the rows of the tables that hang on it anew (one step per
population), `FinalizePlan` checks the final plan, `GenerateTable` fills the
next table of the plan's order, `OverlayEvents` one event table, and
`ApplyNuisance` and `ValidateDatabase` end the attempt; each may `Refuse`, which
starts the next attempt or ends the run. `db` holds
what later steps and properties read: rows, keys, times, missing values and
repeated unique values; the other values are left out.

Facts of the code the modules state and a reader may not expect: a legacy prior
has a single attempt; a composition the configuration accepts may be one the
binder does not support, and then every attempt is refused (issue
"composition"); `_max_time_lagged_depth + 2` ticks of calendar are needed for
the headroom, shorter ones lose it through `db_start + 2` (`EffectiveEnd`); the
stored counts of a `relational_scm` population set the rows of a table but are
not realized for each parent; `_mechanism_ticks` promises ascending ticks, which
churn does not give (`DrawnTimes` allows any order); no column can become
REDUNDANT in a nuisance plan, since it would be its own source. The comment
"Keep the sampled prior/program fixed" (`pipeline.py:766-770`) is true of the
prior; task programs are drawn again for each attempt (`:779-781`).

### From a database to its samples

`RelationalData` is a database as tasks see it: rows, keys, times and feature
columns, with paths of foreign keys and what a cutoff leaves visible.
`TaskMechanisms` has the candidates and labels of the ten mechanisms,
`CompositeTasks` the six composite families (aggregates over filtered paths in
windows), `TaskBuilders` the tasks each builder may return for a candidate,
with the draws of soft labels and their replay seeds, `TaskValidation` the
checks of `TaskPlan` on construction, the calendar binding and `validate_task`
with its replay of the labels, `TaskPrograms` the programs drawn before a
database exists, their validator and their executor, `TaskExport` the splits,
cutoffs and kept rows of a converted dataset, its validation, and the binary
samples of the H5 file.

`TaskChain` composes them for one database, through the three stages it
passes: `Materialize` (programs and rows are drawn together until every program
gives a task), `ExecuteProgram` or `PlanTask` and `TooFewTasks`, `StoreTask`,
`ExportTask`, `PackageTask`, `Finish`. `failure` names the stage that raised,
so that the properties can say which stages never do. Its databases are given
by the request (hand-made shops) instead of being generated: `Materialization`
does not generate the values that labels depend on. `Materialize` may retry
also where the code would not, which only adds behaviours.

A request also has the kind of overlay. `StoreTask` refuses a task twice: after
`validate_task`, and with `Leaks`, `validate_nuisance_target_leakage`, when another
feature of the table is derived from the task's target column or has its missing
values driven by it. `nuisance/planner.py:67` makes the first other feature of a
table the source of each feature, under every kind of overlay, so that most tasks on
a feature of a table with two features are refused, and `Sources` and `Drivers` read
`Position`, the order of the columns, and `Nullable`. The target of a program
(`task/program.py:673`) and of most mechanisms is `__label__`, which is no column
(`LabelIsNoColumn`): these are never refused. `BuildersMeetValidator` says so. What an
overlay does to the values of a database (`NuisanceOverlay` has which of them are
missing) is not repeated here: the shops are complete.

Facts of the code the modules state: the future windows of composite tasks
include the cutoff instant; of a nested window `_bind_instance_calendar` checks
only the first; a horizon outside the calendar makes `PlanTask` count an attempt
and go on (shop `Late`); the soft labels described at README.md:382-392 are drawn
from history although the task is named for a future event; a configuration may
accept a `min_support_rows` no larger than the number of classes. With a
`min_class_count` of 1 as well, a stored task may then have one support row for
each class, and `converter.py:384` finds none to validate on; the defaults (32
and 2, 8 and 1 for programs: `task/planner.py:70-72`, `task/program.py:214-217`)
leave room.

## 3. Runs

| Run | Question | Bounds, and why they suffice |
|---|---|---|
| `sampler_safety` | can any draw break a rule of the schema, is sampling an append-only growth, does it end? | the repository's whole motif library and role catalog, 2 to 5 tables, ranks to 3, 2 extra keys in configuration, up to 3 occurrences: motifs with two new tables meet every remaining count, motif and background attachments interleave, and two extra keys compete for one child |
| `sampler_min_occurrences` | is an accepted `min_motif_occurrences` reached? | violated: see findings |
| `stage_pool` | what do workers and manifests promise through crashes, does the stage implement the artifact store? | two workers per pool, two items, two runs, one fault: a parent killed with workers in the middle of a commit, which go on beside the next run's at the same or at another item; a pool that breaks; a disk error and a rerun, with or without overwrite; 1,414,349 states up to the symmetry of the slots |
| `stage_shards` | do shards partition the slice, in order? | four entries of two tasks, a slice of three starting at one, two shards of two workers each, two runs per shard, two attempts, one fault that a run reports and no kill (`stage_pool` and `stage_recovery` have those); 1,353,205 states |
| `stage_recovery` | do runs end, does overwriting recover, is what earlier runs left or still do kept out of artifacts? | one item, two workers per pool, three overwriting runs and two faults, so that two killed runs can have workers at work beside a third; the first run writes the optional file; under fairness; 107,370 states |
| `stage_replace` | is overwriting atomic? | violated: see findings |
| `event_schedule` | does every order of the queue leave a consistent trajectory and one history? | two channels, calendar of three seconds (six half seconds), waits of one and two half seconds, five steps, three states of which one is terminal, each clock: several events and deadlines fall into one second |
| `event_transition_limit` | does the limit bound the steps? | violated: see findings |
| `task_view` | is the view closed under foreign keys, does it hide nothing else, does the loop end? | four tables in three generations below each other, foreign keys listed children first (four passes), two rows each, order times before, at and after two cutoffs and no cutoff, every assignment of items to orders and of notes to items, also none |
| `task_chain` | does a stage refuse what the one before it accepted? does the validator's replay meet the builder? which tasks may an overlay refuse? is history exported and the future unseen, do splits keep classes and order, do samples have both labels? | sixteen requests over eight shops of two to seven customers and seven to nine orders (returning, equal amounts, orders without customers, calendar that ends early, one customer with everything, payments and items, ties in time, orders earlier than their campaign), each mechanism and composite family, one or two programs, three overlays; a refusal for leakage is met after an earlier task was stored, and whole histories are pruned; 503,981 states |
| `materialize` | is a plan the program made ever refused? are counted events the generated ones? what can spoil a database? do attempts run out? | fifty-one requests over eight schemas of two or three tables (a chain of events, an event with two parents, bridges, details, lookups, two events of one entity), every prior family and composition, four overlays; two rows per table and two children per parent, two attempts; 453,379 states |
| `event_lag` | do rows come after the parent rows they lag behind? | violated: see findings |

`CHECK_DEADLOCK FALSE` is set where the modelled call returns (`sample()`, the
event loop, the view's loop) or a stage has used up `MaxRuns`.
`TaskChain` and `Materialization` have a stuttering step `Ended` instead, so that
a state without a successor before the end is an error of the run.

Bounds that stand for something the code does not bound: `MaxRuns`, `MaxFaults`
(runs and faults of a stage), `Waits` (waits of the exponential draws),
`Limit` (8192 in the code); in `Materialization` `Ticks` (times and lags that are
drawn: the ends of the calendar, where headroom matters), `MaxPerOwner` (children
drawn for a parent), `HardFactor` and `HardFloor` (4 and 128 in the code: here 1
and 2, so that the limit is met) and factors counted in halves; in `TaskChain`
`MaxLabelRetries` (16 in the code), `PredicateOperators`, `Scale` and percentages
with few values. All others are configuration values of the code.

### Fairness

`BlueprintSampler` is one synchronous call: `WF_vars(Next)`. `StageRun` has weak
fairness for each worker's and each parent's own steps, because the operating
system schedules processes that can run, those of a killed parent too; none for
starting a run, faults, kills or retries. `OverwritingRunRecovers` is about runs
that no worker of a killed run meets. `TaskView` is one synchronous loop: `WF_vars(Next)`. The event schedule has no
liveness property: each wait is drawn by the generator and the calendar ends.
`Materialization` and `TaskChain` state no fairness. That the materialization
ends is the action property `EveryStepProgresses`: each step comes later in a
well-founded order (attempt, stage, tables left, event tables left); it is a
theorem, and deadlock checking shows that only an ended run has no step.

### Findings

- `sampler_min_occurrences`: the configuration check
  (`schema/sampler.py:143`) counts one new table per occurrence, so it accepts
  a minimum that cannot be reached when the drawn motifs bring two tables.
- `stage_replace`: README.md:115 says workers store databases atomically; with
  `overwrite` the old artifact is removed before the new one is moved in.
- `event_transition_limit`: deadlines count as steps
  (`generation/temporal_processes.py:796`), but the limit is compared only
  after an event (`:857`).
- `event_lag`: `generation/features.py:279` reserves headroom "so a child can
  always land strictly after its parent", but a temporal prior replaces the
  times of the parent event table afterwards (`generation/database.py:95`), and
  the child's rows are not placed again. Under static priors the promise holds
  (`LagUnderStaticPriors`).

## 4. Proofs

Each theorem is checked by TLAPS for all values of the constants, under the named
assumptions of the modules: the configuration and the motif library were
accepted (`SamplerConstructed`, `StageConfigured`, `ScheduleConfigured`,
`PlannerConfig`, `ProgramFractions`, ...), an artifact has files
(`ArtifactHasFiles`), a calendar has an end and a state space a state
(`CalendarAndStates`), schemas and databases are what the earlier stages hand
over (`SchemaAndDatabases` of the view; `SchemaWellFormed`, `SchemaAcyclic`,
`EntitiesAreStatic`, `ColumnsNamed` and `RequestsWellFormed` of the task chain). `SchemaAcyclic`
is what `AlwaysConnectedAndAcyclic` proves of a sampled schema. TLC evaluates
all of them in the runs. A theorem that has a hypothesis of its own is named below,
with the reason for it.

### Schema sampling (`BlueprintSamplerProofs`)

`SafeInv` adds to the type that the keys are legal, that candidates are pairs
the scan may still add, and that phases agree with the lists; legality is about
pairs that are new, which needs candidates to stay distinct from edges as the
scan goes on (`ForeignKeysAlwaysLegal`). Connectedness is preserved because each
attachment's tables reach its anchor within the motif and the anchor is already
there; acyclicity follows from ranks, which every key ascends
(`AlwaysConnectedAndAcyclic`).

`ValidThroughout` and `SamplesNeverRejected` say that `validate_blueprint` has
nothing to refuse: not at the end, and neither if sampling stopped anywhere
before. `ValidInv` has each rule while the schema grows: every role has as many
structural parents as it may have, every occurrence binds the slots of a motif of
the library to tables and foreign keys that are still there, the tables do not
exceed the drawn number, and the parents that the scan for extra keys counts
from are those of the schema as it is. They assume `AnchorsTakeNoParents`: no
motif gives its anchor a structural parent. Neither `sample()` nor
`validate_motif_spec` counts the parents an anchor already has (`motifs.py:281`,
`:759`), so that a library with such a motif could exceed the maximum of the
anchor's role. The catalog has none: `CatalogNeverRejected` is about the motifs that
ship, without hypothesis. `SamplerGrows` is the step refinement of
`SchemaGrowth`.

### Stages and artifacts (`StageRunProofs`, `StageManifestProofs`)

`StageInv` is `Typed` (what each variable holds), `Owned` and `Stored`. `Owned` is
about who has an item: in one pool, the queue or one worker (`WorkersOwn`,
`ItemsApart`, `PoolsOwn`), until its future is settled (`ResultsOwn`); and what
workers of an earlier run still have is in `shared`, under their run and under the
present one (`OldShared`). So two workers at one artifact are of two runs that both
share the item (`AloneApart`), and a worker at an item its run has for itself
(`Mine`) sees the directory as it left it. That is `Stored`: its temporary
directory has the files it wrote so far and no others (`Stamped`), no worker moves
into place a file another run wrote for itself (`Clean`), the tasks behind it are
whole (`Behind`), and `NoLeftoversPublished` and `SucceededItemsWhole` hold. From it
follow `WorkersStopWithTheirRun`, `ResultsAreOnDisk` and `LeftoversStayOut`.

`ManifestInv` is inductive together with `StageInv`: a run collects a result at
most once (`CollectedOnce`); a manifest, once written, lists the items of its
slice in order, part by part (`Ordered`); and a manifest of the shard's latest run
means that the run is over with all its results collected (`Latest`), which with
`Stored` makes them whole on disk. That collecting in completion order and
sorting afterwards gives input order rests on `EnumerationExists`: distinct
numbers have an increasing enumeration. It is proved by inserting one number at a
time (`InsertOne`), with a smallest counterexample (`LeastNatural`) in place of
induction, as the library's induction theorems take an operator and cannot be
used here. `StageImplementsStore` is the refinement of `ArtifactStore`:
`Publish` is `PublishArtifact`, `RemoveTarget` is `Withdraw` (a worker whose run has
the item for itself finds an artifact there only with overwrite: `OverwriteGuards`), `WriteManifest` is `PublishManifest`, what two runs do at one
artifact is `Contend` (`SharedIsContested`), and every other step stutters.

### Entity states and events (`EventScheduleProofs`)

Five invariants follow from `ScheduleSafe`. Its core is `ScheduleInv`: `Filed`
(every point filed in a second is below that second's next ordinal), `Reached` (no
entry in the queue rounds to an earlier second than anything filed) and the
order of changes. From these, the point of the next event and of the next
deadline is after everything filed (`EventPointAhead`, `DeadlinePointAhead`), and
a change filed there leaves all states before it as they were
(`AppendKeepsPast`). Rounding is only used through its monotonicity
(`RoundingMonotone`).

`OnePendingEachHolds` needs `PendingInv`: no deadline in the queue carries a
version that has not been given out (`PendingBounded`), so that the one filed with
the next version is the only one that counts. `ScheduleIsOneHistory` is the
refinement of `EntityHistory`, whose moment is the latest point filed anywhere;
`HistoryInv` says that there is one, and each step files after it.

### The view (`TaskViewProofs`)

`TypeCorrect`, `ViewIsClosed`, `ViewIsLargest`, also for schemas with cycles.
`PassSoFar`: while a pass has changed nothing, the masks satisfy every foreign key
whose turn is over; at the end of such a pass that is all of them.
`AllClosedShown`: a closed choice of observed rows survives each foreign key, so
that it is in the masks at every moment.

### From a database to its samples (`TaskChainProofs`)

`ChainInv` says of every task in the chain (`TaskSound`) that it is a plan over an
existing table, that its rows are rows of that table with labels in range, that
support and query have the promised number of rows of each class (`SplitKept`), that a split
by time is in order, and that a plan about the future names a timed event of its
target; of a stored task that the validator accepted it; of a
dataset that it is an outcome of the conversion of its task; of a sample that it
is drawn from its dataset. The labels need no induction over data: what a
builder may return is constrained by what it checks before it returns, and
`ChainSound` is about that.

- `SplitsKeepClassesHolds`, `QueriesComeLaterHolds`, `SamplesHaveBothLabelsHolds`
  follow from `ChainInv` and from the definition of the split and of the draw of a
  sample; ties are ordered by row, so that the second holds through them.
- `FutureUnseenHolds`: the label of a row about the future reads the times of its
  source only after the exported cutoff (`EntityLabelsForget`,
  `AggregateForgets`), whichever table the path of keys leads through.
- `EligibleRowsOnlyHolds` has no hypothesis about the times along keys. A builder
  decides from all events up to the cutoff that a row has history, and the view
  prunes those that hang on a later row, over any chain of keys: temporal priors
  draw such databases (run `event_lag`; shop `Backdated` here), and then a row may be
  in a task while the exported tables show none of its history. The property
  therefore says exactly which events are exported. Whatever a path of keys
  reaches from an event are rows of the path's end (`ClimbsToRows`) and so have a
  time (`AncestorTimes`): each is observed at the cutoff, or later and hides the event.
- `StagesAgreeHolds` assumes `RoomForValidation`: two rows of each class in each
  part, or more support rows than classes. Without it the split of a support with
  one row for each class does not exist (see the facts above). With it, the
  existence of a validation split is a counting argument: the rows that must stay
  in training are the lowest of each class (`LowestAreFew`), the rest is large
  enough to choose the validation rows from (`SubsetOfSize`, `ValidationExists`).
  That an exported database has no dangling key rests on `ViewIsClosed` of the
  recursive view of `RelationalData`: a row is hidden because some path of keys
  leads from it to a row that is not observed, and a path for a parent extended by
  one key is a path for its child; the ranks of `SchemaAcyclic` bound its length. That an
  executed program gives its task again is `ProgramsRun`, which `Materialize`
  establishes and no later stage disturbs.

- `BuildersMeetValidatorHolds`: each builder draws a candidate and returns it only if
  rows of every class are left; the validator has the plan alone and computes the
  labels again. `TaskReady` says of a candidate that the constructors accept it and
  that the labels replayed from its plan are its own; there is one lemma for each
  mechanism and one for the composite families (`RandomColumnReady` to
  `CompositeReady`, together `BuildsReady`), and `DrawnReady` and `ExecutionReady` for
  programs, which store their meaning as a number (`ExecutionReplayed`). The target
  of each is `__label__` or a feature, and a feature only for `ColumnMechanisms`
  (`LabelOrFeature`, with `MayLeak` the invariant of a refusal for leakage). Three things
  happen between builder and validator. A plan is bound to the calendar: the labels
  do not read it (`LabelsOfFields`) and the windows, cutoffs and horizons, drawn at
  instants of the database, lie within it (`CalendarHolds`, which
  `validate_database_instance` checks of every database before its tasks are
  planned). Supervision is moved to an entity: its rows are in the view, because no
  key leads from an entity to a timed table (`EntitiesAreStatic`, read off
  `ROLE_EDGE_RULES`). A program is executed again from disk: it gives a task or
  none, never one the constructors refuse. `BuildersAgree` is the inductive
  invariant: every task of the chain is valid for the request's database, every
  program is one that was drawn from it, and the planner works without programs
  only where the request asks for none. Assumed of requests: without programs, only the families
  of the composite planner are asked for; with programs, a calendar is (the stage
  reads its cutoffs from it) and families with a meaning.

### Materialization (`MaterializationProofs`)

The requests are any, and so are the limits: the theorems use the named
assumptions of the modules only (blueprints, compiler and prior configurations
as the constructors accept them, positive limits, ticks within the calendar).

`Sound` (`RunSound`) is the inductive invariant, a conjunction over the stages.
`PlansSound`: the schema is one that the compiler makes of the request, the prior
one of that schema, a plan `Planned` (order, groups of relations, families of the
tables, rates of the keys, positive rows for every table) and `Populated` (its
populations are of the kind its prior asks for), and what a resolved population
stores is still true of the plan (`Resolved`: counts that add up to the rows of
the table, and the digest of the rows they were counted on). `RowsSound`: a
database `Fits` its plan, and the tables overlaid already hang on the parents
that their events were counted for.

- `PlansAcceptedHolds`: no hypotheses. What a compiled schema, a planned prior and
  a bound plan are checked for is true of them by the way they are made. A key's
  column is found again by the number of keys before it (`KeyPlace`,
  `CompiledConstructs`). All bundles of a prior are of one choice of components, or
  of the legacy ones that every other gives way to, so that no two claim a table
  or a key for different mechanisms (`BundlesAgree`); the components fit together
  because the configuration's do, and a state machine is added to a bundle only
  under a family whose choice is temporal (`ChoiceFacts`, `TreeBundleSound`). The
  graph of mechanisms is acyclic although it is drawn occurrence by occurrence,
  table by table and column by column, and although of overlapping bundles the
  last one counts: `Precedes`, by the rank of the table and then by the ordinal,
  orders all features of the schema alike for every occurrence; each draw takes
  parents that precede (`ChoicesPrecede`, `DrawsTidy`), each column keeps one
  mechanism (`LastTidy`, `GeneratedTidy`), and what the validator's search reaches
  from a column precedes it, however many steps it takes (`TidyAccepted`). The
  order of generation has parents first (`PlannedOrdered`), the groups part the
  keys (`PlannedGroups`), states belong to entities (`StatesAreOwned`).
- `CountsRealizedHolds`: no hypotheses. The heart is `Resolved`: planning the
  tables below one population anew must leave the rows that the others were
  counted on. A population is of events that hang on one entity and nothing else
  (`Mechanism`), the tables above an entity are entities and lookups, whose rows
  are no product of others' (`DigestSame`), and a table with a population is never
  planned anew (`ResolveFacts`, `FinalFacts`). The rest is that the drawn counts add
  up to the rows of the table (`RunningFacts`), and that the sequence the overlay
  makes of them has each parent as often as counted (`RepeatFacts`,
  `OverlaidFacts`).
- `LagUnderStaticPriorsHolds`: hypothesis `HeadroomSuffices`, the calendar has two
  ticks more than a request has event and detail tables. The code's ticks are
  seconds and its calendars are years long; without it the property is false,
  since `_max_time_lagged_depth` reserves one tick for each table of a chain and
  cuts the result at two. Depth falls along a key (`Lags`: what lags a table has
  more room after it), so that the row cut off at the end of its calendar still
  comes after its parent's.
- `OnlyOverlaysAreRejectedHolds`: hypothesis `CalendarSuffices`, at least two ticks
  (which the code's configuration exceeds by any calendar of more than a second).
  Whatever the database validator could refuse, table by table and key by key, is
  shown of the database before the overlay: rows as planned, keys that point to
  rows, no missing value where none may be, every bridge row a pair of parents not
  seen before in its group (`Bridges`: the tuples of a group are drawn without
  repetition until all are used, and there are as many as the plan has rows,
  `CombinationsCounted`). `Limited` and `OverlaysLimited` say what each overlay
  leaves alone. The theorem is about both validators and the constructor.
- `EveryStepProgressesHolds`: each step is later in a well-founded order (attempt,
  stage, populations to resolve, tables to generate, events to overlay), with the
  invariant `Counted` (only a failed run has used up its attempts). That a table
  is generated once rests on `TableAdded`, that a population is resolved once on
  `PopulationCounted`.

The recursive functions of the planner (ranks, orders, rows, draws of parents,
steps of replanning, assignments of foreign keys) are unfolded by one scheme: a lemma `...Steps` says
that a function with the recursion's equation exists, from which `...Facts`
takes what holds at each argument, by the least argument that violates it
(`LeastNatural`).

### Only model-checked

- `ViewEnds`, `SampleTerminates`, `RunsEnd` and every other liveness property:
  fairness and `ENABLED` are out of the prover's reach.

## 5. Plan

Done: schema sampling, stages and artifacts, event schedules, the view, the
materialization of a database, the chain from a database to its samples; every
refinement, and every invariant that a run checks, proved. Next, of the model: the DFS process with its watchdog
and the cleaning of intermediate files, stage 4's shards; rule programs (the
order of their evaluation and effects); routing caches, training epochs and
checkpoints, the importer's cache; one chain for both halves, with the values
that labels depend on.

## 6. Not modelled

Numerical content (features, latents, mechanisms' values, statistics, networks,
losses), the seeds themselves, formats and parsing, logging, the command line,
the names and data types of columns and semantic columns, forests, the rules of
rule programs (only whether a draw of them is refused), missing feature values
in the task chain, the DFS process. Stage 1 (one file per schema, in a loop)
and stage 4 use the artifact and manifest pattern of `StageRun` in simpler
form.
