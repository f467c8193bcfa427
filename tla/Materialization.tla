---------------------------- MODULE Materialization ----------------------------
(***************************************************************************)
(* One database instance from its logical schema: the schema is compiled,  *)
(* a prior is planned, and then, until an attempt succeeds or none is left,*)
(* an instance is planned, bound to the prior, validated, drafted and      *)
(* resolved, generated, overlaid and validated again                       *)
(* (_generate_one_database_instance).                                      *)
(*                                                                         *)
(* `issues` is what the latest attempt was refused for.                    *)
(***************************************************************************)
EXTENDS NuisanceOverlay

CONSTANTS
  Requests,     \* [blueprint, columns, prior] that a run may be asked for
  MaxAttempts   \* task_policy.max_materialization_attempts

ASSUME RequestsAccepted ==
  /\ MaxAttempts \in Nat \ {0}
  /\ \A r \in Requests :
       BlueprintAccepted(r.blueprint) /\ CompilerConfigAccepted(r.columns) /\ PriorConfigAccepted(r.prior)

VARIABLES
  request,
  stage,
  schema,      \* the compiled schema
  prior,       \* the prior plan
  plan,        \* the instance plan
  db,          \* the rows generated so far
  pending,     \* the processes of the plan that are still to be overlaid
  attempt,     \* attempts that were refused
  issues

vars == <<request, stage, schema, prior, plan, db, pending, attempt, issues>>

Nothing == << >>

Init ==
  /\ request \in Requests
  /\ stage = "compile" /\ schema = Nothing /\ prior = Nothing /\ plan = Nothing /\ db = Nothing
  /\ pending = {} /\ attempt = 0 /\ issues = {}

-----------------------------------------------------------------------------
CompileSchema ==
  /\ stage = "compile"
  /\ \E s \in Compile(request.columns, request.blueprint) :
       IF SchemaConstructs(s) /\ TraceConstructs(s, request.blueprint)
       THEN schema' = s /\ stage' = "prior" /\ UNCHANGED issues
       ELSE stage' = "failed" /\ issues' = {"schema"} /\ UNCHANGED schema
  /\ UNCHANGED <<request, prior, plan, db, pending, attempt>>

(* The prior is planned once; if that raises, so does the whole run.       *)
PlanPrior ==
  /\ stage = "prior"
  /\ LET r == request.prior
         none == r.families = {} /\ r.compositions = {}
         plans == IF none THEN {NoPrior} ELSE PriorPlans(schema, r)
     IN \/ \E p \in plans :
             IF PriorConstructs(p) THEN prior' = p /\ stage' = "plan" /\ UNCHANGED issues
             ELSE stage' = "failed" /\ issues' = {"construction"} /\ UNCHANGED prior
        \/ plans = {} /\ stage' = "failed" /\ issues' = {"prior"} /\ UNCHANGED prior
  /\ UNCHANGED <<request, schema, plan, db, pending, attempt>>

(* A legacy prior has a single attempt.                                    *)
Attempts == IF prior.family \in {"none", "legacy_role_scm"} THEN 1 ELSE MaxAttempts

(* Slip: the attempt is not counted.                                       *)
SameAttempt(n) == n

NextAttempt(n) == n + 1

Refuse(reasons) ==
  /\ attempt' = NextAttempt(attempt) /\ issues' = reasons
  /\ stage' = IF NextAttempt(attempt) >= Attempts THEN "failed" ELSE "plan"
  /\ plan' = Nothing /\ db' = Nothing /\ pending' = {}

(* InstancePlanner.plan with the binding, and validate_instance_plan.  The *)
(* columns' mechanisms have no use after this.                             *)
PlanInstance ==
  /\ stage = "plan"
  /\ \E p \in InstancePlans(schema) : \E o \in Bind(schema, request.prior, p, prior) :
       LET found == IF o.issues # {} THEN o.issues
                    ELSE IF ~PlanConstructs(o.plan) THEN {"construction"} ELSE PlanIssues(schema, o.plan, prior)
       IN IF found # {} THEN Refuse(found)
          ELSE /\ plan' = [o.plan EXCEPT !.columns = {}] /\ pending' = Temporal(o.plan) /\ issues' = {}
               /\ stage' = (IF NeedsDraft(o.plan) THEN "draft" ELSE "generate")
               /\ db' = Empty(schema, o.plan) /\ UNCHANGED attempt
  /\ UNCHANGED <<request, schema, prior>>

(* The draft is generated without its temporal processes; what the final   *)
(* plan takes from it, one population after the other, is drawn.           *)
ResolvePopulation ==
  /\ stage = "draft"
  /\ \E m \in Unresolved(plan) :
       /\ \A n \in Unresolved(plan) : m.table <= n.table
       /\ \E counts \in CountDraws(plan.rows[m.parent]) :
            LET found == PopulationIssues(Total(counts), plan.rows[m.table])
            IN IF found # {} THEN Refuse(found)
               ELSE plan' = ResolveOne(schema, plan, m, counts) /\ UNCHANGED <<stage, db, pending, attempt, issues>>
  /\ UNCHANGED <<request, schema, prior>>

FinalizePlan ==
  /\ stage = "draft" /\ Unresolved(plan) = {}
  /\ plan' = FinalPlan(schema, plan) /\ stage' = "generate"
  /\ UNCHANGED <<request, schema, prior, db, pending, attempt, issues>>

(* The positions of the tables that are still to be generated.             *)
Missing == {k \in DOMAIN plan.order : plan.order[k] \notin DOMAIN db.rows}

GenerateTable ==
  /\ stage = "generate"
  /\ \E k \in Missing :
       /\ \A j \in Missing : k <= j
       /\ db' \in WithTable(schema, plan, db, plan.order[k])
       /\ stage' = IF Missing = {k} THEN "temporal" ELSE "generate"
  /\ UNCHANGED <<request, schema, prior, plan, pending, attempt, issues>>

(* apply_temporal_event_processes, one event table after the other.        *)
OverlayEvents ==
  /\ stage = "temporal"
  /\ \E m \in pending :
       /\ \A n \in pending : m.table <= n.table
       /\ \E counts \in ScheduleCounts(schema, plan, m) :
            IF Total(counts) # db.rows[m.table] THEN Refuse({"schedule"})
            ELSE /\ db' \in Overlaid(schema, plan, db, m, counts)
                 /\ pending' = pending \ {m} /\ UNCHANGED <<stage, plan, attempt, issues>>
  /\ UNCHANGED <<request, schema, prior>>

Nuisance == NuisancePlanOf(schema, request.prior.nuisance, request.prior.nuisance.of)

ApplyNuisance ==
  /\ stage = "temporal" /\ pending = {}
  /\ \E d \in Overwrite(schema, db, Nuisance) : \E e \in Mask(schema, d, Nuisance) : db' \in Distract(schema, e, Nuisance)
  /\ stage' = "validate"
  /\ UNCHANGED <<request, schema, prior, plan, pending, attempt, issues>>

(* The task programs of a temporal prior are executed last, and one that   *)
(* gives no task refuses the database; TaskChain has them.                 *)
ValidateDatabase ==
  /\ stage = "validate"
  /\ LET found == DatabaseIssues(schema, plan, db)
     IN \/ found # {} /\ Refuse(found)
        \/ found = {} /\ ~Static(prior) /\ request.prior.programs /\ Refuse({"programs"})
        \/ found = {} /\ stage' = "done" /\ UNCHANGED <<plan, db, pending, attempt, issues>>
  /\ UNCHANGED <<request, schema, prior>>

Ended == stage \in {"done", "failed"} /\ UNCHANGED vars

Next ==
  \/ CompileSchema \/ PlanPrior \/ PlanInstance \/ ResolvePopulation \/ FinalizePlan \/ GenerateTable
  \/ OverlayEvents \/ ApplyNuisance \/ ValidateDatabase \/ Ended

(* The worker is one synchronous call.                                     *)
Spec == Init /\ [][Next]_vars

-----------------------------------------------------------------------------
(* A schema the compiler built, and a plan made for it and bound to its    *)
(* prior, are never refused: an accepted configuration is only ever        *)
(* refused for a composition the binder does not support (compile_result,  *)
(* validate_instance_plan).  In particular the parents drawn for the       *)
(* features of several overlapping occurrences never form a cycle.         *)
PlansAccepted == issues \cap (PlanIssueKinds \cup {"schema", "construction"}) = {}

(* The events a final plan counted for an entity are the rows that hang on *)
(* it in the database, although rows were planned, resolved and replanned  *)
(* before the overlay replaced the keys: no schedule is ever refused, and  *)
(* no table has other rows than the plan (_prepare_temporal_population,    *)
(* apply_temporal_event_processes).                                        *)
CountsRealized ==
  /\ "schedule" \notin issues
  /\ stage = "validate" => db.rows = plan.rows
  /\ stage = "temporal" =>
       \A m \in Temporal(plan) \ pending : \A e \in DOMAIN plan.counts[m.table].of :
         Cardinality({row \in DOMAIN db.key[m.key] : db.key[m.key][row] = e}) = plan.counts[m.table].of[e]

(* What validate_database_instance may refuse a generated database for     *)
(* comes from the overlay of the request: a second mask over a column that *)
(* has gaps may leave no value, a replaced unique column may repeat one,   *)
(* and redrawn keys may repeat a tuple of a bridge.                        *)
Refusable(kind) ==
  CASE kind \in {"mcar", "mar", "mnar"} -> {"all missing"}
    [] kind \in {"proxy", "spurious"} -> {"duplicate"}
    [] kind = "distractor" -> {"duplicate", "bridge duplicate"}
    [] OTHER -> {}

OnlyOverlaysAreRejected == issues \cap DatabaseIssueKinds \subseteq Refusable(request.prior.nuisance.of)

(* A row of a lagged table comes after the row of its parent.              *)
RowsLag(t) ==
  LET i == LagKey(schema, db, t)
  IN \A row \in 1..db.rows[t] :
       db.key[i][row] # 0 => db.time[t][row] > db.time[ParentOf(schema, i)][db.key[i][row]]

LaggedTables == {t \in DOMAIN db.rows : Lagged(schema, plan, db, t)}

(* The headroom that is left at the end of the calendar suffices for every *)
(* chain of event tables, as long as no process replaces times later       *)
(* (_generate_time, _max_time_lagged_depth).                               *)
LagUnderStaticPriors ==
  stage \in {"generate", "temporal"} /\ Static(prior) => \A t \in LaggedTables : RowsLag(t)

(* "Reserve one second of headroom per TIME_LAGGED chain link so a child   *)
(* can always land strictly after its parent" (features.py), whatever the  *)
(* prior is.                                                               *)
ChildrenAfterParents == stage = "done" => \A t \in LaggedTables : RowsLag(t)

(* The worker comes to an end: every step is a later attempt, of which     *)
(* there is a limit, a later stage of the same attempt, one more population*)
(* counted, one more table                                                 *)
(* generated or one fewer event table to overlay; and only an ended run    *)
(* has no step (the attempts of _generate_one_database_instance).          *)
Stages == <<"compile", "prior", "plan", "draft", "generate", "temporal", "validate", "done", "failed">>
StageRank(name) == CHOOSE k \in DOMAIN Stages : Stages[k] = name

EveryStepProgresses ==
  [][/\ attempt' <= MaxAttempts
     /\ \/ attempt' > attempt
        \/ attempt' = attempt /\ StageRank(stage') > StageRank(stage)
        \/ /\ attempt' = attempt /\ stage' = stage
           /\ \/ stage = "draft" /\ DOMAIN plan.counts \subseteq DOMAIN plan'.counts /\ plan'.counts # plan.counts
              \/ stage = "generate" /\ DOMAIN db.rows \subseteq DOMAIN db'.rows /\ db'.rows # db.rows
              \/ stage = "temporal" /\ pending' \subseteq pending /\ pending' # pending]_vars
=============================================================================
