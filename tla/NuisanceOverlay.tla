---------------------------- MODULE NuisanceOverlay ----------------------------
(***************************************************************************)
(* The nuisance overlay (nuisance/) and the validation of the database     *)
(* that results (validation/checks.py).                                    *)
(*                                                                         *)
(* A nuisance plan has overwritten (columns whose values are replaced),    *)
(* masked (columns that lose values) and distracted (foreign keys some of  *)
(* whose rows are drawn again).                                            *)
(***************************************************************************)
EXTENDS DatabaseGeneration

NoNuisance == [overwritten |-> {}, masked |-> {}, distracted |-> {}]

FirstFeature(s, t) == CHOOSE c \in Features(s, t) : \A e \in Features(s, t) : c[2] <= e[2]

(* NuisancePlanner.plan, with n.kind, n.enabled and n.relations of a       *)
(* request; `kind` is that of the composition.  (No column can become      *)
(* REDUNDANT: it would have to be its own source.)                         *)
NuisancePlanOf(s, n, kind) ==
  IF kind = "legacy" \/ ~(n.enabled \/ kind # n.kind) THEN NoNuisance
  ELSE [overwritten |-> IF kind \in {"proxy", "spurious", "distractor"}
                        THEN {FirstFeature(s, t) : t \in {t \in TablesOf(s) : Features(s, t) # {}}} ELSE {},
        masked |-> IF kind \in {"mcar", "mar", "mnar"} THEN UNION {Nullable(s, t) : t \in TablesOf(s)} ELSE {},
        distracted |-> IF kind = "distractor" THEN {i \in KeysOf(s) : i <= n.relations} ELSE {}]

-----------------------------------------------------------------------------
(* NuisanceExecutor.apply: columns first.  A replaced value is never       *)
(* missing, and one text may stand in several rows.                        *)
Overwrite(s, d, n) ==
  LET unique == {c \in n.overwritten : ColumnOf(s, c).unique /\ d.rows[c[1]] > 1}
  IN {[d EXCEPT !.missing = [c \in DOMAIN @ |-> IF c \in n.overwritten THEN {} ELSE @[c]],
                !.duplicate = repeated] : repeated \in SUBSET unique}

(* sample_missing_mask leaves a value in each column, among all rows: those*)
(* that have none already are not told apart.                              *)
SampledMasks(d, c) == MissingMasks(d.rows[c[1]])

(* NuisanceExecutor.apply, then: the masked columns lose their values.     *)
Mask(s, d, n) ==
  LET masks == {f \in [n.masked -> SUBSET UNION {1..d.rows[t] : t \in TablesOf(s)}] :
                  \A c \in n.masked : f[c] \in SampledMasks(d, c)}
  IN {[d EXCEPT !.missing = [c \in DOMAIN @ |-> IF c \in n.masked THEN @[c] \cup f[c] ELSE @[c]]] : f \in masks}

(* apply_distractor_relation: assigned rows may get any parent.            *)
Redraws(s, d, i) ==
  {f \in [DOMAIN d.key[i] -> 0..d.rows[ParentOf(s, i)]] : \A row \in DOMAIN f : (f[row] = 0) = (d.key[i][row] = 0)}

Distract(s, d, n) ==
  {[d EXCEPT !.key = Joined(@, redrawn)] : redrawn \in EachOf([i \in n.distracted |-> Redraws(s, d, i)])}

-----------------------------------------------------------------------------
(* validate_database_instance                                              *)
BridgeDuplicates(s, p, d, g) ==
  LET n == d.rows[ChildOfGroup(s, g)]
  IN /\ \A i \in g : p.rate[i] = 0
     /\ n <= Combinations(s, d.rows, g)
     /\ Cardinality({Tuple(g, d.key, row) : row \in 1..n}) # n

DatabaseIssueKinds ==
  {"row count", "calendar", "key bounds", "key missing", "bridge duplicate", "all missing", "duplicate"}

DatabaseIssues(s, p, d) ==
  {issue \in DatabaseIssueKinds :
     CASE issue = "row count" -> d.rows # p.rows \/ \E i \in KeysOf(s) : Len(d.key[i]) # d.rows[ChildOf(s, i)]
       [] issue = "calendar" -> \E t \in DOMAIN d.time : ~(Range(d.time[t]) \subseteq 0..CalendarEnd)
       [] issue = "key bounds" -> \E i \in KeysOf(s) : ~(Range(d.key[i]) \subseteq 0..d.rows[ParentOf(s, i)])
       [] issue = "key missing" -> \E i \in KeysOf(s) : ~Optional(s, i) /\ 0 \in Range(d.key[i])
       [] issue = "bridge duplicate" -> \E g \in p.groups : p.family[g] = "affinity_bridge" /\ Cardinality(g) > 1 /\ BridgeDuplicates(s, p, d, g)
       [] issue = "all missing" -> \E c \in DOMAIN d.missing : d.missing[c] = 1..d.rows[c[1]]
       [] OTHER -> d.duplicate # {}}
=============================================================================
