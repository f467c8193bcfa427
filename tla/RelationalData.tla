---------------------------- MODULE RelationalData ----------------------------
(***************************************************************************)
(* A compiled schema and a generated database as the tasks see them: which *)
(* rows a path of foreign keys leads to, and which rows a cutoff leaves    *)
(* visible.                                                                *)
(*                                                                         *)
(* The rows of a table are numbered from 1; a foreign key that is not      *)
(* assigned refers to row 0.  A feature column is a sequence of integers   *)
(* without missing values, a category standing for its rank.               *)
(***************************************************************************)
EXTENDS Integers, Sequences, FiniteSets, SequencesExt

CONSTANTS
  Tables,
  Role,          \* table -> "entity" | "event" | "detail" | "lookup" | "bridge"
  Keys,          \* schema.foreign_keys: sequence of [child, parent]
  Timed,         \* the EVENT and DETAIL tables with a time column
  Features       \* table -> its feature columns

ASSUME SchemaWellFormed ==
  /\ Role \in [Tables -> {"entity", "event", "detail", "lookup", "bridge"}]
  /\ Keys \in Seq([child : Tables, parent : Tables])
  /\ Timed \subseteq {t \in Tables : Role[t] \in {"event", "detail"}}
  /\ \A i \in DOMAIN Keys : Keys[i].child # Keys[i].parent

(* Keys lead from child to parent only so many times: a schema is compiled *)
(* from a blueprint without cycles.                                        *)
ASSUME SchemaAcyclic ==
  /\ IsFiniteSet(Tables)
  /\ \E rank \in [Tables -> 0..(Cardinality(Tables) - 1)] :
       \A i \in DOMAIN Keys : rank[Keys[i].parent] < rank[Keys[i].child]

(* ROLE_EDGE_RULES: a lookup refers to nothing, an entity to entities and  *)
(* lookups.                                                                *)
ASSUME EntitiesAreStatic ==
  \A i \in DOMAIN Keys :
    /\ Role[Keys[i].child] # "lookup"
    /\ Role[Keys[i].child] = "entity" => Role[Keys[i].parent] \in {"entity", "lookup"}

RowsOf(d, t) == 1..d.rows[t]

(* What a materialized database holds, as the importers of the tasks read  *)
(* it: times from 0 up, and a parent that exists or none.                  *)
DatabaseWellFormed(d) ==
  /\ DOMAIN d = {"rows", "time", "ref", "value"} /\ Timed \subseteq DOMAIN d.time
  /\ d.rows \in [Tables -> Nat]
  /\ \A t \in Timed : d.time[t] \in [RowsOf(d, t) -> Nat]
  /\ \A i \in DOMAIN Keys : d.ref[i] \in [RowsOf(d, Keys[i].child) -> 0..d.rows[Keys[i].parent]]
  /\ \A t \in Tables : \A c \in Features[t] : d.value[t][c] \in [RowsOf(d, t) -> Int]

Times(d, t) == ToSet(d.time[t])
Values(d, t, c) == ToSet(d.value[t][c])

(* Feature columns with more than one value.                               *)
Usable(d, t) == {c \in Features[t] : Cardinality(Values(d, t, c)) > 1}

(* The other end of foreign key i.                                         *)
Across(i, t) == IF Keys[i].child = t THEN Keys[i].parent ELSE Keys[i].child

(* The tables that path p visits from t.                                   *)
Stops(t, p) ==
  LET stop[k \in 0..Len(p)] == IF k = 0 THEN t ELSE Across(p[k], stop[k - 1])
  IN stop

Endpoint(t, p) == Stops(t, p)[Len(p)]

(* Walks over the foreign keys, in either direction, that visit no table   *)
(* twice.                                                                  *)
Simple(t, p) ==
  LET stops == Stops(t, p)
  IN \A k \in 1..Len(p) :
       /\ stops[k - 1] \in {Keys[p[k]].child, Keys[p[k]].parent}
       /\ \A j \in 0..(k - 1) : stops[j] # stops[k]

Routes ==
  UNION {{<<t, p>> : p \in {p \in BoundedSeq(DOMAIN Keys, Cardinality(Tables) - 1) \ {<< >>} : Simple(t, p)}} :
         t \in Tables}

Paths(t, depth) == {route[2] : route \in {route \in Routes : route[1] = t /\ Len(route[2]) <= depth}}

(* What paths read of a database: neither times nor values.                *)
Links(d) == [rows |-> d.rows, ref |-> d.ref]

(* Rows joined by foreign key i to `rows` of table t.                      *)
Joined(links, i, t, rows) ==
  IF Keys[i].child = t
  THEN {links.ref[i][r] : r \in rows} \ {0}
  ELSE {r \in RowsOf(links, Keys[i].child) : links.ref[i][r] \in rows}

(* The rows of the endpoint that path p leads to from each row of t.       *)
Traversed(links, t, p) ==
  LET stops == Stops(t, p)
      From(r) ==
        LET group[k \in 0..Len(p)] ==
              IF k = 0 THEN {r} ELSE Joined(links, p[k], stops[k - 1], group[k - 1])
        IN group[Len(p)]
  IN [r \in RowsOf(links, t) |-> From(r)]

Reached(d, t, p) == Traversed(Links(d), t, p)

(* Routes that go from child to parent throughout, to a timed table.       *)
TimedAncestors ==
  LET Upward(t, p) == \A k \in 1..Len(p) : Keys[p[k]].child = Stops(t, p)[k - 1]
  IN {<<r[1], r[2]>> : r \in {r \in Routes : Upward(r[1], r[2]) /\ Endpoint(r[1], r[2]) \in Timed}}

(* Rows of t that observation rules at cutoff c leave.                     *)
ObservedRows(d, t, c) ==
  {r \in RowsOf(d, t) : t \in Timed => d.time[t][r] >= 0 /\ d.time[t][r] <= c}

(* build_task_view, by what TaskView shows of its loop: the largest set of *)
(* observed rows with no foreign key to a hidden row.  In an acyclic       *)
(* schema these are the rows whose ancestors are all observed.             *)
VisibleRows(d, t, c) ==
  {r \in ObservedRows(d, t, c) :
     \A route \in TimedAncestors : route[1] = t =>
       \A x \in Reached(d, t, route[2])[r] : d.time[Endpoint(t, route[2])][x] \in 0..c}

===============================================================================
