---------------------------- MODULE PhysicalSchemas ----------------------------
(***************************************************************************)
(* Compilation of a logical schema: the columns of each table and the      *)
(* foreign keys between them (compilation/).                               *)
(*                                                                         *)
(* Tables and edges of a blueprint are sequences, and an ID is a position; *)
(* foreign key i is edge i.  A column is <<table, ordinal>> with ordinals  *)
(* from 1.  Names and data types are left out.                             *)
(***************************************************************************)
EXTENDS Integers, Sequences, FiniteSets, SequencesExt, SchemaRoles

(* b.roles, b.ranks: per table; b.edges: <<parent, child>>; b.occurrences: *)
(* the tables of each motif occurrence.                                    *)
TablesOf(b) == DOMAIN b.roles
KeysOf(b) == DOMAIN b.edges
ParentOf(b, i) == b.edges[i][1]
ChildOf(b, i) == b.edges[i][2]
Incoming(b, t) == {i \in KeysOf(b) : ChildOf(b, i) = t}

(* The elements of a finite set, each after those that R puts before it.   *)
Sorted(S, R) == [k \in 1..Cardinality(S) |-> CHOOSE x \in S : Cardinality({y \in S : <<y, x>> \in R}) = k - 1]
InOrder(S) == Sorted(S, {e \in S \X S : e[1] < e[2]})

Maximum(S) == CHOOSE x \in S : \A y \in S : y <= x

(* f, and g where it is defined.                                           *)
Joined(f, g) == [x \in DOMAIN f \cup DOMAIN g |-> IF x \in DOMAIN g THEN g[x] ELSE f[x]]
Single(x, value) == [y \in {x} |-> value]

(* One choice for each.                                                    *)
EachOf(choices) ==
  {f \in [DOMAIN choices -> UNION Range(choices)] : \A k \in DOMAIN choices : f[k] \in choices[k]}

EdgeRoles(b, i) == <<b.roles[ParentOf(b, i)], b.roles[ChildOf(b, i)]>>

(* ROLE_EDGE_RULES: optionality and relation_strategy of an edge.          *)
Optional(b, i) == EdgeRoles(b, i) \in AuxiliaryEdges \cup {<<"entity", "entity">>, <<"event", "event">>}
Lookup(b, i) == EdgeRoles(b, i) \in AuxiliaryEdges
RelationStrategy(b, i) ==
  LET from == EdgeRoles(b, i)[1]
      to == EdgeRoles(b, i)[2]
  IN CASE from = "lookup" -> "lookup_assignment"
       [] <<from, to>> = <<"entity", "entity">> -> "entity_hierarchy"
       [] <<from, to>> = <<"entity", "bridge">> -> "affinity_bridge"
       [] <<from, to>> = <<"event", "event">> -> "history_sequence"
       [] to = "detail" -> "detail_of"
       [] to = "bridge" -> "bridge_of"
       [] OTHER -> "event_of"

(* The blueprints that validate_blueprint accepts, as far as they matter   *)
(* here: keys are legal and ascend in rank, and an occurrence binds tables *)
(* of the schema.                                                          *)
BlueprintAccepted(b) ==
  /\ b.roles \in Seq(Roles) /\ b.ranks \in [TablesOf(b) -> Nat]
  /\ b.edges \in Seq(TablesOf(b) \X TablesOf(b))
  /\ \A i \in KeysOf(b) : EdgeRoles(b, i) \in AllowedEdges /\ b.ranks[ParentOf(b, i)] < b.ranks[ChildOf(b, i)]
  /\ LET table == TablesOf(b) \cup {0}
     IN b.occurrences \in Seq([tables : SUBSET TablesOf(b), entity : table, event : table, compatible : BOOLEAN])
  /\ \A k \in DOMAIN b.occurrences :
       LET o == b.occurrences[k] IN {o.entity, o.event} \subseteq o.tables \cup {0}

-----------------------------------------------------------------------------
(* _feature_column_bounds: a rule for the role, else one for the number of *)
(* tables, else the default.  c.features is the default range, c.byRole    *)
(* and c.byCount are the rules.                                            *)
FeatureColumnBounds(c, b, t) ==
  LET roleRules == {r \in c.byRole : r.role = b.roles[t]}
      countRules == {r \in c.byCount : r.tables[1] <= Len(b.roles) /\ Len(b.roles) <= r.tables[2]}
  IN CASE roleRules # {} -> (CHOOSE r \in roleRules : TRUE).columns
       [] roleRules = {} /\ countRules # {} -> (CHOOSE r \in countRules : TRUE).columns
       [] OTHER -> c.features

(* The configurations PhysicalCompilerConfig accepts.                      *)
CompilerConfigAccepted(c) ==
  /\ c.nullable \subseteq BOOLEAN
  /\ \A columns \in {c.features} \cup {r.columns : r \in c.byRole \cup c.byCount} :
       columns \in Nat \X Nat /\ columns[1] <= columns[2]
  /\ \A r, s \in c.byRole : r.role = s.role => r = s
  /\ \A r, s \in c.byCount : r # s => r.tables[2] < s.tables[1] \/ s.tables[2] < r.tables[1]

Column(kind, nullable, unique) == [kind |-> kind, nullable |-> nullable, unique |-> unique]

(* _add_role_columns without a semantic node                               *)
RoleColumns(role) ==
  CASE role = "event" -> <<Column("time", FALSE, FALSE)>>
    [] role = "lookup" -> <<Column("feature", FALSE, TRUE), Column("feature", FALSE, FALSE)>>
    [] role = "detail" -> <<Column("feature", FALSE, FALSE), Column("time", FALSE, FALSE)>>
    [] OTHER -> << >>

(* _add_feature_columns: each feature is nullable or not.                  *)
FeatureColumns(c, b, t) ==
  UNION {[1..n -> {Column("feature", nullable, FALSE) : nullable \in c.nullable}] :
         n \in FeatureColumnBounds(c, b, t)[1]..FeatureColumnBounds(c, b, t)[2]}

KeyColumns(b, t) ==
  LET keys == InOrder(Incoming(b, t))
  IN [k \in DOMAIN keys |-> Column("key", Optional(b, keys[k]), FALSE)]

TableColumns(c, b, t) ==
  {<<Column("primary", FALSE, TRUE)>> \o KeyColumns(b, t) \o RoleColumns(b.roles[t]) \o f : f \in FeatureColumns(c, b, t)}

(* PhysicalSchemaCompiler.compile                                          *)
Compile(c, b) ==
  {[roles |-> b.roles, ranks |-> b.ranks, edges |-> b.edges, occurrences |-> b.occurrences, columns |-> columns] :
   columns \in EachOf([t \in TablesOf(b) |-> TableColumns(c, b, t)])}

-----------------------------------------------------------------------------
KeyColumn(s, i) == <<ChildOf(s, i), 2 + Cardinality({j \in Incoming(s, ChildOf(s, i)) : j < i})>>
ColumnOf(s, ref) == s.columns[ref[1]][ref[2]]
ColumnsOfKind(s, t, kind) == {<<t, k>> : k \in {k \in DOMAIN s.columns[t] : s.columns[t][k].kind = kind}}
Features(s, t) == ColumnsOfKind(s, t, "feature")
AllFeatures(s) == UNION {Features(s, t) : t \in TablesOf(s)}
Timed(s, t) == ColumnsOfKind(s, t, "time") # {}

(* PhysicalTable, PhysicalForeignKey and PhysicalSchema, on construction.  *)
SchemaConstructs(s) ==
  /\ \A t \in TablesOf(s) : Cardinality(ColumnsOfKind(s, t, "primary")) = 1
  /\ \A i \in KeysOf(s) :
       /\ ParentOf(s, i) # ChildOf(s, i)
       /\ ColumnOf(s, KeyColumn(s, i)).kind = "key"
       /\ ColumnOf(s, KeyColumn(s, i)).nullable = Optional(s, i)
  /\ \A i, j \in KeysOf(s) : i # j => KeyColumn(s, i) # KeyColumn(s, j)

(* CompilationResult: every table and key of the trace is in the schema.   *)
TraceConstructs(s, b) == TablesOf(b) \subseteq TablesOf(s) /\ KeysOf(b) \subseteq KeysOf(s)
=============================================================================
