----------------------------- MODULE SchemaGrowth -----------------------------
(***************************************************************************)
(* What the schema stage promises, without saying how schemas are drawn: a *)
(* schema starts as one entity table, grows by new tables that are legally *)
(* connected to it until it has exactly the size drawn for it, then gains  *)
(* at most MaxExtra foreign keys between its tables, one at a time, and    *)
(* from then on never changes.  Nothing once part of it is revised.        *)
(***************************************************************************)
EXTENDS SchemaGraph

CONSTANTS Sizes, MaxExtra

VARIABLES
  stage,   \* "growing", "enriching" or "frozen"
  size,    \* the number of tables the schema is to have
  tables,  \* a sequence of [role, rank]
  fks,     \* the foreign keys, pairs of positions in tables
  extra    \* the foreign keys gained after growth

gvars == <<stage, size, tables, fks, extra>>

(* Legal: a connected, rank-ordered foreign-key graph in which every table *)
(* has the structural parents its role asks for.                           *)
Legal(ts, f) ==
  StructureValid(ts, f) /\ RolesValid(ts, f) /\ Connected(NodeIds(ts), f)

GrowthInit ==
  /\ stage = "growing" /\ size \in Sizes /\ extra = 0
  /\ tables = <<[role |-> "entity", rank |-> 0]>> /\ fks = {}

(* New tables arrive with their foreign keys; every new foreign key ends   *)
(* at a new table on one side at least.                                    *)
Grow ==
  /\ stage = "growing" /\ Len(tables) < Len(tables') /\ Len(tables') <= size
  /\ SubSeq(tables', 1, Len(tables)) = tables /\ fks \subseteq fks'
  /\ \A p \in fks' \ fks : p[1] \notin NodeIds(tables) \/ p[2] \notin NodeIds(tables)
  /\ Legal(tables', fks')
  /\ UNCHANGED <<stage, size, extra>>

Complete ==
  /\ stage = "growing" /\ Len(tables) = size
  /\ stage' \in {"enriching", "frozen"}
  /\ UNCHANGED <<size, tables, fks, extra>>

Enrich ==
  /\ stage = "enriching" /\ extra < MaxExtra
  /\ fks \subseteq fks' /\ \E p \in fks' \ fks : fks' = fks \cup {p}
  /\ Legal(tables, fks')
  /\ extra' = extra + 1
  /\ UNCHANGED <<stage, size, tables>>

Freeze ==
  /\ stage = "enriching" /\ stage' = "frozen"
  /\ UNCHANGED <<size, tables, fks, extra>>

GrowthNext == Grow \/ Complete \/ Enrich \/ Freeze

Growth == GrowthInit /\ [][GrowthNext]_gvars
=============================================================================
