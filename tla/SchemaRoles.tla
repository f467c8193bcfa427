----------------------------- MODULE SchemaRoles -----------------------------
(***************************************************************************)
(* The V1 table-role catalog: what each role of a logical schema may do    *)
(* (ROLE_SPECS) and which parent-role -> child-role foreign keys are       *)
(* allowed (ROLE_EDGE_RULES).                                              *)
(***************************************************************************)
EXTENDS Integers, FiniteSets

Roles == {"entity", "event", "bridge", "lookup", "detail"}

(* ROLE_SPECS, restricted to the policies the validators read.  No role of *)
(* the catalog has leaf policy FORBIDDEN or an unbounded maximum.          *)
RoleSpec ==
  [r \in Roles |->
    CASE r = "entity" -> [min |-> 0, max |-> 2, ownsFK |-> TRUE,  referenced |-> TRUE]
      [] r = "event"  -> [min |-> 1, max |-> 3, ownsFK |-> TRUE,  referenced |-> TRUE]
      [] r = "bridge" -> [min |-> 2, max |-> 3, ownsFK |-> TRUE,  referenced |-> TRUE]
      [] r = "lookup" -> [min |-> 0, max |-> 0, ownsFK |-> FALSE, referenced |-> TRUE]
      [] r = "detail" -> [min |-> 1, max |-> 2, ownsFK |-> TRUE,  referenced |-> FALSE]]

(* The rules with counts_as_structural_parent = False: Lookup references.  *)
AuxiliaryEdges == {"lookup"} \X {"entity", "event", "bridge", "detail"}

(* The rules that count towards a child's structural parents.              *)
StructuralEdges ==
  ({"entity"} \X {"entity", "event", "bridge", "detail"})
    \cup ({"event"} \X {"event", "bridge", "detail"})
    \cup ({"bridge"} \X {"event", "detail"})

(* is_role_edge_allowed *)
AllowedEdges == AuxiliaryEdges \cup StructuralEdges

(* _validate_catalog, which runs when the module is imported.              *)
CatalogConsistent ==
  /\ AllowedEdges \subseteq Roles \X Roles
  /\ \A e \in AllowedEdges : RoleSpec[e[1]].referenced /\ RoleSpec[e[2]].ownsFK

ASSUME RoleCatalogImports == CatalogConsistent
=============================================================================
