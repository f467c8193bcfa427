------------------------------ MODULE SchemaGraph ------------------------------
(***************************************************************************)
(* A schema blueprint as data and the validators that decide whether one   *)
(* is accepted: structure, roles, motif provenance and constraints.        *)
(*   ns    the nodes, a sequence of [role, rank]; a node ID (N000, N001,   *)
(*         ...) is the position of its node,                               *)
(*   es    the foreign keys, a sequence of [parent : node, child : node],  *)
(*   occs  the motif occurrences, a sequence of [motif, bind, edges]: the  *)
(*         node each slot is bound to, the edge each motif edge is bound   *)
(*         to,                                                             *)
(*   fks   foreign keys as a set of <<parent, child>> pairs.               *)
(* Node, edge and occurrence IDs are positions, so the duplicate-ID checks *)
(* of the code have no counterpart here.                                   *)
(***************************************************************************)
EXTENDS SchemaMotifs

NodeIds(ns) == DOMAIN ns
Pairs(es) == {<<es[k].parent, es[k].child>> : k \in DOMAIN es}
RolePair(ns, p) == <<ns[p[1]].role, ns[p[2]].role>>

FKParents(fks, n) == {p[1] : p \in {q \in fks : q[2] = n}}
FKChildren(fks, n) == {p[2] : p \in {q \in fks : q[1] = n}}

(* incoming_structural: the distinct structural parents of node n.         *)
StructuralParents(ns, fks, n) ==
  {u \in FKParents(fks, n) : RolePair(ns, <<u, n>>) \in StructuralEdges}

(* Every foreign key goes up in rank between two roles that may be joined, *)
(* and no pair of tables is joined twice.                                  *)
KeysLegal(ns, es) ==
  /\ \A p \in Pairs(es) : ns[p[1]].rank < ns[p[2]].rank /\ RolePair(ns, p) \in AllowedEdges
  /\ \A j, k \in DOMAIN es : es[j] = es[k] => j = k

(* validate_structure *)
StructureValid(ns, fks) ==
  /\ ns # <<>>
  /\ \A p \in fks : /\ p[1] \in NodeIds(ns) /\ p[2] \in NodeIds(ns)
                    /\ ns[p[1]].rank < ns[p[2]].rank

(* validate_roles *)
RolesValid(ns, fks) ==
  /\ \A p \in fks : RolePair(ns, p) \in AllowedEdges
  /\ \A n \in NodeIds(ns) :
       LET spec == RoleSpec[ns[n].role]
           count == Cardinality(StructuralParents(ns, fks, n))
       IN /\ FKParents(fks, n) # {} => spec.ownsFK
          /\ FKChildren(fks, n) # {} => spec.referenced
          /\ spec.min <= count /\ count <= spec.max

(* validate_motif_attachment: motif m bound by the function bind from its  *)
(* slots to nodes; only the anchor may be bound to a node in existing.     *)
AttachmentValid(ns, fks, m, bind, existing) ==
  LET a == [s \in Slots(m) |-> ns[bind[s]].role] IN
  /\ ValidMotif(m)
  /\ DOMAIN bind = Slots(m)
  /\ \A s, t \in Slots(m) : bind[s] = bind[t] => s = t
  /\ \A s \in Slots(m) \ {m.anchor} : bind[s] \notin existing
  /\ \A s \in Slots(m) : bind[s] \in NodeIds(ns) /\ a[s] \in m.nodes[s].roles
  /\ \A e \in MotifEdges(m) : /\ <<bind[e.parent], bind[e.child]>> \in fks
                              /\ <<a[e.parent], a[e.child]>> \in AllowedEdges
  /\ \A s \in Slots(m) :
       LET n == Cardinality(LocalParents(m, a, s)) IN
         /\ s # m.anchor => n >= RoleSpec[a[s]].min
         /\ n <= RoleSpec[a[s]].max
  /\ \A s \in Slots(m) :
       /\ GlobalRank(m, ns[bind[m.anchor]].rank, s) >= 0
       /\ ns[bind[s]].rank = GlobalRank(m, ns[bind[m.anchor]].rank, s)

(* validate_motif_occurrences *)
OccurrencesValid(ns, es, occs, library) ==
  \A k \in DOMAIN occs :
    LET m == occs[k].motif
        bind == occs[k].bind
        fk == occs[k].edges
    IN /\ m \in library
       /\ AttachmentValid(ns, Pairs(es), m, bind, {})
       /\ DOMAIN fk = DOMAIN m.edges
       /\ \A j \in DOMAIN m.edges :
            /\ fk[j] \in DOMAIN es
            /\ es[fk[j]] = [parent |-> bind[m.edges[j].parent],
                            child |-> bind[m.edges[j].child]]

(* The nodes with a role in roles, and the edges between two roles.        *)
NodesWith(ns, roles) == {n \in NodeIds(ns) : ns[n].role \in roles}
EdgesBetween(ns, es, pr, cr) ==
  {k \in DOMAIN es : RolePair(ns, <<es[k].parent, es[k].child>>) = <<pr, cr>>}

Within(value, c) == c.min <= value /\ value <= c.max

(* A path of between min and max foreign keys from source to target: the   *)
(* nodes reached after exactly h hops, for every h in the bounds.          *)
ReachedIn(fks, source, h) ==
  LET at[i \in 0..h] ==
        IF i = 0 THEN {source}
        ELSE UNION {FKChildren(fks, n) : n \in at[i - 1]}
  IN at[h]
PathWithin(fks, source, target, min, max) ==
  \E h \in min..max : target \in ReachedIn(fks, source, h)

(* validate_semantics: one blueprint-stage constraint on foreign keys.     *)
(* Constraints are records with a type; the bounds the code leaves None    *)
(* are given as numbers no blueprint exceeds.                              *)
Holds(ns, es, c) ==
  CASE c.type = "connected" -> Connected(NodeIds(ns), Pairs(es))
    [] c.type = "acyclic" -> Acyclic(NodeIds(ns), Pairs(es))
    [] c.type = "no_parallel" -> Cardinality(Pairs(es)) = Len(es)
    [] c.type = "table_count" -> Within(Len(ns), c)
    [] c.type = "edge_count" -> Within(Len(es), c)
    [] c.type = "role_count" -> Within(Cardinality(NodesWith(ns, {c.role})), c)
    [] c.type = "forbidden_edge" -> EdgesBetween(ns, es, c.parent, c.child) = {}
    [] c.type = "required_edge" ->
         Cardinality(EdgesBetween(ns, es, c.parent, c.child)) >= c.min
    [] c.type = "parent_count" ->
         c.node \in NodeIds(ns) /\ Within(Cardinality(FKParents(Pairs(es), c.node)), c)
    [] c.type = "child_count" ->
         c.node \in NodeIds(ns) /\ Within(Cardinality(FKChildren(Pairs(es), c.node)), c)
    [] c.type = "rank_order" ->
         /\ c.before \in NodeIds(ns) /\ c.after \in NodeIds(ns)
         /\ Within(ns[c.after].rank - ns[c.before].rank, c)
    [] c.type = "reachability" ->
         /\ c.source \in NodeIds(ns) /\ c.target \in NodeIds(ns)
         /\ PathWithin(Pairs(es), c.source, c.target, c.min, c.max)
    [] c.type = "unique_leaf" ->
         Cardinality({n \in NodesWith(ns, c.roles) : FKChildren(Pairs(es), n) = {}}) = 1

(* validate_blueprint: no error-level issue in any layer.                  *)
BlueprintValid(ns, es, occs, constraints, library) ==
  /\ StructureValid(ns, Pairs(es))
  /\ RolesValid(ns, Pairs(es))
  /\ OccurrencesValid(ns, es, occs, library)
  /\ \A c \in constraints : Holds(ns, es, c)
=============================================================================
