----------------------------- MODULE SchemaMotifs -----------------------------
(***************************************************************************)
(* Motif templates and the arithmetic of attaching one to a node of a      *)
(* schema.  A slot is its position in the motif's node sequence; a motif   *)
(* is a record                                                             *)
(*   type    its name,                                                     *)
(*   nodes   a sequence of [roles : set of roles, offset : local rank],    *)
(*   edges   a sequence of [parent : slot, child : slot],                  *)
(*   anchor  the slot bound to an existing node.                           *)
(* Every motif edge of the repository leaves the rank gap at its default:  *)
(* at least one, no maximum.                                               *)
(***************************************************************************)
EXTENDS SchemaRoles, Sequences

Slots(m) == DOMAIN m.nodes
MotifEdges(m) == {m.edges[k] : k \in DOMAIN m.edges}

(* Structural parents slot s gets from the motif itself under roles a.     *)
LocalParents(m, a, s) ==
  {e.parent : e \in {x \in MotifEdges(m) :
                      x.child = s /\ <<a[x.parent], a[x.child]>> \in StructuralEdges}}

(* Roles chosen for every slot such that every edge is allowed and every   *)
(* slot is structurally complete; the anchor, which may have parents in    *)
(* the schema already, only has to respect the maximum.  The anchor slot   *)
(* takes its role from anchorRoles.                                        *)
CompleteAssignments(m, anchorRoles) ==
  {a \in [Slots(m) -> Roles] :
     /\ \A s \in Slots(m) : a[s] \in (IF s = m.anchor THEN anchorRoles ELSE m.nodes[s].roles)
     /\ \A e \in MotifEdges(m) : <<a[e.parent], a[e.child]>> \in AllowedEdges
     /\ \A s \in Slots(m) :
          LET n == Cardinality(LocalParents(m, a, s)) IN
            /\ s # m.anchor => n >= RoleSpec[a[s]].min
            /\ n <= RoleSpec[a[s]].max}

(* BlueprintSampler._role_assignments *)
RoleAssignments(m, anchorRole) == CompleteAssignments(m, {anchorRole})

(* Weak connectivity of a set of pairs over the vertices V: no proper part *)
(* of V is cut off.  The code searches breadth-first from one vertex.      *)
Connected(V, pairs) ==
  \A S \in (SUBSET V) \ {{}, V} :
    \E p \in pairs : (p[1] \in S) # (p[2] \in S)

(* Acyclicity: every nonempty part of V has a vertex no edge of that part  *)
(* enters.  The code counts what Kahn's algorithm removes.                 *)
Acyclic(V, pairs) ==
  \A S \in (SUBSET V) \ {{}} :
    \E v \in S : \A u \in S : <<u, v>> \notin pairs

SlotPairs(m) == {<<e.parent, e.child>> : e \in MotifEdges(m)}

(* validate_motif_spec: no error-level issue. *)
ValidMotif(m) ==
  /\ m.nodes \in Seq([roles : SUBSET Roles, offset : Nat])
  /\ m.anchor \in Slots(m)
  /\ m.edges \in Seq([parent : Slots(m), child : Slots(m)])
  /\ \A j, k \in DOMAIN m.edges : m.edges[j] = m.edges[k] => j = k
  /\ \A e \in MotifEdges(m) : m.nodes[e.child].offset >= m.nodes[e.parent].offset + 1
  /\ Connected(Slots(m), SlotPairs(m))
  /\ Acyclic(Slots(m), SlotPairs(m))
  /\ CompleteAssignments(m, m.nodes[m.anchor].roles) # {}

(* resolve_motif_global_ranks: the final rank of slot s when the anchor    *)
(* has rank r.  The attachment is refused when one of them is negative.    *)
GlobalRank(m, r, s) == r + m.nodes[s].offset - m.nodes[m.anchor].offset

(* The library's catalog of V1 motifs.                                     *)
Node(roles, offset) == [roles |-> roles, offset |-> offset]
Edge(parent, child) == [parent |-> parent, child |-> child]

EntityEvent ==
  [type |-> "entity_event", anchor |-> 1,
   nodes |-> <<Node({"entity"}, 0), Node({"event"}, 1)>>,
   edges |-> <<Edge(1, 2)>>]
EntityEventDetail ==
  [type |-> "entity_event_detail", anchor |-> 1,
   nodes |-> <<Node({"entity"}, 0), Node({"event"}, 1), Node({"detail"}, 2)>>,
   edges |-> <<Edge(1, 2), Edge(2, 3)>>]
EntityBridgeCollider ==
  [type |-> "entity_bridge_collider", anchor |-> 1,
   nodes |-> <<Node({"entity"}, 0), Node({"entity"}, 0), Node({"bridge"}, 1)>>,
   edges |-> <<Edge(1, 3), Edge(2, 3)>>]
EntityEventCollider ==
  [type |-> "entity_event_collider", anchor |-> 1,
   nodes |-> <<Node({"entity"}, 0), Node({"entity"}, 0), Node({"event"}, 1)>>,
   edges |-> <<Edge(1, 3), Edge(2, 3)>>]
EntityEventFork ==
  [type |-> "entity_event_fork", anchor |-> 1,
   nodes |-> <<Node({"entity"}, 0), Node({"event"}, 1), Node({"event"}, 1)>>,
   edges |-> <<Edge(1, 2), Edge(1, 3)>>]
EventReferenceChain ==
  [type |-> "event_reference_chain", anchor |-> 1,
   nodes |-> <<Node({"event"}, 0), Node({"event"}, 1)>>,
   edges |-> <<Edge(1, 2)>>]
LookupAssignment ==
  [type |-> "lookup_assignment", anchor |-> 2,
   nodes |-> <<Node({"lookup"}, 0), Node({"entity", "event", "bridge", "detail"}, 1)>>,
   edges |-> <<Edge(1, 2)>>]

DefaultMotifs ==
  {EntityEvent, EntityEventDetail, EntityBridgeCollider, EntityEventCollider,
   EntityEventFork, EventReferenceChain, LookupAssignment}
=============================================================================
