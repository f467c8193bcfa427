--------------------------- MODULE BlueprintSampler ---------------------------
(***************************************************************************)
(* BlueprintSampler.sample as a state machine: motifs and background       *)
(* tables are attached until the sampled table count is reached, then a    *)
(* shuffled list of candidate foreign keys is scanned under a budget, then *)
(* the blueprint is validated.  Every random draw is a nondeterministic    *)
(* choice among the outcomes the draw can have.                            *)
(***************************************************************************)
EXTENDS SchemaGraph

CONSTANTS
  Motifs,           \* the motif library, a set of motifs
  Weighted,         \* the motif types that have a configured weight
  MinTables, MaxTables,
  TableCounts,      \* table_count_values as a set; {} when not configured
  MaxRank,
  MaxExtraEdges,
  MinOccurrences, MaxOccurrences

BaseMotif == EntityEvent

(* BlueprintSamplerConfig.__post_init__ and BlueprintSampler.__init__      *)
ConfigAccepted ==
  /\ MinTables \in Nat /\ MinTables >= 2 /\ MaxTables \in Nat /\ MaxTables >= MinTables
  /\ TableCounts \subseteq MinTables..MaxTables
  /\ MaxRank \in Nat /\ MaxRank >= 1
  /\ MaxExtraEdges \in Nat
  /\ MinOccurrences \in Nat /\ MinOccurrences >= 1
  /\ MaxOccurrences \in Nat /\ MaxOccurrences >= MinOccurrences
  /\ MinOccurrences <= MinTables - 1
  /\ Weighted # {} /\ Weighted \subseteq {m.type : m \in Motifs}
  /\ BaseMotif \in Motifs

(* The motif library validates every motif and refuses duplicate types.    *)
LibraryAccepted ==
  /\ \A m \in Motifs : ValidMotif(m)
  /\ \A m, n \in Motifs : m.type = n.type => m = n

ASSUME SamplerConstructed == ConfigAccepted /\ LibraryAccepted

VARIABLES
  phase,        \* "start", "grow", "extra", "validate", "done" or "failed"
  target,       \* target_tables
  nodes, edges, occs,
  candidates,   \* foreign keys _sample_extra_edges has still to look at
  parents,      \* its structural_parents cache
  added         \* foreign keys it has added

vars == <<phase, target, nodes, edges, occs, candidates, parents, added>>
graph == <<nodes, edges, occs>>
scan == <<candidates, parents, added>>

PossibleCounts == IF TableCounts # {} THEN TableCounts ELSE MinTables..MaxTables

Init ==
  /\ phase = "start"
  /\ target \in PossibleCounts
  /\ nodes = <<[role |-> "entity", rank |-> 0]>>
  /\ edges = <<>> /\ occs = <<>>
  /\ candidates = {} /\ parents = <<>> /\ added = 0

-----------------------------------------------------------------------------
(* Growth.  Operators whose name ends in a fault (...Unchecked, ...Stale and   *)
(* the like) are deliberately wrong variants of the operator that follows; *)
(* nothing in the specification uses them.                                 *)

(* The node slot s of a motif attached at anchor is bound to: new nodes    *)
(* take the next IDs in slot order.                                        *)
Binding(m, anchor) ==
  [s \in Slots(m) |->
     IF s = m.anchor THEN anchor
     ELSE Len(nodes) + (IF s < m.anchor THEN s ELSE s - 1)]

(* The tables and foreign keys a motif adds, in slot and edge order.       *)
FreshNodes(m, anchor, roles) ==
  [k \in 1..(Len(m.nodes) - 1) |->
     LET s == IF k < m.anchor THEN k ELSE k + 1 IN
       [role |-> roles[s], rank |-> GlobalRank(m, nodes[anchor].rank, s)]]
FreshEdges(m, bind) ==
  [k \in 1..Len(m.edges) |->
     [parent |-> bind[m.edges[k].parent], child |-> bind[m.edges[k].child]]]

(* _attach.  The motif's new nodes and edges are appended, its occurrence  *)
(* is recorded, and sampling fails when the attachment does not validate.  *)
Attach(m, anchor, roles) ==
  LET bind == Binding(m, anchor)
      used == [k \in 1..Len(m.edges) |-> Len(edges) + k]
  IN /\ nodes' = nodes \o FreshNodes(m, anchor, roles)
     /\ edges' = edges \o FreshEdges(m, bind)
     /\ occs' = Append(occs, [motif |-> m, bind |-> bind, edges |-> used])
     /\ phase' = IF AttachmentValid(nodes', Pairs(edges'), m, bind, NodeIds(nodes))
                 THEN "grow" ELSE "failed"

(* The base motif, attached to the initial entity.                         *)
AttachBase ==
  /\ phase = "start"
  /\ Attach(BaseMotif, 1, <<"entity", "event">>)
  /\ UNCHANGED <<target, scan>>

FitsAnyRank(m, anchor) ==
  /\ m.type \in Weighted
  /\ Len(m.nodes) - 1 <= target - Len(nodes)
  /\ nodes[anchor].role \in m.nodes[m.anchor].roles

(* _feasible_options: motif, anchor and roles that fit the remaining       *)
(* tables, the anchor's role and the rank limits.                          *)
Fits(m, anchor) ==
  /\ m.type \in Weighted
  /\ Len(m.nodes) - 1 <= target - Len(nodes)
  /\ nodes[anchor].role \in m.nodes[m.anchor].roles
  /\ \A s \in Slots(m) : GlobalRank(m, nodes[anchor].rank, s) \in 0..MaxRank

FeasibleOptions ==
  UNION {{[motif |-> ma[1], anchor |-> ma[2], roles |-> a] :
            a \in RoleAssignments(ma[1], nodes[ma[2]].role)} :
         ma \in {x \in Motifs \X NodeIds(nodes) : Fits(x[1], x[2])}}

(* _background_options: one new child of an existing table.                *)
BackgroundOptions ==
  {o \in [parent : NodeIds(nodes), role : Roles] :
     LET pair == <<nodes[o.parent].role, o.role>>
         count == IF pair \in StructuralEdges THEN 1 ELSE 0
     IN /\ nodes[o.parent].rank + 1 <= MaxRank
        /\ pair \in AllowedEdges
        /\ RoleSpec[o.role].min <= count /\ count <= RoleSpec[o.role].max}

Growing == phase = "grow" /\ Len(nodes) < target

(* The motif branch: not taken once max_motif_occurrences is reached if a  *)
(* background table can be attached instead.                               *)
AttachMotif ==
  /\ Growing
  /\ Len(occs) < MaxOccurrences \/ BackgroundOptions = {}
  /\ \E o \in FeasibleOptions : Attach(o.motif, o.anchor, o.roles)
  /\ UNCHANGED <<target, scan>>

AttachBackgroundStaleId ==
  /\ Growing
  /\ Len(occs) >= MinOccurrences \/ FeasibleOptions = {}
  /\ \E o \in BackgroundOptions :
       /\ nodes' = Append(nodes, [role |-> o.role, rank |-> nodes[o.parent].rank + 1])
       /\ edges' = Append(edges, [parent |-> o.parent, child |-> Len(nodes)])
  /\ UNCHANGED <<phase, target, occs, scan>>

(* The background branch: below min_motif_occurrences only when no motif   *)
(* fits; between the bounds a coin decides.                                *)
AttachBackground ==
  /\ Growing
  /\ Len(occs) >= MinOccurrences \/ FeasibleOptions = {}
  /\ \E o \in BackgroundOptions :
       /\ nodes' = Append(nodes, [role |-> o.role, rank |-> nodes[o.parent].rank + 1])
       /\ edges' = Append(edges, [parent |-> o.parent, child |-> Len(nodes) + 1])
  /\ UNCHANGED <<phase, target, occs, scan>>

-----------------------------------------------------------------------------
(* Extra foreign keys *)

AtLeast(a, b) == IF a > b THEN a ELSE b

(* The budget scales with the number of tables, but is at least one.       *)
Budget == AtLeast(1, (Len(nodes) * MaxExtraEdges) \div AtLeast(1, MaxTables))

(* projected_count against the role's maximum, read from the cache         *)
(* cached[child].                                                          *)
RoomFor(cached, p) ==
  LET projected == IF RolePair(nodes, p) \in StructuralEdges
                   THEN cached[p[2]] \cup {p[1]} ELSE cached[p[2]]
  IN Cardinality(projected) <= RoleSpec[nodes[p[2]].role].max

CandidatePairsNotNew(cache) ==
  {p \in NodeIds(nodes) \X NodeIds(nodes) :
     /\ nodes[p[1]].rank < nodes[p[2]].rank
     /\ RolePair(nodes, p) \in AllowedEdges
     /\ RoomFor(cache, p)}

(* The pairs that go up in rank, are new, allowed and have room.           *)
CandidatePairs(cache) ==
  {p \in (NodeIds(nodes) \X NodeIds(nodes)) \ Pairs(edges) :
     /\ nodes[p[1]].rank < nodes[p[2]].rank
     /\ RolePair(nodes, p) \in AllowedEdges
     /\ RoomFor(cache, p)}

StartExtraEdgesEarly ==
  /\ phase = "grow" /\ MaxExtraEdges # 0
  /\ phase' = "extra"
  /\ parents' = [n \in NodeIds(nodes) |-> StructuralParents(nodes, Pairs(edges), n)]
  /\ added' = 0
  /\ candidates' = CandidatePairs(parents')
  /\ UNCHANGED <<target, graph>>

(* The head of _sample_extra_edges: the cache of structural parents and    *)
(* the candidates are computed from the grown schema.                      *)
StartExtraEdges ==
  LET cache == [n \in NodeIds(nodes) |-> StructuralParents(nodes, Pairs(edges), n)] IN
  /\ phase = "grow" /\ Len(nodes) >= target
  /\ IF MaxExtraEdges = 0
     THEN phase' = "validate" /\ UNCHANGED scan
     ELSE /\ phase' = "extra"
          /\ parents' = cache
          /\ added' = 0
          /\ candidates' = CandidatePairs(cache)
  /\ UNCHANGED <<target, graph>>

Scanning == phase = "extra" /\ added < Budget

(* The draw exceeds extra_edge_probability.                                *)
SkipCandidate ==
  /\ Scanning
  /\ \E p \in candidates : candidates' = candidates \ {p}
  /\ UNCHANGED <<phase, target, graph, parents, added>>

(* The child has filled up since the candidates were collected.            *)
RejectCandidate ==
  /\ Scanning
  /\ \E p \in candidates : ~RoomFor(parents, p) /\ candidates' = candidates \ {p}
  /\ UNCHANGED <<phase, target, graph, parents, added>>

AddExtraEdgeStaleCache ==
  /\ Scanning
  /\ \E p \in candidates :
       /\ RoomFor(parents, p)
       /\ candidates' = candidates \ {p}
       /\ edges' = Append(edges, [parent |-> p[1], child |-> p[2]])
       /\ added' = added + 1
  /\ UNCHANGED <<phase, target, nodes, occs, parents>>

AddExtraEdge ==
  /\ Scanning
  /\ \E p \in candidates :
       /\ RoomFor(parents, p)
       /\ candidates' = candidates \ {p}
       /\ edges' = Append(edges, [parent |-> p[1], child |-> p[2]])
       /\ parents' = IF RolePair(nodes, p) \in StructuralEdges
                     THEN [parents EXCEPT ![p[2]] = @ \cup {p[1]}] ELSE parents
       /\ added' = added + 1
  /\ UNCHANGED <<phase, target, nodes, occs>>

FinishExtraEdgesOnlyAtBudget ==
  /\ phase = "extra" /\ added >= Budget
  /\ phase' = "validate"
  /\ UNCHANGED <<target, graph, scan>>

(* The budget is spent or no candidate is left.                            *)
FinishExtraEdges ==
  /\ phase = "extra" /\ (added >= Budget \/ candidates = {})
  /\ phase' = "validate"
  /\ UNCHANGED <<target, graph, scan>>

-----------------------------------------------------------------------------
(* Validation *)

(* The constraints sample() puts into the blueprint it validates.          *)
EmittedConstraints ==
  {[type |-> "connected"], [type |-> "acyclic"], [type |-> "no_parallel"],
   [type |-> "table_count", min |-> target, max |-> target],
   [type |-> "edge_count", min |-> Len(edges), max |-> Len(edges)],
   [type |-> "role_count", role |-> "entity", min |-> 1, max |-> Len(nodes)],
   [type |-> "role_count", role |-> "event", min |-> 1, max |-> Len(nodes)],
   [type |-> "required_edge", parent |-> "entity", child |-> "event", min |-> 1]}

Accepted == BlueprintValid(nodes, edges, occs, EmittedConstraints, Motifs)

(* validate_blueprint, and the BlueprintValidationError of a failed report. *)
Validate ==
  /\ phase = "validate"
  /\ phase' = IF Accepted THEN "done" ELSE "failed"
  /\ UNCHANGED <<target, graph, scan>>

Next ==
  \/ AttachBase \/ AttachMotif \/ AttachBackground
  \/ StartExtraEdges \/ SkipCandidate \/ RejectCandidate \/ AddExtraEdge
  \/ FinishExtraEdges \/ Validate

(* sample() is one synchronous call: it does not stop between two steps.   *)
Spec == Init /\ [][Next]_vars /\ WF_vars(Next)
-----------------------------------------------------------------------------
(* Properties *)

TableType == [role : Roles, rank : 0..MaxRank]
EdgeType == [parent : NodeIds(nodes), child : NodeIds(nodes)]

(* Every variable keeps its type; in particular every rank is drawn within *)
(* 0..max_rank and every foreign key joins two tables of the schema.       *)
TypeOK ==
  /\ phase \in {"start", "grow", "extra", "validate", "done", "failed"}
  /\ target \in PossibleCounts
  /\ nodes \in Seq(TableType) /\ Len(nodes) >= 1
  /\ edges \in Seq(EdgeType)
  /\ candidates \subseteq NodeIds(nodes) \X NodeIds(nodes)
  /\ phase = "extra" => parents \in [NodeIds(nodes) -> SUBSET NodeIds(nodes)]
  /\ added \in Nat

(* Every foreign key the sampler has drawn goes up in rank between two     *)
(* roles that may be joined, and no pair of tables is joined twice: no     *)
(* interleaving of motif, background and extra edges breaks sample()'s     *)
(* rank, role and no_parallel_fk rules.                                    *)
ForeignKeysLegal == KeysLegal(nodes, edges)

(* The partial schema is connected and acyclic at every step of sample(),  *)
(* not only when it is validated.                                          *)
ConnectedThroughout ==
  Connected(NodeIds(nodes), Pairs(edges)) /\ Acyclic(NodeIds(nodes), Pairs(edges))

(* No attachment and no finished blueprint is ever refused by validation:  *)
(* what sample() constructs is valid without being resampled.              *)
NeverRejected == phase # "failed"

(* Sampling ends: growth reaches the drawn target without ever running out *)
(* of attachments - there the code raises RuntimeError, "No feasible       *)
(* schema attachment can reach requested table count", and the model       *)
(* stops - and the scan of the candidate foreign keys is bounded.          *)
SampleTerminates == <>(phase \in {"done", "failed"})

(* The configuration check "min_motif_occurrences cannot be satisfied at   *)
(* min_tables" admits only a minimum every schema size can satisfy; then   *)
(* every sampled schema has that many motif occurrences.                   *)
MinimumOccurrencesReached == phase = "done" => Len(occs) >= MinOccurrences

(* The sampler implements the growth discipline of SchemaGrowth.           *)
Growth == INSTANCE SchemaGrowth WITH
  Sizes <- PossibleCounts,
  MaxExtra <- MaxExtraEdges,
  stage <- CASE phase \in {"start", "grow", "failed"} -> "growing"
             [] phase = "extra" -> "enriching"
             [] OTHER -> "frozen",
  size <- target,
  tables <- nodes,
  fks <- Pairs(edges),
  extra <- added

ImplementsGrowth == Growth!Growth
=============================================================================
