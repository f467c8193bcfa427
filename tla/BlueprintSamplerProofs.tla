------------------------ MODULE BlueprintSamplerProofs ------------------------
(***************************************************************************)
(* Theorems about BlueprintSampler for every motif library the constructor *)
(* accepts and every configuration it accepts.                             *)
(***************************************************************************)
EXTENDS BlueprintSampler, SequenceFacts, FiniteSetTheorems, WellFoundedInduction

(* An edge is its two ends.                                                *)
LEMMA SameEnds ==
  ASSUME NEW S
  PROVE  \A e, f \in [parent : S, child : S] :
           e.parent = f.parent /\ e.child = f.child => e = f
<1> TAKE e, f \in [parent : S, child : S]
<1>1. e = [parent |-> e.parent, child |-> e.child]
  OBVIOUS
<1>2. f = [parent |-> f.parent, child |-> f.child]
  OBVIOUS
<1> QED BY <1>1, <1>2

(* What the slots of a library motif are, and how its edges climb.         *)
LEMMA MotifShape ==
  ASSUME NEW m \in Motifs
  PROVE  /\ m.nodes \in Seq([roles : SUBSET Roles, offset : Nat])
         /\ Slots(m) = 1..Len(m.nodes) /\ Len(m.nodes) \in Nat
         /\ \A s \in Slots(m) : m.nodes[s].offset \in Nat
         /\ m.anchor \in Slots(m)
         /\ m.edges \in Seq([parent : Slots(m), child : Slots(m)])
         /\ \A k \in 1..Len(m.edges) :
              m.nodes[m.edges[k].child].offset >= m.nodes[m.edges[k].parent].offset + 1
         /\ \A j, k \in 1..Len(m.edges) : m.edges[j] = m.edges[k] => j = k
<1>1. ValidMotif(m)
  BY SamplerConstructed DEF LibraryAccepted
<1>2. /\ m.nodes \in Seq([roles : SUBSET Roles, offset : Nat])
      /\ m.anchor \in Slots(m)
      /\ m.edges \in Seq([parent : Slots(m), child : Slots(m)])
      /\ \A j, k \in DOMAIN m.edges : m.edges[j] = m.edges[k] => j = k
      /\ \A e \in MotifEdges(m) : m.nodes[e.child].offset >= m.nodes[e.parent].offset + 1
  BY <1>1 DEF ValidMotif
<1>3. DOMAIN m.edges = 1..Len(m.edges) /\ DOMAIN m.nodes = 1..Len(m.nodes) /\ Len(m.nodes) \in Nat
  BY <1>2
<1>4. \A k \in 1..Len(m.edges) : m.edges[k] \in MotifEdges(m)
  BY <1>3 DEF MotifEdges
<1>5. \A s \in 1..Len(m.nodes) : m.nodes[s].offset \in Nat
  <2>1. \A s \in 1..Len(m.nodes) : m.nodes[s] \in [roles : SUBSET Roles, offset : Nat]
    BY <1>2, ElementOfSeq
  <2> QED BY <2>1
<1> QED
  BY <1>2, <1>3, <1>4, <1>5 DEF Slots

(* The foreign key e joins two tables of ns, going up in rank, between     *)
(* roles that may be joined.                                               *)
LegalKey(ns, e) ==
  /\ e \in [parent : NodeIds(ns), child : NodeIds(ns)]
  /\ ns[e.parent].rank < ns[e.child].rank
  /\ <<ns[e.parent].role, ns[e.child].role>> \in AllowedEdges

(* A sequence of foreign keys joins existing tables.                       *)
LEMMA KeyEnds ==
  ASSUME NEW ns, NEW es, es \in Seq([parent : NodeIds(ns), child : NodeIds(ns)])
  PROVE  /\ DOMAIN es = 1..Len(es) /\ Len(es) \in Nat
         /\ \A k \in 1..Len(es) : es[k] \in [parent : NodeIds(ns), child : NodeIds(ns)]
<1> DEFINE T == [parent : NodeIds(ns), child : NodeIds(ns)]
<1>1. es \in Seq(T)
  OBVIOUS
<1> HIDE DEF T
<1>2. DOMAIN es = 1..Len(es) /\ Len(es) \in Nat /\ \A k \in 1..Len(es) : es[k] \in T
  BY <1>1, LenProperties, ElementOfSeq
<1> QED BY <1>2 DEF T

(* KeysLegal, key by key.                                                  *)
LEMMA KeyByKey ==
  ASSUME NEW ns, NEW es, es \in Seq([parent : NodeIds(ns), child : NodeIds(ns)])
  PROVE  KeysLegal(ns, es) <=> /\ \A k \in 1..Len(es) : LegalKey(ns, es[k])
                               /\ \A j, k \in 1..Len(es) : es[j] = es[k] => j = k
<1>1. /\ DOMAIN es = 1..Len(es)
      /\ \A k \in 1..Len(es) : es[k] \in [parent : NodeIds(ns), child : NodeIds(ns)]
  BY KeyEnds
<1>2. \A k \in 1..Len(es) : <<es[k].parent, es[k].child>> \in Pairs(es)
  BY <1>1 DEF Pairs
<1>3. \A p \in Pairs(es) : \E k \in 1..Len(es) : p = <<es[k].parent, es[k].child>>
  BY <1>1 DEF Pairs
<1>4. ASSUME KeysLegal(ns, es), NEW k \in 1..Len(es) PROVE LegalKey(ns, es[k])
  <2> DEFINE p == <<es[k].parent, es[k].child>>
  <2>1. ns[p[1]].rank < ns[p[2]].rank /\ RolePair(ns, p) \in AllowedEdges
    BY <1>2, <1>4 DEF KeysLegal
  <2> QED BY <1>1, <2>1 DEF LegalKey, RolePair
<1>5. ASSUME \A k \in 1..Len(es) : LegalKey(ns, es[k]), NEW p \in Pairs(es)
      PROVE  ns[p[1]].rank < ns[p[2]].rank /\ RolePair(ns, p) \in AllowedEdges
  <2>1. PICK k \in 1..Len(es) : p = <<es[k].parent, es[k].child>>
    BY <1>3
  <2> QED BY <1>5, <2>1 DEF LegalKey, RolePair
<1> QED
  BY <1>1, <1>4, <1>5 DEF KeysLegal

(* What a motif attachment adds: tables of the configured type, one for    *)
(* every slot but the anchor, and a binding that is one-to-one and finds   *)
(* for every slot a table of its role and rank.                            *)
LEMMA AttachedTables ==
  ASSUME NEW m \in Motifs, NEW anchor \in NodeIds(nodes), NEW roles \in [Slots(m) -> Roles],
         nodes \in Seq(TableType),
         roles[m.anchor] = nodes[anchor].role,
         \A s \in Slots(m) : GlobalRank(m, nodes[anchor].rank, s) \in 0..MaxRank,
         nodes' = nodes \o FreshNodes(m, anchor, roles)
  PROVE  /\ nodes' \in Seq(TableType) /\ Len(nodes') = Len(nodes) + Len(m.nodes) - 1
         /\ \A n \in 1..Len(nodes) : nodes'[n] = nodes[n]
         /\ \A s \in Slots(m) :
              LET b == Binding(m, anchor)[s] IN
                /\ b \in 1..Len(nodes') /\ (s # m.anchor => b > Len(nodes))
                /\ nodes'[b].role = roles[s]
                /\ nodes'[b].rank = GlobalRank(m, nodes[anchor].rank, s)
         /\ \A s, t \in Slots(m) : Binding(m, anchor)[s] = Binding(m, anchor)[t] => s = t
<1> DEFINE F == FreshNodes(m, anchor, roles)
           slot(k) == IF k < m.anchor THEN k ELSE k + 1
<1>1. /\ Slots(m) = 1..Len(m.nodes) /\ Len(m.nodes) \in Nat /\ m.anchor \in Slots(m)
      /\ \A s \in Slots(m) : m.nodes[s].offset \in Nat
  BY MotifShape
<1>2. Len(nodes) \in Nat /\ anchor \in 1..Len(nodes) /\ nodes[anchor] \in TableType
  BY DEF NodeIds
<1>3. Len(m.nodes) - 1 \in Nat
  BY <1>1
<1>4. \A k \in 1..(Len(m.nodes) - 1) : slot(k) \in Slots(m)
  BY <1>1
<1>5. \A k \in 1..(Len(m.nodes) - 1) :
        [role |-> roles[slot(k)], rank |-> GlobalRank(m, nodes[anchor].rank, slot(k))] \in TableType
  BY <1>4 DEF TableType
<1>6. F = [k \in 1..(Len(m.nodes) - 1) |->
             [role |-> roles[slot(k)], rank |-> GlobalRank(m, nodes[anchor].rank, slot(k))]]
  BY DEF FreshNodes
<1>7. F \in [1..(Len(m.nodes) - 1) -> TableType]
  BY <1>5, <1>6
<1>8. F \in Seq(TableType) /\ Len(F) = Len(m.nodes) - 1
  <2> DEFINE n == Len(m.nodes) - 1
  <2>1. n \in Nat /\ F \in [1..n -> TableType]
    BY <1>3, <1>7
  <2> HIDE DEF F, n
  <2>2. F \in Seq(TableType) /\ Len(F) = n
    BY <2>1, FunctionIsSeq
  <2> QED BY <2>2 DEF n
<1>9. /\ nodes' \in Seq(TableType) /\ Len(nodes') = Len(nodes) + Len(F)
      /\ \A n \in 1..Len(nodes) : nodes'[n] = nodes[n]
      /\ \A k \in 1..Len(F) : nodes'[Len(nodes) + k] = F[k]
  <2> HIDE DEF F
  <2>1. nodes' = nodes \o F
    BY DEF F
  <2>2. nodes \in Seq(TableType)
    OBVIOUS
  <2>3. F \in Seq(TableType)
    BY <1>8
  <2>4. /\ nodes \o F \in Seq(TableType) /\ Len(nodes \o F) = Len(nodes) + Len(F)
        /\ \A n \in 1..Len(nodes) : (nodes \o F)[n] = nodes[n]
        /\ \A k \in 1..Len(F) : (nodes \o F)[Len(nodes) + k] = F[k]
    BY <2>2, <2>3, ConcatFacts
  <2> QED BY <2>1, <2>4
<1>10. ASSUME NEW s \in Slots(m)
       PROVE  LET b == Binding(m, anchor)[s] IN
                /\ b \in 1..Len(nodes') /\ (s # m.anchor => b > Len(nodes))
                /\ nodes'[b].role = roles[s]
                /\ nodes'[b].rank = GlobalRank(m, nodes[anchor].rank, s)
  <2>1. CASE s = m.anchor
    <3>1. Binding(m, anchor)[s] = anchor
      BY <2>1 DEF Binding
    <3>2. GlobalRank(m, nodes[anchor].rank, s) = nodes[anchor].rank
      <4>1. nodes[anchor].rank \in Int
        BY <1>2, SamplerConstructed DEF TableType, ConfigAccepted
      <4>2. m.nodes[m.anchor].offset \in Int
        BY <1>1
      <4> QED BY <2>1, <4>1, <4>2 DEF GlobalRank
    <3> QED BY <1>2, <1>3, <1>8, <1>9, <2>1, <3>1, <3>2
  <2>2. CASE s # m.anchor
    <3> DEFINE k == IF s < m.anchor THEN s ELSE s - 1
    <3>1. Binding(m, anchor)[s] = Len(nodes) + k
      BY <2>2 DEF Binding
    <3>2. k \in 1..(Len(m.nodes) - 1) /\ slot(k) = s
      BY <1>1, <2>2
    <3>3. nodes'[Len(nodes) + k] = F[k]
      BY <1>8, <1>9, <3>2
    <3>4. F[k].role = roles[s] /\ F[k].rank = GlobalRank(m, nodes[anchor].rank, s)
      BY <1>6, <3>2
    <3> HIDE DEF k, F
    <3> QED BY <1>2, <1>3, <1>8, <1>9, <3>1, <3>2, <3>3, <3>4
  <2> QED BY <2>1, <2>2
<1>11. ASSUME NEW s \in Slots(m), NEW t \in Slots(m),
              Binding(m, anchor)[s] = Binding(m, anchor)[t]
       PROVE  s = t
  BY <1>1, <1>2, <1>11 DEF Binding
<1> QED
  BY <1>8, <1>9, <1>10, <1>11

(* A foreign key stays legal when tables are appended.                     *)
LEMMA LegalKeysPersist ==
  ASSUME nodes \in Seq(TableType), nodes' \in Seq(TableType),
         Len(nodes) <= Len(nodes'),
         \A n \in 1..Len(nodes) : nodes'[n] = nodes[n],
         NEW e, LegalKey(nodes, e)
  PROVE  LegalKey(nodes', e)
<1>1. DOMAIN nodes = 1..Len(nodes) /\ DOMAIN nodes' = 1..Len(nodes')
      /\ Len(nodes) \in Nat /\ Len(nodes') \in Nat
  BY LenProperties
<1>2. e \in [parent : 1..Len(nodes), child : 1..Len(nodes)]
  BY <1>1 DEF LegalKey, NodeIds
<1>3. nodes'[e.parent] = nodes[e.parent] /\ nodes'[e.child] = nodes[e.child]
  BY <1>2
<1>4. e \in [parent : 1..Len(nodes'), child : 1..Len(nodes')]
  BY <1>1, <1>2
<1> QED
  BY <1>1, <1>3, <1>4 DEF LegalKey, NodeIds

(* A legal key is an edge of the edges' type.                              *)
LEMMA LegalKeyTyped ==
  ASSUME NEW e, LegalKey(nodes, e)
  PROVE  e \in EdgeType
BY DEF LegalKey, EdgeType

(* Attaching a motif with allowed roles and ranks in range keeps every     *)
(* foreign key legal and unique.                                           *)
LEMMA AttachKeepsKeysLegal ==
  ASSUME NEW m \in Motifs, NEW anchor \in NodeIds(nodes), NEW roles \in [Slots(m) -> Roles],
         nodes \in Seq(TableType), edges \in Seq(EdgeType), ForeignKeysLegal,
         roles[m.anchor] = nodes[anchor].role,
         \A e \in MotifEdges(m) : <<roles[e.parent], roles[e.child]>> \in AllowedEdges,
         \A s \in Slots(m) : GlobalRank(m, nodes[anchor].rank, s) \in 0..MaxRank,
         Attach(m, anchor, roles)
  PROVE  /\ nodes' \in Seq(TableType) /\ edges' \in Seq(EdgeType')
         /\ Len(nodes') >= Len(nodes)
         /\ ForeignKeysLegal'
<1> DEFINE B == Binding(m, anchor)
           G == FreshEdges(m, B)
<1>1. nodes' = nodes \o FreshNodes(m, anchor, roles) /\ edges' = edges \o G
  BY DEF Attach
<1>2. /\ nodes' \in Seq(TableType) /\ Len(nodes') = Len(nodes) + Len(m.nodes) - 1
      /\ \A n \in 1..Len(nodes) : nodes'[n] = nodes[n]
      /\ \A s \in Slots(m) :
           /\ B[s] \in 1..Len(nodes') /\ (s # m.anchor => B[s] > Len(nodes))
           /\ nodes'[B[s]].role = roles[s]
           /\ nodes'[B[s]].rank = GlobalRank(m, nodes[anchor].rank, s)
      /\ \A s, t \in Slots(m) : B[s] = B[t] => s = t
  BY <1>1, AttachedTables
<1>3. /\ Slots(m) = 1..Len(m.nodes) /\ Len(m.nodes) \in Nat /\ m.anchor \in Slots(m)
      /\ \A s \in Slots(m) : m.nodes[s].offset \in Nat
      /\ m.edges \in Seq([parent : Slots(m), child : Slots(m)])
      /\ \A k \in 1..Len(m.edges) :
           m.nodes[m.edges[k].child].offset >= m.nodes[m.edges[k].parent].offset + 1
      /\ \A j, k \in 1..Len(m.edges) : m.edges[j] = m.edges[k] => j = k
  BY MotifShape
<1>4. Len(nodes') >= Len(nodes) /\ Len(nodes) \in Nat
      /\ DOMAIN nodes' = 1..Len(nodes') /\ DOMAIN nodes = 1..Len(nodes)
  BY <1>2, <1>3, LenProperties
<1>5. /\ Len(m.edges) \in Nat /\ DOMAIN m.edges = 1..Len(m.edges)
      /\ \A k \in 1..Len(m.edges) : m.edges[k] \in [parent : Slots(m), child : Slots(m)]
  BY <1>3, LenProperties, ElementOfSeq
<1>6. \A k \in 1..Len(m.edges) : m.edges[k] \in MotifEdges(m)
  BY <1>5 DEF MotifEdges
<1>7. nodes[anchor].rank \in Int
  <2>1. nodes[anchor] \in TableType
    BY <1>4, ElementOfSeq DEF NodeIds
  <2> QED BY <2>1, SamplerConstructed DEF TableType, ConfigAccepted
<1>22. ASSUME NEW p \in Slots(m), NEW c \in Slots(m),
              m.nodes[c].offset >= m.nodes[p].offset + 1
       PROVE  /\ p # c
              /\ GlobalRank(m, nodes[anchor].rank, p) < GlobalRank(m, nodes[anchor].rank, c)
  <2>1. m.anchor \in Slots(m) /\ \A s \in Slots(m) : m.nodes[s].offset \in Nat
    BY <1>3
  <2> DEFINE r == nodes[anchor].rank
             off(s) == m.nodes[s].offset
  <2>2. off(p) \in Nat /\ off(c) \in Nat /\ off(m.anchor) \in Nat
    BY <2>1
  <2>3. off(c) >= off(p) + 1 /\ r \in Int
    BY <1>7, <1>22
  <2>4. p # c
    BY <2>2, <2>3
  <2>5. r + off(p) - off(m.anchor) < r + off(c) - off(m.anchor)
    <3> HIDE DEF r, off
    <3> QED BY <2>2, <2>3
  <2> QED BY <2>4, <2>5 DEF GlobalRank
<1>8. G = [k \in 1..Len(m.edges) |->
             [parent |-> B[m.edges[k].parent], child |-> B[m.edges[k].child]]]
  BY DEF FreshEdges
<1>9. ASSUME NEW k \in 1..Len(m.edges)
      PROVE  /\ LegalKey(nodes', G[k])
             /\ G[k].parent > Len(nodes) \/ G[k].child > Len(nodes)
  <2> DEFINE p == m.edges[k].parent
             c == m.edges[k].child
  <2>1. p \in Slots(m) /\ c \in Slots(m) /\ m.edges[k] \in MotifEdges(m)
    BY <1>5, <1>6
  <2>2. G[k] = [parent |-> B[p], child |-> B[c]]
    BY <1>8
  <2>3. m.nodes[c].offset >= m.nodes[p].offset + 1
    BY <1>3
  <2>4. p # c /\ GlobalRank(m, nodes[anchor].rank, p) < GlobalRank(m, nodes[anchor].rank, c)
    BY <1>22, <2>1, <2>3
  <2>6. <<roles[p], roles[c]>> \in AllowedEdges
    BY <2>1
  <2> HIDE DEF p, c, B, G
  <2>7. B[p] > Len(nodes) \/ B[c] > Len(nodes)
    BY <1>2, <2>1, <2>4
  <2>8. LegalKey(nodes', [parent |-> B[p], child |-> B[c]])
    BY <1>2, <1>4, <2>1, <2>4, <2>6 DEF LegalKey, NodeIds
  <2> QED BY <2>2, <2>7, <2>8
<1>10. ASSUME NEW j \in 1..Len(m.edges), NEW k \in 1..Len(m.edges), G[j] = G[k]
       PROVE  j = k
  <2>1. B[m.edges[j].parent] = B[m.edges[k].parent] /\ B[m.edges[j].child] = B[m.edges[k].child]
    BY <1>8, <1>10
  <2>2. m.edges[j].parent = m.edges[k].parent /\ m.edges[j].child = m.edges[k].child
    <3>1. /\ m.edges[j].parent \in Slots(m) /\ m.edges[k].parent \in Slots(m)
          /\ m.edges[j].child \in Slots(m) /\ m.edges[k].child \in Slots(m)
      BY <1>5
    <3> HIDE DEF B
    <3> QED BY <1>2, <2>1, <3>1
  <2>3. m.edges[j] = m.edges[k]
    <3>1. \A e, f \in [parent : Slots(m), child : Slots(m)] :
            e.parent = f.parent /\ e.child = f.child => e = f
      BY SameEnds
    <3> QED BY <1>5, <2>2, <3>1
  <2> QED BY <1>3, <2>3
<1> HIDE DEF G, B
<1>11. /\ \A k \in 1..Len(edges) : LegalKey(nodes, edges[k])
       /\ \A j, k \in 1..Len(edges) : edges[j] = edges[k] => j = k
  BY KeyByKey DEF ForeignKeysLegal, EdgeType
<1>12. \A k \in 1..Len(edges) : LegalKey(nodes', edges[k])
  BY <1>2, <1>4, <1>11, LegalKeysPersist
<1>13. edges \in Seq(EdgeType')
  <2>1. \A e : LegalKey(nodes', e) => e \in EdgeType'
    BY DEF LegalKey, EdgeType
  <2>2. Len(edges) \in Nat /\ edges \in [1..Len(edges) -> EdgeType]
    BY LenProperties
  <2>3. edges \in [1..Len(edges) -> EdgeType']
    BY <1>12, <2>1, <2>2
  <2> QED BY <2>2, <2>3, FunctionIsSeq
<1>14. G \in Seq(EdgeType') /\ Len(G) = Len(m.edges)
  <2>1. G \in [1..Len(m.edges) -> EdgeType']
    BY <1>8, <1>9 DEF LegalKey, EdgeType
  <2> DEFINE n == Len(m.edges)
  <2>2. n \in Nat /\ G \in [1..n -> EdgeType']
    BY <1>5, <2>1
  <2> HIDE DEF n
  <2>3. G \in Seq(EdgeType') /\ Len(G) = n
    BY <2>2, FunctionIsSeq
  <2> QED BY <2>3 DEF n
<1>15. /\ edges \o G \in Seq(EdgeType') /\ Len(edges \o G) = Len(edges) + Len(G)
       /\ \A k \in 1..Len(edges) : (edges \o G)[k] = edges[k]
       /\ \A k \in 1..Len(G) : (edges \o G)[Len(edges) + k] = G[k]
  <2> DEFINE T == EdgeType'
  <2>1. edges \in Seq(T) /\ G \in Seq(T)
    BY <1>13, <1>14
  <2> HIDE DEF T
  <2>2. /\ edges \o G \in Seq(T) /\ Len(edges \o G) = Len(edges) + Len(G)
        /\ \A k \in 1..Len(edges) : (edges \o G)[k] = edges[k]
        /\ \A k \in 1..Len(G) : (edges \o G)[Len(edges) + k] = G[k]
    BY <2>1, ConcatFacts
  <2> QED BY <2>2 DEF T
<1>16. ASSUME NEW j \in 1..Len(edges')
       PROVE  \/ j \in 1..Len(edges) /\ edges'[j] = edges[j]
              \/ \E k \in 1..Len(G) : j = Len(edges) + k /\ edges'[j] = G[k]
  <2>1. Len(edges) \in Nat /\ Len(G) \in Nat /\ Len(edges') = Len(edges) + Len(G)
    BY <1>1, <1>5, <1>14, <1>15, LenProperties
  <2>2. CASE j <= Len(edges)
    BY <1>1, <1>15, <2>1, <2>2
  <2>3. CASE j > Len(edges)
    <3>1. j - Len(edges) \in 1..Len(G) /\ j = Len(edges) + (j - Len(edges))
      BY <2>1, <2>3
    <3> QED BY <1>1, <1>15, <3>1
  <2> QED BY <2>1, <2>2, <2>3
<1>17. \A j \in 1..Len(edges') : LegalKey(nodes', edges'[j])
  BY <1>9, <1>12, <1>14, <1>16
<1>18. ASSUME NEW j \in 1..Len(edges), NEW k \in 1..Len(G)
       PROVE  edges[j] # G[k]
  <2>1. edges[j].parent \in 1..Len(nodes) /\ edges[j].child \in 1..Len(nodes)
    BY <1>4, <1>11 DEF LegalKey, NodeIds
  <2>2. G[k].parent > Len(nodes) \/ G[k].child > Len(nodes)
    BY <1>9, <1>14
  <2> QED BY <1>4, <2>1, <2>2
<1>19. ASSUME NEW j \in 1..Len(edges'), NEW k \in 1..Len(edges'), edges'[j] = edges'[k]
       PROVE  j = k
  <2>1. CASE j \in 1..Len(edges) /\ edges'[j] = edges[j]
    <3>1. CASE k \in 1..Len(edges) /\ edges'[k] = edges[k]
      BY <1>11, <1>19, <2>1, <3>1
    <3>2. CASE \E l \in 1..Len(G) : k = Len(edges) + l /\ edges'[k] = G[l]
      BY <1>18, <1>19, <2>1, <3>2
    <3> QED BY <1>16, <3>1, <3>2
  <2>2. CASE \E l \in 1..Len(G) : j = Len(edges) + l /\ edges'[j] = G[l]
    <3>1. CASE k \in 1..Len(edges) /\ edges'[k] = edges[k]
      BY <1>18, <1>19, <2>2, <3>1
    <3>2. CASE \E l \in 1..Len(G) : k = Len(edges) + l /\ edges'[k] = G[l]
      BY <1>10, <1>14, <1>19, <2>2, <3>2
    <3> QED BY <1>16, <3>1, <3>2
  <2> QED BY <1>16, <2>1, <2>2
<1>20. edges' \in Seq(EdgeType')
  BY <1>1, <1>15
<1>21. ForeignKeysLegal'
  <2>1. edges' \in Seq([parent : NodeIds(nodes'), child : NodeIds(nodes')])
    BY <1>20 DEF EdgeType
  <2>2. KeysLegal(nodes', edges')
    BY <1>17, <1>19, <2>1, KeyByKey
  <2> QED BY <2>2 DEF ForeignKeysLegal
<1> QED
  BY <1>2, <1>4, <1>20, <1>21

(* One more legal foreign key between tables not yet joined.               *)
LEMMA AppendKeepsKeysLegal ==
  ASSUME NEW ns, NEW es, es \in Seq([parent : NodeIds(ns), child : NodeIds(ns)]),
         KeysLegal(ns, es), NEW e, LegalKey(ns, e),
         <<e.parent, e.child>> \notin Pairs(es)
  PROVE  /\ Append(es, e) \in Seq([parent : NodeIds(ns), child : NodeIds(ns)])
         /\ KeysLegal(ns, Append(es, e))
         /\ Pairs(Append(es, e)) = Pairs(es) \cup {<<e.parent, e.child>>}
<1> DEFINE T == [parent : NodeIds(ns), child : NodeIds(ns)]
           f == Append(es, e)
<1>1. es \in Seq(T) /\ e \in T
  BY DEF LegalKey
<1>2. /\ f \in Seq(T) /\ Len(f) = Len(es) + 1 /\ Len(es) \in Nat
      /\ DOMAIN es = 1..Len(es) /\ DOMAIN f = 1..Len(f)
      /\ \A i \in 1..Len(es) : f[i] = es[i]
      /\ f[Len(es) + 1] = e
  <2> HIDE DEF T
  <2> QED BY <1>1, AppendProperties, LenProperties
<1>3. /\ \A k \in 1..Len(es) : LegalKey(ns, es[k])
      /\ \A j, k \in 1..Len(es) : es[j] = es[k] => j = k
  BY KeyByKey
<1> HIDE DEF f
<1>4. \A j \in 1..Len(f) : \/ j \in 1..Len(es) /\ f[j] = es[j]
                           \/ j = Len(es) + 1 /\ f[j] = e
  BY <1>2
<1>5. \A j \in 1..Len(f) : LegalKey(ns, f[j])
  BY <1>3, <1>4
<1>6. \A j \in 1..Len(es) : es[j] # e
  BY <1>2 DEF Pairs
<1>7. \A j, k \in 1..Len(f) : f[j] = f[k] => j = k
  BY <1>3, <1>4, <1>6
<1>8. KeysLegal(ns, f)
  BY <1>2, <1>5, <1>7, KeyByKey
<1>9. ASSUME NEW p PROVE p \in Pairs(f) <=> p \in Pairs(es) \cup {<<e.parent, e.child>>}
  <2>1. ASSUME p \in Pairs(f) PROVE p \in Pairs(es) \cup {<<e.parent, e.child>>}
    <3>1. PICK j \in 1..Len(f) : p = <<f[j].parent, f[j].child>>
      BY <1>2, <2>1 DEF Pairs
    <3> QED BY <1>2, <1>4, <3>1 DEF Pairs
  <2>2. ASSUME p \in Pairs(es) PROVE p \in Pairs(f)
    <3>1. PICK j \in 1..Len(es) : p = <<es[j].parent, es[j].child>>
      BY <1>2, <2>2 DEF Pairs
    <3>2. j \in 1..Len(f) /\ f[j] = es[j]
      BY <1>2
    <3> QED BY <1>2, <3>1, <3>2 DEF Pairs
  <2>3. <<e.parent, e.child>> \in Pairs(f)
    <3>1. Len(es) + 1 \in 1..Len(f) /\ f[Len(es) + 1] = e
      BY <1>2
    <3> QED BY <1>2, <3>1 DEF Pairs
  <2> QED BY <2>1, <2>2, <2>3
<1> QED
  BY <1>2, <1>8, <1>9 DEF f

(* Appending a table leaves the foreign keys legal.                        *)
LEMMA NewTableKeepsKeysLegal ==
  ASSUME NEW ns \in Seq(TableType), NEW t \in TableType, NEW es,
         es \in Seq([parent : NodeIds(ns), child : NodeIds(ns)]), KeysLegal(ns, es)
  PROVE  LET ms == Append(ns, t) IN
           /\ ms \in Seq(TableType) /\ Len(ms) = Len(ns) + 1
           /\ NodeIds(ms) = 1..(Len(ns) + 1) /\ NodeIds(ns) = 1..Len(ns)
           /\ ms[Len(ns) + 1] = t /\ \A n \in 1..Len(ns) : ms[n] = ns[n]
           /\ es \in Seq([parent : NodeIds(ms), child : NodeIds(ms)])
           /\ KeysLegal(ms, es)
<1> DEFINE ms == Append(ns, t)
<1>1. /\ ms \in Seq(TableType) /\ Len(ms) = Len(ns) + 1 /\ Len(ns) \in Nat
      /\ ms[Len(ns) + 1] = t /\ \A n \in 1..Len(ns) : ms[n] = ns[n]
  BY AppendProperties, LenProperties
<1>2. NodeIds(ms) = 1..(Len(ns) + 1) /\ NodeIds(ns) = 1..Len(ns)
  BY <1>1, LenProperties DEF NodeIds
<1> HIDE DEF ms
<1>3. /\ \A k \in 1..Len(es) : LegalKey(ns, es[k])
      /\ \A j, k \in 1..Len(es) : es[j] = es[k] => j = k
  BY KeyByKey
<1>4. \A e : LegalKey(ns, e) => LegalKey(ms, e)
  <2> SUFFICES ASSUME NEW e, LegalKey(ns, e) PROVE LegalKey(ms, e)
    OBVIOUS
  <2>1. e \in [parent : 1..Len(ns), child : 1..Len(ns)]
    BY <1>2 DEF LegalKey
  <2>2. ms[e.parent] = ns[e.parent] /\ ms[e.child] = ns[e.child]
    BY <1>1, <2>1
  <2>3. e \in [parent : 1..(Len(ns) + 1), child : 1..(Len(ns) + 1)]
    BY <1>1, <2>1
  <2> QED BY <1>2, <2>2, <2>3 DEF LegalKey
<1>5. es \in Seq([parent : NodeIds(ms), child : NodeIds(ms)])
  <2> DEFINE T == [parent : NodeIds(ns), child : NodeIds(ns)]
             U == [parent : NodeIds(ms), child : NodeIds(ms)]
  <2>1. T \subseteq U /\ es \in Seq(T)
    BY <1>1, <1>2
  <2> HIDE DEF T, U
  <2>2. es \in Seq(U)
    BY <2>1, SeqMonotonic
  <2> QED BY <2>2 DEF U
<1>6. KeysLegal(ms, es)
  BY <1>3, <1>4, <1>5, KeyByKey
<1> QED
  BY <1>1, <1>2, <1>5, <1>6 DEF ms

-----------------------------------------------------------------------------
(* Type correctness and legal foreign keys                                 *)

(* The inductive invariant.  TypeOK and ForeignKeysLegal need to know what *)
(* the base motif is attached to, and that the candidates of the extra     *)
(* foreign keys are legal and still new whenever one is drawn.             *)
SafeInv ==
  /\ TypeOK
  /\ ForeignKeysLegal
  /\ phase = "start" => nodes = <<[role |-> "entity", rank |-> 0]>> /\ edges = <<>>
  /\ phase = "extra" =>
       \A p \in candidates : /\ nodes[p[1]].rank < nodes[p[2]].rank
                             /\ RolePair(nodes, p) \in AllowedEdges
                             /\ p \notin Pairs(edges)

LEMMA InitSafe == Init => SafeInv
<1> SUFFICES ASSUME Init PROVE SafeInv
  OBVIOUS
<1>1. MaxRank \in Nat /\ 0 \in 0..MaxRank
  BY SamplerConstructed DEF ConfigAccepted
<1>2. nodes = <<[role |-> "entity", rank |-> 0]>> /\ edges = <<>> /\ candidates = {}
      /\ phase = "start" /\ target \in PossibleCounts /\ added = 0
  BY DEF Init
<1>3. [role |-> "entity", rank |-> 0] \in TableType
  BY <1>1 DEF TableType, Roles
<1>4. nodes \in Seq(TableType) /\ Len(nodes) >= 1
  BY <1>2, <1>3
<1>5. edges \in Seq(EdgeType)
  BY <1>2
<1>6. ForeignKeysLegal
  BY <1>2 DEF ForeignKeysLegal, KeysLegal, Pairs
<1> QED
  BY <1>2, <1>4, <1>5, <1>6 DEF SafeInv, TypeOK

(* The types and legality of a grown schema are all the invariant asks     *)
(* once nothing is left to be said about the candidates.                   *)
LEMMA GrownSafe ==
  ASSUME SafeInv, phase \in {"start", "grow"}, phase' \in {"grow", "failed"},
         UNCHANGED <<target, candidates, parents, added>>,
         nodes' \in Seq(TableType), Len(nodes') >= Len(nodes),
         edges' \in Seq(EdgeType'), ForeignKeysLegal'
  PROVE  SafeInv'
<1>1. /\ Len(nodes) >= 1 /\ nodes \in Seq(TableType) /\ added \in Nat
      /\ target \in PossibleCounts
      /\ candidates \subseteq NodeIds(nodes) \X NodeIds(nodes)
  BY DEF SafeInv, TypeOK
<1>2. /\ Len(nodes) \in Nat /\ Len(nodes') \in Nat
      /\ NodeIds(nodes) = 1..Len(nodes) /\ NodeIds(nodes') = 1..Len(nodes')
  BY <1>1, LenProperties DEF NodeIds
<1>3. NodeIds(nodes) \subseteq NodeIds(nodes') /\ Len(nodes') >= 1
  BY <1>1, <1>2
<1>4. candidates' \subseteq NodeIds(nodes') \X NodeIds(nodes')
  BY <1>1, <1>3
<1>5. PossibleCounts' = PossibleCounts
  BY DEF PossibleCounts
<1>6. TypeOK'
  BY <1>1, <1>3, <1>4, <1>5 DEF TypeOK
<1> QED
  BY <1>6 DEF SafeInv

LEMMA BaseSafe == SafeInv /\ AttachBase => SafeInv'
<1> SUFFICES ASSUME SafeInv, AttachBase PROVE SafeInv'
  OBVIOUS
<1> DEFINE roles == <<"entity", "event">>
<1>1. /\ nodes \in Seq(TableType) /\ edges \in Seq(EdgeType) /\ ForeignKeysLegal
      /\ nodes = <<[role |-> "entity", rank |-> 0]>>
  BY DEF AttachBase, SafeInv, TypeOK
<1>2. /\ Attach(BaseMotif, 1, roles) /\ BaseMotif \in Motifs
      /\ MaxRank \in Nat /\ MaxRank >= 1
  BY SamplerConstructed DEF AttachBase, ConfigAccepted
<1>3. /\ Slots(BaseMotif) = 1..2 /\ BaseMotif.anchor = 1
      /\ MotifEdges(BaseMotif) = {[parent |-> 1, child |-> 2]}
      /\ BaseMotif.nodes[1].offset = 0 /\ BaseMotif.nodes[2].offset = 1
  BY DEF Slots, BaseMotif, EntityEvent, MotifEdges, Node, Edge
<1>4. 1 \in NodeIds(nodes) /\ nodes[1].role = "entity" /\ nodes[1].rank = 0
  BY <1>1 DEF NodeIds
<1>5. roles \in [Slots(BaseMotif) -> Roles] /\ roles[BaseMotif.anchor] = nodes[1].role
  BY <1>3, <1>4 DEF Roles
<1>6. \A e \in MotifEdges(BaseMotif) : <<roles[e.parent], roles[e.child]>> \in AllowedEdges
  BY <1>3 DEF AllowedEdges, StructuralEdges
<1>7. \A s \in Slots(BaseMotif) : GlobalRank(BaseMotif, nodes[1].rank, s) \in 0..MaxRank
  BY <1>2, <1>3, <1>4 DEF GlobalRank
<1> HIDE DEF roles
<1>8. /\ nodes' \in Seq(TableType) /\ edges' \in Seq(EdgeType')
      /\ Len(nodes') >= Len(nodes) /\ ForeignKeysLegal'
  BY <1>1, <1>2, <1>4, <1>5, <1>6, <1>7, AttachKeepsKeysLegal
<1>9. /\ phase = "start" /\ phase' \in {"grow", "failed"}
      /\ UNCHANGED <<target, candidates, parents, added>>
  BY <1>2 DEF AttachBase, Attach, scan
<1> QED
  BY <1>8, <1>9, GrownSafe

LEMMA MotifSafe == SafeInv /\ AttachMotif => SafeInv'
<1> SUFFICES ASSUME SafeInv, AttachMotif PROVE SafeInv'
  OBVIOUS
<1>1. nodes \in Seq(TableType) /\ edges \in Seq(EdgeType) /\ ForeignKeysLegal
  BY DEF SafeInv, TypeOK
<1>2. PICK o \in FeasibleOptions : Attach(o.motif, o.anchor, o.roles)
  BY DEF AttachMotif
<1>3. PICK m \in Motifs, anchor \in NodeIds(nodes) :
        /\ Fits(m, anchor)
        /\ \E a \in RoleAssignments(m, nodes[anchor].role) :
             o = [motif |-> m, anchor |-> anchor, roles |-> a]
  BY DEF FeasibleOptions
<1>9. PICK a \in RoleAssignments(m, nodes[anchor].role) :
        o = [motif |-> m, anchor |-> anchor, roles |-> a]
  BY <1>3
<1>4. Attach(m, anchor, a)
  BY <1>2, <1>9
<1>5. /\ a \in [Slots(m) -> Roles] /\ m.anchor \in Slots(m)
      /\ a[m.anchor] = nodes[anchor].role
      /\ \A e \in MotifEdges(m) : <<a[e.parent], a[e.child]>> \in AllowedEdges
  BY MotifShape DEF RoleAssignments, CompleteAssignments
<1>6. \A s \in Slots(m) : GlobalRank(m, nodes[anchor].rank, s) \in 0..MaxRank
  BY <1>3 DEF Fits
<1>7. /\ nodes' \in Seq(TableType) /\ edges' \in Seq(EdgeType')
      /\ Len(nodes') >= Len(nodes) /\ ForeignKeysLegal'
  BY <1>1, <1>4, <1>5, <1>6, AttachKeepsKeysLegal
<1>8. /\ phase = "grow" /\ phase' \in {"grow", "failed"}
      /\ UNCHANGED <<target, candidates, parents, added>>
  BY <1>4 DEF AttachMotif, Growing, Attach, scan
<1> QED
  BY <1>7, <1>8, GrownSafe

LEMMA BackgroundSafe == SafeInv /\ AttachBackground => SafeInv'
<1> SUFFICES ASSUME SafeInv, AttachBackground PROVE SafeInv'
  OBVIOUS
<1>1. /\ nodes \in Seq(TableType) /\ edges \in Seq(EdgeType) /\ ForeignKeysLegal
      /\ edges \in Seq([parent : NodeIds(nodes), child : NodeIds(nodes)])
      /\ KeysLegal(nodes, edges)
  BY DEF SafeInv, TypeOK, EdgeType, ForeignKeysLegal
<1>2. PICK o \in BackgroundOptions :
        /\ nodes' = Append(nodes, [role |-> o.role, rank |-> nodes[o.parent].rank + 1])
        /\ edges' = Append(edges, [parent |-> o.parent, child |-> Len(nodes) + 1])
  BY DEF AttachBackground
<1>3. /\ o.parent \in NodeIds(nodes) /\ o.role \in Roles
      /\ nodes[o.parent].rank + 1 <= MaxRank
      /\ <<nodes[o.parent].role, o.role>> \in AllowedEdges
  BY DEF BackgroundOptions
<1> DEFINE t == [role |-> o.role, rank |-> nodes[o.parent].rank + 1]
           e == [parent |-> o.parent, child |-> Len(nodes) + 1]
           ms == Append(nodes, t)
<1>4. Len(nodes) \in Nat /\ NodeIds(nodes) = 1..Len(nodes) /\ nodes[o.parent] \in TableType
  BY <1>1, <1>3, LenProperties, ElementOfSeq DEF NodeIds
<1>5. nodes[o.parent].rank \in Nat /\ MaxRank \in Nat
  BY <1>4, SamplerConstructed DEF TableType, ConfigAccepted
<1>6. t \in TableType
  BY <1>3, <1>5 DEF TableType
<1> HIDE DEF t
<1>7. /\ ms \in Seq(TableType) /\ Len(ms) = Len(nodes) + 1
      /\ NodeIds(ms) = 1..(Len(nodes) + 1)
      /\ ms[Len(nodes) + 1] = t /\ \A n \in 1..Len(nodes) : ms[n] = nodes[n]
      /\ edges \in Seq([parent : NodeIds(ms), child : NodeIds(ms)])
      /\ KeysLegal(ms, edges)
  BY <1>1, <1>6, NewTableKeepsKeysLegal
<1> HIDE DEF ms
<1>8. LegalKey(ms, e)
  <2>1. e \in [parent : NodeIds(ms), child : NodeIds(ms)]
    BY <1>3, <1>4, <1>7
  <2>2. ms[o.parent] = nodes[o.parent] /\ ms[Len(nodes) + 1] = t
    BY <1>3, <1>4, <1>7
  <2>3. t.role = o.role /\ t.rank = nodes[o.parent].rank + 1
    BY DEF t
  <2>4. nodes[o.parent].rank < t.rank
    BY <1>5, <2>3
  <2> QED BY <1>3, <2>1, <2>2, <2>3, <2>4 DEF LegalKey
<1>9. <<e.parent, e.child>> \notin Pairs(edges)
  <2>1. \A k \in 1..Len(edges) : edges[k] \in [parent : NodeIds(nodes), child : NodeIds(nodes)]
    BY <1>1, KeyEnds
  <2>2. DOMAIN edges = 1..Len(edges)
    BY <1>1, LenProperties
  <2>3. Len(nodes) + 1 \notin 1..Len(nodes)
    BY <1>4
  <2>4. \A k \in DOMAIN edges : edges[k].child # Len(nodes) + 1
    BY <1>4, <2>1, <2>2, <2>3
  <2> QED BY <2>4 DEF Pairs
<1>10. /\ Append(edges, e) \in Seq([parent : NodeIds(ms), child : NodeIds(ms)])
       /\ KeysLegal(ms, Append(edges, e))
  <2> HIDE DEF e
  <2> QED BY <1>7, <1>8, <1>9, AppendKeepsKeysLegal
<1>11. nodes' = ms /\ edges' = Append(edges, e)
  BY <1>2 DEF ms, t
<1>12. /\ nodes' \in Seq(TableType) /\ Len(nodes') >= Len(nodes)
       /\ edges' \in Seq(EdgeType') /\ ForeignKeysLegal'
  BY <1>4, <1>7, <1>10, <1>11 DEF EdgeType, ForeignKeysLegal
<1>13. /\ phase = "grow" /\ phase' = "grow"
       /\ UNCHANGED <<target, candidates, parents, added>>
  BY DEF AttachBackground, Growing, scan
<1> QED
  BY <1>12, <1>13, GrownSafe

(* The steps of the extra-edge scan and of validation keep the tables.     *)
LEMMA StartExtraSafe == SafeInv /\ StartExtraEdges => SafeInv'
<1> SUFFICES ASSUME SafeInv, StartExtraEdges PROVE SafeInv'
  OBVIOUS
<1> DEFINE cache == [n \in NodeIds(nodes) |-> StructuralParents(nodes, Pairs(edges), n)]
<1>1. UNCHANGED <<target, nodes, edges>> /\ phase = "grow"
  BY DEF StartExtraEdges, graph
<1>2. EdgeType' = EdgeType /\ PossibleCounts' = PossibleCounts
      /\ (ForeignKeysLegal' <=> ForeignKeysLegal)
  BY <1>1 DEF EdgeType, PossibleCounts, ForeignKeysLegal
<1>3. CASE MaxExtraEdges = 0
  <2>1. phase' = "validate" /\ UNCHANGED <<candidates, parents, added>>
    BY <1>3 DEF StartExtraEdges, scan
  <2> QED BY <1>1, <1>2, <2>1 DEF SafeInv, TypeOK
<1>4. CASE MaxExtraEdges # 0
  <2>1. /\ phase' = "extra" /\ parents' = cache /\ added' = 0
        /\ candidates' = CandidatePairs(cache)
    BY <1>4 DEF StartExtraEdges
  <2>2. \A p \in CandidatePairs(cache) :
          /\ p \in NodeIds(nodes) \X NodeIds(nodes) /\ p \notin Pairs(edges)
          /\ nodes[p[1]].rank < nodes[p[2]].rank /\ RolePair(nodes, p) \in AllowedEdges
    BY DEF CandidatePairs
  <2>3. cache \in [NodeIds(nodes) -> SUBSET NodeIds(nodes)]
    <3>1. \A k \in DOMAIN edges : edges[k].parent \in NodeIds(nodes)
      <4>1. edges \in Seq([parent : NodeIds(nodes), child : NodeIds(nodes)])
        BY DEF SafeInv, TypeOK, EdgeType
      <4> QED BY <4>1, KeyEnds
    <3>2. \A n \in NodeIds(nodes) : StructuralParents(nodes, Pairs(edges), n) \subseteq NodeIds(nodes)
      BY <3>1 DEF StructuralParents, FKParents, Pairs
    <3> QED BY <3>2
  <2> HIDE DEF cache
  <2>4. TypeOK'
    BY <1>1, <1>2, <2>1, <2>2, <2>3 DEF SafeInv, TypeOK
  <2> QED BY <1>1, <1>2, <2>1, <2>2, <2>4 DEF SafeInv
<1> QED BY <1>3, <1>4

LEMMA PassCandidateSafe == SafeInv /\ (SkipCandidate \/ RejectCandidate) => SafeInv'
<1> SUFFICES ASSUME SafeInv, SkipCandidate \/ RejectCandidate PROVE SafeInv'
  OBVIOUS
<1>1. /\ UNCHANGED <<phase, target, nodes, edges, parents, added>>
      /\ candidates' \subseteq candidates
  BY DEF SkipCandidate, RejectCandidate, graph
<1>2. EdgeType' = EdgeType /\ PossibleCounts' = PossibleCounts
      /\ (ForeignKeysLegal' <=> ForeignKeysLegal)
  BY <1>1 DEF EdgeType, PossibleCounts, ForeignKeysLegal
<1> QED
  BY <1>1, <1>2 DEF SafeInv, TypeOK

LEMMA AddSafe == SafeInv /\ AddExtraEdge => SafeInv'
<1> SUFFICES ASSUME SafeInv, AddExtraEdge PROVE SafeInv'
  OBVIOUS
<1>1. PICK p \in candidates :
        /\ candidates' = candidates \ {p}
        /\ edges' = Append(edges, [parent |-> p[1], child |-> p[2]])
        /\ parents' = IF RolePair(nodes, p) \in StructuralEdges
                      THEN [parents EXCEPT ![p[2]] = @ \cup {p[1]}] ELSE parents
        /\ added' = added + 1
  BY DEF AddExtraEdge
<1> DEFINE e == [parent |-> p[1], child |-> p[2]]
<1>2. UNCHANGED <<phase, target, nodes>> /\ phase = "extra"
  BY DEF AddExtraEdge, Scanning
<1>3. /\ p \in NodeIds(nodes) \X NodeIds(nodes) /\ p \notin Pairs(edges)
      /\ nodes[p[1]].rank < nodes[p[2]].rank /\ RolePair(nodes, p) \in AllowedEdges
  BY <1>2 DEF SafeInv, TypeOK
<1>4. edges \in Seq([parent : NodeIds(nodes), child : NodeIds(nodes)]) /\ KeysLegal(nodes, edges)
  BY DEF SafeInv, TypeOK, EdgeType, ForeignKeysLegal
<1>5. LegalKey(nodes, e) /\ <<e.parent, e.child>> = p
  BY <1>3 DEF LegalKey, RolePair
<1>6. /\ Append(edges, e) \in Seq([parent : NodeIds(nodes), child : NodeIds(nodes)])
      /\ KeysLegal(nodes, Append(edges, e))
      /\ Pairs(Append(edges, e)) = Pairs(edges) \cup {p}
  <2> HIDE DEF e
  <2>1. <<e.parent, e.child>> \notin Pairs(edges)
    BY <1>3, <1>5
  <2> QED BY <1>4, <1>5, <2>1, AppendKeepsKeysLegal
<1>7. edges' \in Seq(EdgeType') /\ ForeignKeysLegal' /\ Pairs(edges') = Pairs(edges) \cup {p}
  BY <1>1, <1>2, <1>6 DEF EdgeType, ForeignKeysLegal
<1>8. parents' \in [NodeIds(nodes) -> SUBSET NodeIds(nodes)]
  <2>1. parents \in [NodeIds(nodes) -> SUBSET NodeIds(nodes)]
    BY <1>2 DEF SafeInv, TypeOK
  <2>2. p[1] \in NodeIds(nodes) /\ p[2] \in NodeIds(nodes)
    BY <1>3
  <2> QED BY <1>1, <2>1, <2>2
<1>9. TypeOK'
  <2>1. PossibleCounts' = PossibleCounts
    BY DEF PossibleCounts
  <2> QED BY <1>1, <1>2, <1>7, <1>8, <2>1 DEF SafeInv, TypeOK
<1>10. \A q \in candidates' : /\ nodes[q[1]].rank < nodes[q[2]].rank
                              /\ RolePair(nodes, q) \in AllowedEdges
                              /\ q \notin Pairs(edges')
  BY <1>1, <1>2, <1>7 DEF SafeInv
<1> QED
  BY <1>2, <1>7, <1>9, <1>10 DEF SafeInv

LEMMA EndSafe == SafeInv /\ (FinishExtraEdges \/ Validate \/ UNCHANGED vars) => SafeInv'
<1> SUFFICES ASSUME SafeInv, FinishExtraEdges \/ Validate \/ UNCHANGED vars PROVE SafeInv'
  OBVIOUS
<1>1. /\ UNCHANGED <<target, nodes, edges, candidates, parents, added>>
      /\ phase' = phase \/ phase' \in {"validate", "done", "failed"}
  BY DEF FinishExtraEdges, Validate, graph, scan, vars
<1>2. EdgeType' = EdgeType /\ PossibleCounts' = PossibleCounts
      /\ (ForeignKeysLegal' <=> ForeignKeysLegal)
  BY <1>1 DEF EdgeType, PossibleCounts, ForeignKeysLegal
<1> QED
  BY <1>1, <1>2 DEF SafeInv, TypeOK

LEMMA SafeStep == SafeInv /\ [Next]_vars => SafeInv'
<1> SUFFICES ASSUME SafeInv, [Next]_vars PROVE SafeInv'
  OBVIOUS
<1>1. CASE AttachBase        BY <1>1, BaseSafe
<1>2. CASE AttachMotif       BY <1>2, MotifSafe
<1>3. CASE AttachBackground  BY <1>3, BackgroundSafe
<1>4. CASE StartExtraEdges   BY <1>4, StartExtraSafe
<1>5. CASE SkipCandidate \/ RejectCandidate  BY <1>5, PassCandidateSafe
<1>6. CASE AddExtraEdge      BY <1>6, AddSafe
<1>7. CASE FinishExtraEdges \/ Validate \/ UNCHANGED vars  BY <1>7, EndSafe
<1> QED
  BY <1>1, <1>2, <1>3, <1>4, <1>5, <1>6, <1>7 DEF Next

(* Every reachable state of the sampler satisfies the invariant.           *)
THEOREM SamplerSafe == Spec => []SafeInv
  BY InitSafe, SafeStep, PTL DEF Spec

(* For every accepted configuration and motif library the sampler is type  *)
(* correct: ranks stay in 0..max_rank, foreign keys join existing tables.  *)
THEOREM TypeCorrect == Spec => []TypeOK
<1>1. SafeInv => TypeOK
  BY DEF SafeInv
<1> QED BY <1>1, SamplerSafe, PTL

(* For every accepted configuration and motif library, every foreign key   *)
(* the sampler ever draws goes up in rank between allowed roles and is the *)
(* only one between its two tables.                                        *)
THEOREM ForeignKeysAlwaysLegal == Spec => []ForeignKeysLegal
<1>1. SafeInv => ForeignKeysLegal
  BY DEF SafeInv
<1> QED BY <1>1, SamplerSafe, PTL

-----------------------------------------------------------------------------
(* Connected and acyclic throughout                                        *)

(* Foreign keys that go up in rank form no cycle: in every set of tables   *)
(* the one of least rank is entered from no table of the set.              *)
LEMMA RankOrderIsAcyclic ==
  ASSUME SafeInv
  PROVE  Acyclic(NodeIds(nodes), Pairs(edges))
<1>1. \A n \in NodeIds(nodes) : nodes[n].rank \in Nat
  <2>1. nodes \in Seq(TableType) /\ MaxRank \in Nat
    BY SamplerConstructed DEF SafeInv, TypeOK, ConfigAccepted
  <2>2. \A n \in NodeIds(nodes) : nodes[n] \in TableType
    BY <2>1, LenProperties, ElementOfSeq DEF NodeIds
  <2> QED BY <2>1, <2>2 DEF TableType
<1>2. \A p \in Pairs(edges) : nodes[p[1]].rank < nodes[p[2]].rank
  BY DEF SafeInv, ForeignKeysLegal, KeysLegal
<1> SUFFICES ASSUME NEW S \in (SUBSET NodeIds(nodes)) \ {{}}
             PROVE  \E v \in S : \A u \in S : <<u, v>> \notin Pairs(edges)
  BY DEF Acyclic
<1> DEFINE R == {nodes[n].rank : n \in S}
<1>3. R \in SUBSET Nat /\ R # {}
  BY <1>1
<1>4. PICK r \in R : \A q \in R : r <= q
  <2>1. IsWellFoundedOn(OpToRel(<, Nat), Nat)
    BY NatLessThanWellFounded
  <2>2. PICK r \in R : \A q \in R : ~(<<q, r>> \in OpToRel(<, Nat))
    BY <1>3, <2>1, WFMin
  <2>3. ASSUME NEW q \in R PROVE r <= q
    <3>1. q \in Nat /\ r \in Nat
      BY <1>3
    <3>2. ~(<<q, r>> \in {ss \in Nat \X Nat : ss[1] < ss[2]})
      BY <2>2 DEF OpToRel
    <3>3. ~(q < r)
      BY <3>1, <3>2
    <3> QED BY <3>1, <3>3
  <2> QED BY <2>3
<1>5. PICK v \in S : nodes[v].rank = r
  BY <1>4
<1>6. ASSUME NEW u \in S, <<u, v>> \in Pairs(edges) PROVE FALSE
  <2>1. nodes[u].rank < nodes[v].rank
    BY <1>2, <1>6
  <2>2. r <= nodes[u].rank
    BY <1>4
  <2>3. nodes[u].rank \in Nat /\ r \in Nat
    BY <1>1, <1>3
  <2> QED BY <1>5, <2>1, <2>2, <2>3
<1> QED BY <1>6

(* Connectivity is inherited by more edges ...                             *)
LEMMA MoreEdgesStayConnected ==
  ASSUME NEW V, NEW P, NEW Q, P \subseteq Q, Connected(V, P)
  PROVE  Connected(V, Q)
BY DEF Connected

(* ... and by gluing two connected graphs together: B maps the vertices T  *)
(* of the second to vertices of W, the vertex a to one in V, and W has no  *)
(* vertex beyond V and the image of B.                                     *)
Glued(V, P, T, Q, B, a, W, E) ==
  /\ P \in SUBSET (V \X V) /\ Connected(V, P)
  /\ Q \in SUBSET (T \X T) /\ Connected(T, Q)
  /\ V \subseteq W /\ B \in [T -> W] /\ a \in T /\ B[a] \in V
  /\ \A w \in W : w \in V \/ \E s \in T : w = B[s]
  /\ P \subseteq E /\ \A q \in Q : <<B[q[1]], B[q[2]]>> \in E

LEMMA GluedGraphsConnected ==
  ASSUME NEW V, NEW P, NEW T, NEW Q, NEW B, NEW a, NEW W, NEW E,
         Glued(V, P, T, Q, B, a, W, E)
  PROVE  Connected(W, E)
<1> USE DEF Glued
<1> SUFFICES ASSUME NEW S \in (SUBSET W) \ {{}, W}
             PROVE  \E p \in E : (p[1] \in S) # (p[2] \in S)
  BY DEF Connected
<1>1. CASE S \cap V \notin {{}, V}
  <2>1. S \cap V \in (SUBSET V) \ {{}, V}
    BY <1>1
  <2>2. PICK p \in P : (p[1] \in S \cap V) # (p[2] \in S \cap V)
    BY <2>1 DEF Connected
  <2>3. p \in E /\ p[1] \in V /\ p[2] \in V
    OBVIOUS
  <2> QED BY <2>2, <2>3
<1>2. CASE S \cap V \in {{}, V}
  <2> DEFINE U == {s \in T : B[s] \in S}
  <2>1. U # {}
    <3>1. PICK w \in S : TRUE
      OBVIOUS
    <3>2. w \in V \/ \E s \in T : w = B[s]
      OBVIOUS
    <3>3. CASE w \in V
      <4>1. S \cap V = V
        BY <1>2, <3>3
      <4> QED BY <4>1
    <3>4. CASE \E s \in T : w = B[s]
      BY <3>4
    <3> QED BY <3>2, <3>3, <3>4
  <2>2. U # T
    <3>1. PICK w \in W : w \notin S
      OBVIOUS
    <3>2. w \in V \/ \E s \in T : w = B[s]
      OBVIOUS
    <3>3. CASE w \in V
      <4>1. S \cap V = {}
        BY <1>2, <3>1, <3>3
      <4> QED BY <4>1
    <3>4. CASE \E s \in T : w = B[s]
      BY <3>1, <3>4
    <3> QED BY <3>2, <3>3, <3>4
  <2>3. U \in (SUBSET T) \ {{}, T}
    BY <2>1, <2>2
  <2>4. PICK q \in Q : (q[1] \in U) # (q[2] \in U)
    BY <2>3 DEF Connected
  <2>5. <<B[q[1]], B[q[2]]>> \in E /\ q[1] \in T /\ q[2] \in T
    OBVIOUS
  <2>6. (B[q[1]] \in S) # (B[q[2]] \in S)
    BY <2>4, <2>5
  <2> QED BY <2>5, <2>6
<1> QED BY <1>1, <1>2

(* Connectivity, on top of the invariant.                                  *)
ConnectedInv == SafeInv /\ Connected(NodeIds(nodes), Pairs(edges))

(* The pairs of a sequence of foreign keys between existing tables.        *)
LEMMA PairsBetweenTables ==
  ASSUME NEW ns, NEW es, es \in Seq([parent : NodeIds(ns), child : NodeIds(ns)])
  PROVE  Pairs(es) \in SUBSET (NodeIds(ns) \X NodeIds(ns))
<1>1. \A k \in DOMAIN es : es[k] \in [parent : NodeIds(ns), child : NodeIds(ns)]
  BY KeyEnds
<1> QED BY <1>1 DEF Pairs

(* The foreign keys a motif attachment adds come after the old ones, one   *)
(* for every edge of the motif, between the tables its slots are bound to. *)
LEMMA AttachedKeys ==
  ASSUME NEW m \in Motifs, NEW anchor \in NodeIds(nodes), NEW roles \in [Slots(m) -> Roles],
         nodes \in Seq(TableType), edges \in Seq(EdgeType),
         roles[m.anchor] = nodes[anchor].role,
         \A s \in Slots(m) : GlobalRank(m, nodes[anchor].rank, s) \in 0..MaxRank,
         Attach(m, anchor, roles)
  PROVE  LET B == Binding(m, anchor) IN
         /\ B[m.anchor] = anchor /\ B \in [Slots(m) -> NodeIds(nodes')]
         /\ DOMAIN edges' = 1..Len(edges') /\ Len(edges') = Len(edges) + Len(m.edges)
         /\ DOMAIN edges = 1..Len(edges) /\ Len(edges) \in Nat
         /\ DOMAIN m.edges = 1..Len(m.edges) /\ Len(m.edges) \in Nat
         /\ \A k \in 1..Len(m.edges) : m.edges[k] \in [parent : Slots(m), child : Slots(m)]
         /\ \A k \in 1..Len(edges) : edges'[k] = edges[k]
         /\ \A k \in 1..Len(m.edges) :
              edges'[Len(edges) + k] = [parent |-> B[m.edges[k].parent], child |-> B[m.edges[k].child]]
         /\ Pairs(edges') = Pairs(edges) \cup {<<B[e.parent], B[e.child]>> : e \in MotifEdges(m)}
<1> DEFINE B == Binding(m, anchor)
           G == FreshEdges(m, B)
<1>1. nodes' = nodes \o FreshNodes(m, anchor, roles) /\ edges' = edges \o G
  BY DEF Attach
<1>2. /\ nodes' \in Seq(TableType) /\ Len(nodes') = Len(nodes) + Len(m.nodes) - 1
      /\ \A s \in Slots(m) : B[s] \in 1..Len(nodes')
  BY <1>1, AttachedTables
<1>3. /\ Slots(m) = 1..Len(m.nodes) /\ Len(m.nodes) \in Nat /\ m.anchor \in Slots(m)
      /\ m.edges \in Seq([parent : Slots(m), child : Slots(m)])
  BY MotifShape
<1>4. /\ NodeIds(nodes) = 1..Len(nodes) /\ NodeIds(nodes') = 1..Len(nodes')
      /\ Len(nodes) \in Nat /\ Len(nodes') \in Nat
  BY <1>2, LenProperties DEF NodeIds
<1>5. /\ DOMAIN m.edges = 1..Len(m.edges) /\ Len(m.edges) \in Nat
      /\ \A k \in 1..Len(m.edges) : m.edges[k] \in [parent : Slots(m), child : Slots(m)]
  BY <1>3, LenProperties, ElementOfSeq
<1>7. B[m.anchor] = anchor /\ B \in [Slots(m) -> NodeIds(nodes')]
  BY <1>2, <1>3, <1>4 DEF Binding
<1>9. edges \in Seq([parent : NodeIds(nodes), child : NodeIds(nodes)])
      /\ Pairs(edges) \in SUBSET (NodeIds(nodes) \X NodeIds(nodes))
  BY PairsBetweenTables DEF EdgeType
<1> HIDE DEF B
<1>10. /\ DOMAIN edges' = 1..Len(edges') /\ Len(edges') = Len(edges) + Len(m.edges)
       /\ DOMAIN edges = 1..Len(edges) /\ Len(edges) \in Nat
       /\ \A k \in 1..Len(edges) : edges'[k] = edges[k]
       /\ \A k \in 1..Len(m.edges) :
            edges'[Len(edges) + k] = [parent |-> B[m.edges[k].parent], child |-> B[m.edges[k].child]]
  <2>1. NodeIds(nodes) \subseteq NodeIds(nodes')
    BY <1>2, <1>3, <1>4
  <2> DEFINE T == [parent : NodeIds(nodes), child : NodeIds(nodes)]
             U == [parent : NodeIds(nodes'), child : NodeIds(nodes')]
             n == Len(m.edges)
  <2>2. G = [k \in 1..n |-> [parent |-> B[m.edges[k].parent], child |-> B[m.edges[k].child]]]
    BY DEF FreshEdges
  <2>3. G \in [1..n -> U] /\ n \in Nat /\ T \subseteq U /\ edges \in Seq(T)
    BY <1>5, <1>7, <1>9, <2>1, <2>2
  <2> HIDE DEF T, U, n, G
  <2>4. G \in Seq(U) /\ Len(G) = n /\ edges \in Seq(U)
    BY <2>3, FunctionIsSeq, SeqMonotonic
  <2>7. /\ edges \o G \in Seq(U) /\ Len(edges \o G) = Len(edges) + Len(G)
        /\ \A k \in 1..Len(edges) : (edges \o G)[k] = edges[k]
        /\ \A k \in 1..Len(G) : (edges \o G)[Len(edges) + k] = G[k]
    <3>1. edges \in Seq(U) /\ G \in Seq(U)
      BY <2>4
    <3> QED BY <3>1, ConcatFacts
  <2>5. /\ edges \o G \in Seq(U) /\ Len(edges \o G) = Len(edges) + n
        /\ \A k \in 1..Len(edges) : (edges \o G)[k] = edges[k]
        /\ \A k \in 1..n : (edges \o G)[Len(edges) + k] = G[k]
    BY <2>4, <2>7
  <2>6. DOMAIN edges = 1..Len(edges) /\ Len(edges) \in Nat /\ DOMAIN (edges \o G) = 1..Len(edges \o G)
    BY <2>4, <2>5, LenProperties
  <2> QED BY <1>1, <2>2, <2>5, <2>6 DEF n, G
<1>11. ASSUME NEW p
       PROVE  p \in Pairs(edges') <=> \/ p \in Pairs(edges)
                                     \/ \E e \in MotifEdges(m) : p = <<B[e.parent], B[e.child]>>
  <2>1. ASSUME p \in Pairs(edges') PROVE p \in Pairs(edges) \/ \E e \in MotifEdges(m) : p = <<B[e.parent], B[e.child]>>
    <3>1. PICK k \in 1..Len(edges') : p = <<edges'[k].parent, edges'[k].child>>
      BY <1>10, <2>1 DEF Pairs
    <3>2. CASE k \in 1..Len(edges)
      BY <1>10, <3>1, <3>2 DEF Pairs
    <3>3. CASE k \notin 1..Len(edges)
      <4> DEFINE j == k - Len(edges)
      <4>1. j \in 1..Len(m.edges) /\ k = Len(edges) + j
        BY <1>5, <1>10, <3>3
      <4> HIDE DEF j
      <4>4. edges'[k] = [parent |-> B[m.edges[j].parent], child |-> B[m.edges[j].child]]
        BY <1>10, <4>1
      <4>2. p = <<B[m.edges[j].parent], B[m.edges[j].child]>>
        BY <3>1, <4>4
      <4>3. m.edges[j] \in MotifEdges(m)
        BY <1>5, <4>1 DEF MotifEdges
      <4> QED BY <4>2, <4>3
    <3> QED BY <3>2, <3>3
  <2>2. ASSUME p \in Pairs(edges) PROVE p \in Pairs(edges')
    <3>1. PICK k \in 1..Len(edges) : p = <<edges[k].parent, edges[k].child>>
      BY <1>10, <2>2 DEF Pairs
    <3>2. k \in DOMAIN edges' /\ edges'[k] = edges[k]
      BY <1>5, <1>10
    <3> QED BY <3>1, <3>2 DEF Pairs
  <2>3. ASSUME NEW e \in MotifEdges(m), p = <<B[e.parent], B[e.child]>> PROVE p \in Pairs(edges')
    <3>1. PICK j \in 1..Len(m.edges) : e = m.edges[j]
      BY <1>5 DEF MotifEdges
    <3>2. Len(edges) + j \in DOMAIN edges'
      BY <1>5, <1>10
    <3>3. edges'[Len(edges) + j] = [parent |-> B[e.parent], child |-> B[e.child]]
      BY <1>10, <3>1
    <3>4. edges'[Len(edges) + j].parent = B[e.parent] /\ edges'[Len(edges) + j].child = B[e.child]
      BY <3>3
    <3> QED BY <2>3, <3>2, <3>4 DEF Pairs
  <2> QED BY <2>1, <2>2, <2>3
<1>12. Pairs(edges') = Pairs(edges) \cup {<<B[e.parent], B[e.child]>> : e \in MotifEdges(m)}
  BY <1>11
<1> QED BY <1>5, <1>7, <1>10, <1>12 DEF B

(* Attaching a motif to a connected schema leaves it connected.            *)
LEMMA AttachStaysConnected ==
  ASSUME NEW m \in Motifs, NEW anchor \in NodeIds(nodes), NEW roles \in [Slots(m) -> Roles],
         nodes \in Seq(TableType), edges \in Seq(EdgeType),
         Connected(NodeIds(nodes), Pairs(edges)),
         roles[m.anchor] = nodes[anchor].role,
         \A s \in Slots(m) : GlobalRank(m, nodes[anchor].rank, s) \in 0..MaxRank,
         Attach(m, anchor, roles), edges' \in Seq(EdgeType')
  PROVE  Connected(NodeIds(nodes'), Pairs(edges'))
<1> DEFINE B == Binding(m, anchor)
           G == FreshEdges(m, B)
<1>1. nodes' = nodes \o FreshNodes(m, anchor, roles) /\ edges' = edges \o G
  BY DEF Attach
<1>2. /\ nodes' \in Seq(TableType) /\ Len(nodes') = Len(nodes) + Len(m.nodes) - 1
      /\ \A s \in Slots(m) : B[s] \in 1..Len(nodes')
  BY <1>1, AttachedTables
<1>3. /\ Slots(m) = 1..Len(m.nodes) /\ Len(m.nodes) \in Nat /\ m.anchor \in Slots(m)
      /\ m.edges \in Seq([parent : Slots(m), child : Slots(m)])
  BY MotifShape
<1>4. /\ NodeIds(nodes) = 1..Len(nodes) /\ NodeIds(nodes') = 1..Len(nodes')
      /\ Len(nodes) \in Nat /\ Len(nodes') \in Nat
  BY <1>2, LenProperties DEF NodeIds
<1>5. /\ DOMAIN m.edges = 1..Len(m.edges) /\ Len(m.edges) \in Nat
      /\ \A k \in 1..Len(m.edges) : m.edges[k] \in [parent : Slots(m), child : Slots(m)]
  BY <1>3, LenProperties, ElementOfSeq
<1>6. Connected(Slots(m), SlotPairs(m)) /\ SlotPairs(m) \in SUBSET (Slots(m) \X Slots(m))
  <2>1. ValidMotif(m)
    BY SamplerConstructed DEF LibraryAccepted
  <2>2. Connected(Slots(m), SlotPairs(m))
    BY <2>1 DEF ValidMotif
  <2>3. SlotPairs(m) \in SUBSET (Slots(m) \X Slots(m))
    BY <1>5 DEF SlotPairs, MotifEdges
  <2> QED BY <2>2, <2>3
<1>7. B[m.anchor] = anchor /\ B \in [Slots(m) -> NodeIds(nodes')]
  BY <1>2, <1>3, <1>4 DEF Binding
<1>8. \A w \in NodeIds(nodes') : w \in NodeIds(nodes) \/ \E s \in Slots(m) : w = B[s]
  <2> SUFFICES ASSUME NEW w \in 1..Len(nodes'), w > Len(nodes)
               PROVE  \E s \in Slots(m) : w = B[s]
    BY <1>4
  <2> DEFINE k == w - Len(nodes)
             s == IF k < m.anchor THEN k ELSE k + 1
  <2>1. k \in 1..(Len(m.nodes) - 1) /\ w = Len(nodes) + k
    BY <1>2, <1>3, <1>4
  <2>2. s \in Slots(m) /\ s # m.anchor /\ k = (IF s < m.anchor THEN s ELSE s - 1)
    BY <1>3, <2>1
  <2>3. B[s] = Len(nodes) + (IF s < m.anchor THEN s ELSE s - 1)
    BY <2>2 DEF Binding
  <2> QED BY <2>1, <2>2, <2>3
<1>9. Pairs(edges) \in SUBSET (NodeIds(nodes) \X NodeIds(nodes))
  BY PairsBetweenTables DEF EdgeType
<1>10. Pairs(edges') = Pairs(edges) \cup {<<B[e.parent], B[e.child]>> : e \in MotifEdges(m)}
  BY AttachedKeys
<1> HIDE DEF B
<1>11. Pairs(edges) \subseteq Pairs(edges')
  BY <1>10
<1>12. \A q \in SlotPairs(m) : <<B[q[1]], B[q[2]]>> \in Pairs(edges')
  <2> SUFFICES ASSUME NEW q \in SlotPairs(m) PROVE <<B[q[1]], B[q[2]]>> \in Pairs(edges')
    OBVIOUS
  <2>1. PICK e \in MotifEdges(m) : q = <<e.parent, e.child>>
    BY DEF SlotPairs
  <2>2. <<B[e.parent], B[e.child]>> \in Pairs(edges')
    BY <1>10, <2>1
  <2> QED BY <2>1, <2>2
<1>13. NodeIds(nodes) \subseteq NodeIds(nodes') /\ B[m.anchor] \in NodeIds(nodes)
  BY <1>2, <1>3, <1>4, <1>7
<1> DEFINE V == NodeIds(nodes)
           P == Pairs(edges)
           T == Slots(m)
           Q == SlotPairs(m)
           W == NodeIds(nodes')
           E == Pairs(edges')
<1>14. /\ P \in SUBSET (V \X V) /\ Connected(V, P)
       /\ Q \in SUBSET (T \X T) /\ Connected(T, Q)
       /\ V \subseteq W /\ B \in [T -> W]
       /\ m.anchor \in T /\ B[m.anchor] \in V
       /\ P \subseteq E
  BY <1>3, <1>6, <1>7, <1>9, <1>11, <1>13
<1>15. \A w \in W : w \in V \/ \E s \in T : w = B[s]
  BY <1>8
<1>16. \A q \in Q : <<B[q[1]], B[q[2]]>> \in E
  BY <1>12
<1>17. Connected(W, E)
  <2> HIDE DEF V, P, T, Q, W, E
  <2>1. Glued(V, P, T, Q, B, m.anchor, W, E)
    BY <1>14, <1>15, <1>16 DEF Glued
  <2> QED BY <2>1, GluedGraphsConnected
<1> QED
  BY <1>17

(* A new table with a foreign key from an old one is connected to it.      *)
LEMMA LeafStaysConnected ==
  ASSUME NEW n \in Nat, NEW P, Connected(1..n, P), NEW u \in 1..n,
         P \in SUBSET ((1..n) \X (1..n))
  PROVE  Connected(1..(n + 1), P \cup {<<u, n + 1>>})
<1> DEFINE V == 1..n
           W == 1..(n + 1)
           E == P \cup {<<u, n + 1>>}
<1>1. W = V \cup {n + 1} /\ n + 1 \notin V
  OBVIOUS
<1> SUFFICES ASSUME NEW S \in (SUBSET W) \ {{}, W}
             PROVE  \E p \in E : (p[1] \in S) # (p[2] \in S)
  BY DEF Connected
<1>2. CASE S \cap V \notin {{}, V}
  <2>1. PICK p \in P : (p[1] \in S \cap V) # (p[2] \in S \cap V)
    BY <1>2 DEF Connected
  <2>2. p \in E /\ p[1] \in V /\ p[2] \in V
    OBVIOUS
  <2> QED BY <2>1, <2>2
<1>3. CASE S \cap V \in {{}, V}
  <2>1. (u \in S) # (n + 1 \in S)
    <3>1. CASE S \cap V = {}
      BY <1>1, <3>1
    <3>2. CASE S \cap V = V
      BY <1>1, <3>2
    <3> QED BY <1>3, <3>1, <3>2
  <2>2. <<u, n + 1>> \in E
    OBVIOUS
  <2> QED BY <2>1, <2>2
<1> QED BY <1>2, <1>3

LEMMA ConnectedStep == ConnectedInv /\ [Next]_vars => ConnectedInv'
<1> SUFFICES ASSUME ConnectedInv, [Next]_vars PROVE ConnectedInv'
  OBVIOUS
<1>1. SafeInv /\ SafeInv' /\ Connected(NodeIds(nodes), Pairs(edges))
  <2>1. SafeInv'
    BY SafeStep DEF ConnectedInv
  <2> QED BY <2>1 DEF ConnectedInv
<1>2. /\ nodes \in Seq(TableType) /\ edges \in Seq(EdgeType)
      /\ nodes' \in Seq(TableType) /\ edges' \in Seq(EdgeType')
      /\ edges \in Seq([parent : NodeIds(nodes), child : NodeIds(nodes)])
  BY <1>1 DEF SafeInv, TypeOK, EdgeType
<1>3. CASE AttachBase
  <2> DEFINE roles == <<"entity", "event">>
  <2>1. /\ Attach(BaseMotif, 1, roles) /\ BaseMotif \in Motifs
        /\ MaxRank \in Nat /\ MaxRank >= 1
    BY <1>3, SamplerConstructed DEF AttachBase, ConfigAccepted
  <2>2. /\ Slots(BaseMotif) = 1..2 /\ BaseMotif.anchor = 1
        /\ BaseMotif.nodes[1].offset = 0 /\ BaseMotif.nodes[2].offset = 1
    BY DEF Slots, BaseMotif, EntityEvent, Node, Edge
  <2>3. 1 \in NodeIds(nodes) /\ nodes[1].role = "entity" /\ nodes[1].rank = 0
    BY <1>1, <1>3 DEF NodeIds, SafeInv, AttachBase
  <2>4. roles \in [Slots(BaseMotif) -> Roles] /\ roles[BaseMotif.anchor] = nodes[1].role
    BY <2>2, <2>3 DEF Roles
  <2>5. \A s \in Slots(BaseMotif) : GlobalRank(BaseMotif, nodes[1].rank, s) \in 0..MaxRank
    BY <2>1, <2>2, <2>3 DEF GlobalRank
  <2> HIDE DEF roles
  <2> QED BY <1>1, <1>2, <2>1, <2>3, <2>4, <2>5, AttachStaysConnected DEF ConnectedInv
<1>4. CASE AttachMotif
  <2>1. PICK o \in FeasibleOptions : Attach(o.motif, o.anchor, o.roles)
    BY <1>4 DEF AttachMotif
  <2>2. PICK m \in Motifs, anchor \in NodeIds(nodes) :
          /\ Fits(m, anchor)
          /\ \E a \in RoleAssignments(m, nodes[anchor].role) :
               o = [motif |-> m, anchor |-> anchor, roles |-> a]
    BY DEF FeasibleOptions
  <2>3. PICK a \in RoleAssignments(m, nodes[anchor].role) :
          o = [motif |-> m, anchor |-> anchor, roles |-> a]
    BY <2>2
  <2>4. Attach(m, anchor, a)
    BY <2>1, <2>3
  <2>5. a \in [Slots(m) -> Roles] /\ a[m.anchor] = nodes[anchor].role
    BY MotifShape DEF RoleAssignments, CompleteAssignments
  <2>6. \A s \in Slots(m) : GlobalRank(m, nodes[anchor].rank, s) \in 0..MaxRank
    BY <2>2 DEF Fits
  <2> QED BY <1>1, <1>2, <2>4, <2>5, <2>6, AttachStaysConnected DEF ConnectedInv
<1>5. CASE AttachBackground
  <2>1. PICK o \in BackgroundOptions :
          /\ nodes' = Append(nodes, [role |-> o.role, rank |-> nodes[o.parent].rank + 1])
          /\ edges' = Append(edges, [parent |-> o.parent, child |-> Len(nodes) + 1])
    BY <1>5 DEF AttachBackground
  <2>2. o.parent \in NodeIds(nodes)
    BY DEF BackgroundOptions
  <2> DEFINE n == Len(nodes)
             e == [parent |-> o.parent, child |-> n + 1]
  <2>3. n \in Nat /\ NodeIds(nodes) = 1..n
    BY <1>2, LenProperties DEF NodeIds
  <2>4. NodeIds(nodes') = 1..(n + 1)
    <3>1. Len(nodes') = n + 1
      BY <1>2, <2>1
    <3> QED BY <1>2, <3>1, LenProperties DEF NodeIds
  <2>5. Pairs(edges) \cup {<<o.parent, n + 1>>} \subseteq Pairs(edges')
    <3>1. /\ DOMAIN edges = 1..Len(edges) /\ Len(edges) \in Nat
      BY <1>2, LenProperties
    <3>2. DOMAIN edges' = 1..(Len(edges) + 1) /\ edges'[Len(edges) + 1] = e
          /\ \A k \in 1..Len(edges) : edges'[k] = edges[k]
      BY <2>1, <3>1
    <3>3. e.parent = o.parent /\ e.child = n + 1
      OBVIOUS
    <3> HIDE DEF e
    <3>4. <<o.parent, n + 1>> \in Pairs(edges')
      <4>1. Len(edges) + 1 \in DOMAIN edges'
        BY <3>1, <3>2
      <4> QED BY <3>2, <3>3, <4>1 DEF Pairs
    <3>5. ASSUME NEW p \in Pairs(edges) PROVE p \in Pairs(edges')
      <4>1. PICK k \in 1..Len(edges) : p = <<edges[k].parent, edges[k].child>>
        BY <3>1 DEF Pairs
      <4>2. k \in DOMAIN edges' /\ edges'[k] = edges[k]
        BY <3>1, <3>2
      <4> QED BY <4>1, <4>2 DEF Pairs
    <3> QED BY <3>4, <3>5
  <2>6. Pairs(edges) \in SUBSET ((1..n) \X (1..n))
    BY <1>2, <2>3, PairsBetweenTables
  <2>7. Connected(1..(n + 1), Pairs(edges) \cup {<<o.parent, n + 1>>})
    <3> HIDE DEF n
    <3> QED BY <1>1, <2>2, <2>3, <2>6, LeafStaysConnected
  <2>8. Connected(1..(n + 1), Pairs(edges'))
    <3> HIDE DEF n
    <3> QED BY <2>5, <2>7, MoreEdgesStayConnected
  <2> QED BY <1>1, <2>4, <2>8 DEF ConnectedInv
<1>6. CASE AddExtraEdge
  <2>1. PICK p \in candidates : edges' = Append(edges, [parent |-> p[1], child |-> p[2]])
    BY <1>6 DEF AddExtraEdge
  <2>2. nodes' = nodes
    BY <1>6 DEF AddExtraEdge
  <2>3. Pairs(edges) \subseteq Pairs(edges')
    <3>1. DOMAIN edges = 1..Len(edges) /\ Len(edges) \in Nat
      BY <1>2, LenProperties
    <3>2. DOMAIN edges' = 1..(Len(edges) + 1) /\ \A k \in 1..Len(edges) : edges'[k] = edges[k]
      BY <2>1, <3>1
    <3> SUFFICES ASSUME NEW q \in Pairs(edges) PROVE q \in Pairs(edges')
      OBVIOUS
    <3>3. PICK k \in 1..Len(edges) : q = <<edges[k].parent, edges[k].child>>
      BY <3>1 DEF Pairs
    <3>4. k \in DOMAIN edges' /\ edges'[k] = edges[k]
      BY <3>1, <3>2
    <3> QED BY <3>3, <3>4 DEF Pairs
  <2> QED BY <1>1, <2>2, <2>3, MoreEdgesStayConnected DEF ConnectedInv
<1>7. CASE \/ StartExtraEdges \/ SkipCandidate \/ RejectCandidate
           \/ FinishExtraEdges \/ Validate \/ UNCHANGED vars
  <2>1. nodes' = nodes /\ edges' = edges
    BY <1>7 DEF StartExtraEdges, SkipCandidate, RejectCandidate, FinishExtraEdges, Validate, graph, vars
  <2> QED BY <1>1, <2>1 DEF ConnectedInv
<1> QED
  BY <1>3, <1>4, <1>5, <1>6, <1>7 DEF Next

(* For every accepted configuration and motif library the schema is, at    *)
(* every step of sample(), one connected graph without cycles: the         *)
(* connectivity and acyclicity checks of validation can never fail.        *)
THEOREM AlwaysConnectedAndAcyclic == Spec => []ConnectedThroughout
<1>1. Init => ConnectedInv
  <2> SUFFICES ASSUME Init PROVE ConnectedInv
    OBVIOUS
  <2>1. SafeInv
    BY InitSafe
  <2>2. NodeIds(nodes) = {1}
    BY DEF Init, NodeIds
  <2>3. Connected(NodeIds(nodes), Pairs(edges))
    BY <2>2 DEF Connected
  <2> QED BY <2>1, <2>3 DEF ConnectedInv
<1>2. ConnectedInv /\ [Next]_vars => ConnectedInv'
  BY ConnectedStep
<1>3. ConnectedInv => ConnectedThroughout
  BY RankOrderIsAcyclic DEF ConnectedInv, ConnectedThroughout
<1> QED
  BY <1>1, <1>2, <1>3, PTL DEF Spec
-----------------------------------------------------------------------------
(* Valid throughout                                                        *)

(* No motif gives its anchor a structural parent.  sample() does not count *)
(* the parents an anchor already has when it attaches a motif there, nor   *)
(* does validate_motif_spec ("external structural-parent counts of the     *)
(* anchor node"): a library with other motifs could exceed the maximum of  *)
(* the anchor's role.  In the catalog only lookups refer to an anchor.     *)
AnchorsTakeNoParents ==
  \A m \in Motifs : \A e \in MotifEdges(m) :
    e.child = m.anchor => m.nodes[e.parent].roles \subseteq {"lookup"}

LEMMA CatalogAnchors == Motifs = DefaultMotifs => AnchorsTakeNoParents
<1> SUFFICES ASSUME NEW m \in DefaultMotifs, NEW k \in DOMAIN m.edges, m.edges[k].child = m.anchor
             PROVE  m.nodes[m.edges[k].parent].roles \subseteq {"lookup"}
  BY DEF AnchorsTakeNoParents, MotifEdges
<1> USE DEF Node, Edge
<1>1. CASE m = EntityEvent             BY <1>1 DEF EntityEvent
<1>2. CASE m = EntityEventDetail       BY <1>2 DEF EntityEventDetail
<1>3. CASE m = EntityBridgeCollider    BY <1>3 DEF EntityBridgeCollider
<1>4. CASE m = EntityEventCollider     BY <1>4 DEF EntityEventCollider
<1>5. CASE m = EntityEventFork         BY <1>5 DEF EntityEventFork
<1>6. CASE m = EventReferenceChain     BY <1>6 DEF EventReferenceChain
<1>7. CASE m = LookupAssignment        BY <1>7 DEF LookupAssignment
<1> QED BY <1>1, <1>2, <1>3, <1>4, <1>5, <1>6, <1>7 DEF DefaultMotifs

LEMMA OneToOneImage ==
  ASSUME NEW S, IsFiniteSet(S), NEW f, \A x, y \in S : f[x] = f[y] => x = y
  PROVE  Cardinality({f[x] : x \in S}) = Cardinality(S)
<1> DEFINE T == {f[x] : x \in S}
           g == [x \in S |-> f[x]]
<1>1. g \in Surjection(S, T) /\ g \in Injection(S, T)
  BY DEF Surjection, Injection, IsInjective
<1> QED BY <1>1, FS_Surjection

(* validate_roles, table by table, for keys between roles that may be      *)
(* joined: what is left are the bounds on structural parents.              *)
WithinLimits(ns, fks, n) ==
  LET count == Cardinality(StructuralParents(ns, fks, n))
  IN RoleSpec[ns[n].role].min <= count /\ count <= RoleSpec[ns[n].role].max

LEMMA RolesTableByTable ==
  ASSUME NEW ns, NEW fks, \A p \in fks : RolePair(ns, p) \in AllowedEdges
  PROVE  RolesValid(ns, fks) <=> \A n \in NodeIds(ns) : WithinLimits(ns, fks, n)
<1>1. \A p \in fks : RoleSpec[ns[p[1]].role].referenced /\ RoleSpec[ns[p[2]].role].ownsFK
  BY RoleCatalogImports DEF CatalogConsistent, RolePair
<1>2. \A n : /\ FKParents(fks, n) # {} => RoleSpec[ns[n].role].ownsFK
             /\ FKChildren(fks, n) # {} => RoleSpec[ns[n].role].referenced
  BY <1>1 DEF FKParents, FKChildren
<1> QED BY <1>2 DEF RolesValid, WithinLimits

(* The structural parents of a table, when a key is added.                 *)
LEMMA ParentsAfterKey ==
  ASSUME NEW ns, NEW fks, NEW u, NEW v, NEW n
  PROVE  StructuralParents(ns, fks \cup {<<u, v>>}, n)
           = StructuralParents(ns, fks, n)
               \cup (IF v = n /\ RolePair(ns, <<u, v>>) \in StructuralEdges THEN {u} ELSE {})
<1> DEFINE p == <<u, v>>
           E == fks \cup {p}
<1>1. p[1] = u /\ p[2] = v
  OBVIOUS
<1>2. ASSUME NEW w PROVE w \in FKParents(E, n) <=> w \in FKParents(fks, n) \/ (v = n /\ w = u)
  BY <1>1 DEF FKParents
<1> QED BY <1>2 DEF StructuralParents

(* Motif occurrences stay valid when tables and keys are appended.         *)
LEMMA AttachmentPersists ==
  ASSUME NEW ns, NEW ms, NEW P, NEW Q, NodeIds(ns) \subseteq NodeIds(ms), P \subseteq Q,
         \A n \in NodeIds(ns) : ms[n] = ns[n],
         NEW m, NEW bind, AttachmentValid(ns, P, m, bind, {}), m.anchor \in Slots(m)
  PROVE  AttachmentValid(ms, Q, m, bind, {})
<1>1. \A s \in Slots(m) : bind[s] \in NodeIds(ms) /\ ms[bind[s]] = ns[bind[s]]
  BY DEF AttachmentValid
<1>2. [s \in Slots(m) |-> ms[bind[s]].role] = [s \in Slots(m) |-> ns[bind[s]].role]
  BY <1>1
<1> DEFINE a == [s \in Slots(m) |-> ns[bind[s]].role]
           b == [s \in Slots(m) |-> ms[bind[s]].role]
<1>3. b = a
  BY <1>2
<1> HIDE DEF a, b
<1>4. /\ ValidMotif(m) /\ DOMAIN bind = Slots(m)
      /\ \A s, t \in Slots(m) : bind[s] = bind[t] => s = t
      /\ \A s \in Slots(m) : bind[s] \in NodeIds(ns) /\ a[s] \in m.nodes[s].roles
      /\ \A e \in MotifEdges(m) : /\ <<bind[e.parent], bind[e.child]>> \in P
                                  /\ <<a[e.parent], a[e.child]>> \in AllowedEdges
      /\ \A s \in Slots(m) :
           LET n == Cardinality(LocalParents(m, a, s)) IN
             /\ s # m.anchor => n >= RoleSpec[a[s]].min
             /\ n <= RoleSpec[a[s]].max
      /\ \A s \in Slots(m) :
           /\ GlobalRank(m, ns[bind[m.anchor]].rank, s) >= 0
           /\ ns[bind[s]].rank = GlobalRank(m, ns[bind[m.anchor]].rank, s)
  BY DEF AttachmentValid, a
<1>5. /\ \A s \in Slots(m) : bind[s] \in NodeIds(ms) /\ b[s] \in m.nodes[s].roles
      /\ \A e \in MotifEdges(m) : /\ <<bind[e.parent], bind[e.child]>> \in Q
                                  /\ <<b[e.parent], b[e.child]>> \in AllowedEdges
      /\ \A s \in Slots(m) :
           LET n == Cardinality(LocalParents(m, b, s)) IN
             /\ s # m.anchor => n >= RoleSpec[b[s]].min
             /\ n <= RoleSpec[b[s]].max
      /\ \A s \in Slots(m) :
           /\ GlobalRank(m, ms[bind[m.anchor]].rank, s) >= 0
           /\ ms[bind[s]].rank = GlobalRank(m, ms[bind[m.anchor]].rank, s)
  BY <1>1, <1>3, <1>4
<1> QED BY <1>4, <1>5 DEF AttachmentValid, b

LEMMA OccurrencesPersist ==
  ASSUME NEW ns, NEW ms, NEW es, NEW fs, NEW os,
         NodeIds(ns) \subseteq NodeIds(ms), \A n \in NodeIds(ns) : ms[n] = ns[n],
         DOMAIN es \subseteq DOMAIN fs, \A k \in DOMAIN es : fs[k] = es[k],
         OccurrencesValid(ns, es, os, Motifs)
  PROVE  OccurrencesValid(ms, fs, os, Motifs)
<1>1. Pairs(es) \subseteq Pairs(fs)
  BY DEF Pairs
<1> SUFFICES ASSUME NEW k \in DOMAIN os
             PROVE  LET m == os[k].motif
                        bind == os[k].bind
                        fk == os[k].edges
                    IN /\ m \in Motifs /\ AttachmentValid(ms, Pairs(fs), m, bind, {})
                       /\ DOMAIN fk = DOMAIN m.edges
                       /\ \A j \in DOMAIN m.edges :
                            /\ fk[j] \in DOMAIN fs
                            /\ fs[fk[j]] = [parent |-> bind[m.edges[j].parent],
                                            child |-> bind[m.edges[j].child]]
  BY DEF OccurrencesValid
<1> DEFINE m == os[k].motif
           bind == os[k].bind
           fk == os[k].edges
<1>2. /\ m \in Motifs /\ AttachmentValid(ns, Pairs(es), m, bind, {})
      /\ DOMAIN fk = DOMAIN m.edges
      /\ \A j \in DOMAIN m.edges :
           /\ fk[j] \in DOMAIN es
           /\ es[fk[j]] = [parent |-> bind[m.edges[j].parent], child |-> bind[m.edges[j].child]]
  BY DEF OccurrencesValid
<1> HIDE DEF m, bind, fk
<1>3. AttachmentValid(ms, Pairs(fs), m, bind, {})
  BY <1>1, <1>2, MotifShape, AttachmentPersists
<1>4. \A j \in DOMAIN m.edges :
        /\ fk[j] \in DOMAIN fs
        /\ fs[fk[j]] = [parent |-> bind[m.edges[j].parent], child |-> bind[m.edges[j].child]]
  BY <1>2
<1> QED BY <1>2, <1>3, <1>4 DEF m, bind, fk

(* What an attachment chooses: tables for the slots of a motif that fit    *)
(* its roles, its edges, the limits on structural parents and the ranks.   *)
Fitting(m, anchor, roles) ==
  /\ roles[m.anchor] = nodes[anchor].role
  /\ \A s \in Slots(m) : roles[s] \in m.nodes[s].roles
  /\ \A e \in MotifEdges(m) : <<roles[e.parent], roles[e.child]>> \in AllowedEdges
  /\ \A s \in Slots(m) :
       LET n == Cardinality(LocalParents(m, roles, s)) IN
         /\ s # m.anchor => n >= RoleSpec[roles[s]].min
         /\ n <= RoleSpec[roles[s]].max
  /\ \A s \in Slots(m) : GlobalRank(m, nodes[anchor].rank, s) \in 0..MaxRank

(* The structural parents of the tables after an attachment: an old table  *)
(* keeps its own, a new one has those of its slot.                         *)
LEMMA ParentsAfterAttach ==
  ASSUME NEW m \in Motifs, NEW anchor \in NodeIds(nodes), NEW roles \in [Slots(m) -> Roles],
         Fitting(m, anchor, roles), Attach(m, anchor, roles),
         AnchorsTakeNoParents, nodes \in Seq(TableType), edges \in Seq(EdgeType)
  PROVE  /\ \A n \in NodeIds(nodes) :
              StructuralParents(nodes', Pairs(edges'), n) = StructuralParents(nodes, Pairs(edges), n)
         /\ \A s \in Slots(m) \ {m.anchor} :
              Cardinality(StructuralParents(nodes', Pairs(edges'), Binding(m, anchor)[s]))
                = Cardinality(LocalParents(m, roles, s))
<1> DEFINE B == Binding(m, anchor)
<1>1. /\ nodes' = nodes \o FreshNodes(m, anchor, roles)
      /\ roles[m.anchor] = nodes[anchor].role
      /\ \A s \in Slots(m) : GlobalRank(m, nodes[anchor].rank, s) \in 0..MaxRank
  BY DEF Attach, Fitting
<1>2. /\ Len(nodes') = Len(nodes) + Len(m.nodes) - 1
      /\ \A n \in 1..Len(nodes) : nodes'[n] = nodes[n]
      /\ \A s \in Slots(m) : /\ B[s] \in 1..Len(nodes') /\ (s # m.anchor => B[s] > Len(nodes))
                             /\ nodes'[B[s]].role = roles[s]
                             /\ nodes'[B[s]].rank = GlobalRank(m, nodes[anchor].rank, s)
      /\ \A s, t \in Slots(m) : B[s] = B[t] => s = t
  BY <1>1, AttachedTables
<1>3. /\ B[m.anchor] = anchor /\ B \in [Slots(m) -> NodeIds(nodes')]
      /\ DOMAIN m.edges = 1..Len(m.edges)
      /\ \A k \in 1..Len(m.edges) : m.edges[k] \in [parent : Slots(m), child : Slots(m)]
      /\ Pairs(edges') = Pairs(edges) \cup {<<B[e.parent], B[e.child]>> : e \in MotifEdges(m)}
  BY <1>1, AttachedKeys
<1>4. /\ NodeIds(nodes) = 1..Len(nodes) /\ Len(nodes) \in Nat
      /\ Pairs(edges) \in SUBSET (NodeIds(nodes) \X NodeIds(nodes))
      /\ m.anchor \in Slots(m) /\ Slots(m) = 1..Len(m.nodes) /\ Len(m.nodes) \in Nat
  BY <1>1, LenProperties, PairsBetweenTables, MotifShape DEF NodeIds, EdgeType
<1>5. \A e \in MotifEdges(m) : e.parent \in Slots(m) /\ e.child \in Slots(m)
  BY <1>3 DEF MotifEdges
<1> HIDE DEF B
<1>6. ASSUME NEW n
      PROVE  FKParents(Pairs(edges'), n)
               = FKParents(Pairs(edges), n) \cup {B[e.parent] : e \in {x \in MotifEdges(m) : B[x.child] = n}}
  <2>1. ASSUME NEW w \in FKParents(Pairs(edges'), n)
        PROVE  w \in FKParents(Pairs(edges), n) \/ \E e \in MotifEdges(m) : B[e.child] = n /\ w = B[e.parent]
    <3>1. PICK p \in Pairs(edges') : p[2] = n /\ w = p[1]
      BY DEF FKParents
    <3>2. CASE p \in Pairs(edges)
      BY <3>1, <3>2 DEF FKParents
    <3>3. ASSUME NEW e \in MotifEdges(m), p = <<B[e.parent], B[e.child]>>
          PROVE  B[e.child] = n /\ w = B[e.parent]
      BY <3>1, <3>3
    <3> QED BY <1>3, <3>2, <3>3
  <2>2. ASSUME NEW w \in FKParents(Pairs(edges), n) PROVE w \in FKParents(Pairs(edges'), n)
    BY <1>3 DEF FKParents
  <2>3. ASSUME NEW e \in MotifEdges(m), B[e.child] = n PROVE B[e.parent] \in FKParents(Pairs(edges'), n)
    <3> DEFINE p == <<B[e.parent], B[e.child]>>
    <3>1. p \in Pairs(edges') /\ p[2] = n /\ p[1] = B[e.parent]
      BY <1>3, <2>3
    <3> HIDE DEF p
    <3> QED BY <3>1 DEF FKParents
  <2> QED BY <2>1, <2>2, <2>3
<1>7. ASSUME NEW n \in NodeIds(nodes)
      PROVE  StructuralParents(nodes', Pairs(edges'), n) = StructuralParents(nodes, Pairs(edges), n)
  <2>1. FKParents(Pairs(edges), n) \subseteq NodeIds(nodes)
    BY <1>4 DEF FKParents
  <2>2. \A u \in FKParents(Pairs(edges), n) : RolePair(nodes', <<u, n>>) = RolePair(nodes, <<u, n>>)
    BY <1>2, <1>4, <2>1 DEF RolePair
  <2>3. ASSUME NEW e \in MotifEdges(m), B[e.child] = n
        PROVE  RolePair(nodes', <<B[e.parent], n>>) \notin StructuralEdges
    <3>1. e.child = m.anchor
      BY <1>2, <1>4, <1>5, <2>3
    <3>2. roles[e.parent] = "lookup"
      BY <1>1, <1>5, <3>1 DEF Fitting, AnchorsTakeNoParents
    <3>3. RolePair(nodes', <<B[e.parent], n>>)[1] = "lookup"
      BY <1>2, <1>5, <3>2 DEF RolePair
    <3> QED BY <3>3 DEF StructuralEdges
  <2> QED BY <1>6, <2>2, <2>3 DEF StructuralParents
<1>8. ASSUME NEW s \in Slots(m) \ {m.anchor}
      PROVE  Cardinality(StructuralParents(nodes', Pairs(edges'), B[s]))
               = Cardinality(LocalParents(m, roles, s))
  <2> DEFINE L == LocalParents(m, roles, s)
  <2>1. FKParents(Pairs(edges), B[s]) = {}
    BY <1>2, <1>4 DEF FKParents
  <2>2. \A e \in MotifEdges(m) : B[e.child] = B[s] <=> e.child = s
    BY <1>2, <1>5
  <2>3. \A u \in Slots(m) : RolePair(nodes', <<B[u], B[s]>>) = <<roles[u], roles[s]>>
    BY <1>2 DEF RolePair
  <2>4. StructuralParents(nodes', Pairs(edges'), B[s]) = {B[u] : u \in L}
    <3>1. FKParents(Pairs(edges'), B[s]) = {B[e.parent] : e \in {x \in MotifEdges(m) : x.child = s}}
      BY <1>6, <2>1, <2>2
    <3>2. ASSUME NEW e \in MotifEdges(m), e.child = s
          PROVE  RolePair(nodes', <<B[e.parent], B[s]>>) \in StructuralEdges
                   <=> <<roles[e.parent], roles[e.child]>> \in StructuralEdges
      BY <1>5, <2>3, <3>2
    <3> QED BY <3>1, <3>2 DEF StructuralParents, LocalParents
  <2>5. L \subseteq Slots(m)
    BY <1>5 DEF LocalParents
  <2>6. IsFiniteSet(L)
    <3>1. 1 \in Int /\ Len(m.nodes) \in Int
      BY <1>4
    <3>2. IsFiniteSet(1..Len(m.nodes))
      BY <3>1, FS_Interval
    <3> HIDE DEF L
    <3> QED BY <1>4, <2>5, <3>2, FS_Subset
  <2>7. \A x, y \in L : B[x] = B[y] => x = y
    BY <1>2, <2>5
  <2> HIDE DEF L
  <2>8. Cardinality({B[u] : u \in L}) = Cardinality(L)
    BY <2>6, <2>7, OneToOneImage
  <2> QED BY <2>4, <2>8 DEF L
<1> QED BY <1>7, <1>8 DEF B

(* An attachment that was found to fit validates, and leaves every table   *)
(* within the limits of its role.                                          *)
LEMMA AttachStaysValid ==
  ASSUME NEW m \in Motifs, NEW anchor \in NodeIds(nodes), NEW roles \in [Slots(m) -> Roles],
         Fitting(m, anchor, roles), Attach(m, anchor, roles),
         AnchorsTakeNoParents, nodes \in Seq(TableType), edges \in Seq(EdgeType),
         RolesValid(nodes, Pairs(edges)), ForeignKeysLegal'
  PROVE  /\ RolesValid(nodes', Pairs(edges'))
         /\ AttachmentValid(nodes', Pairs(edges'), m, Binding(m, anchor), NodeIds(nodes))
         /\ AttachmentValid(nodes', Pairs(edges'), m, Binding(m, anchor), {})
<1> DEFINE B == Binding(m, anchor)
<1>1. /\ nodes' = nodes \o FreshNodes(m, anchor, roles)
      /\ roles[m.anchor] = nodes[anchor].role
      /\ \A s \in Slots(m) : GlobalRank(m, nodes[anchor].rank, s) \in 0..MaxRank
  BY DEF Attach, Fitting
<1>2. /\ nodes' \in Seq(TableType) /\ Len(nodes') = Len(nodes) + Len(m.nodes) - 1
      /\ \A n \in 1..Len(nodes) : nodes'[n] = nodes[n]
      /\ \A s \in Slots(m) : /\ B[s] \in 1..Len(nodes') /\ (s # m.anchor => B[s] > Len(nodes))
                             /\ nodes'[B[s]].role = roles[s]
                             /\ nodes'[B[s]].rank = GlobalRank(m, nodes[anchor].rank, s)
      /\ \A s, t \in Slots(m) : B[s] = B[t] => s = t
  BY <1>1, AttachedTables
<1>3. /\ B[m.anchor] = anchor /\ B \in [Slots(m) -> NodeIds(nodes')]
      /\ DOMAIN m.edges = 1..Len(m.edges)
      /\ \A k \in 1..Len(m.edges) : m.edges[k] \in [parent : Slots(m), child : Slots(m)]
      /\ Pairs(edges') = Pairs(edges) \cup {<<B[e.parent], B[e.child]>> : e \in MotifEdges(m)}
  BY <1>1, AttachedKeys
<1>4. /\ NodeIds(nodes) = 1..Len(nodes) /\ NodeIds(nodes') = 1..Len(nodes') /\ Len(nodes) \in Nat
      /\ m.anchor \in Slots(m) /\ Slots(m) = 1..Len(m.nodes) /\ Len(m.nodes) \in Nat
  BY <1>1, <1>2, LenProperties, MotifShape DEF NodeIds
<1>5. /\ \A n \in NodeIds(nodes) :
           StructuralParents(nodes', Pairs(edges'), n) = StructuralParents(nodes, Pairs(edges), n)
      /\ \A s \in Slots(m) \ {m.anchor} :
           Cardinality(StructuralParents(nodes', Pairs(edges'), B[s]))
             = Cardinality(LocalParents(m, roles, s))
  BY ParentsAfterAttach
<1>6. \A w \in NodeIds(nodes') : w \in NodeIds(nodes) \/ \E s \in Slots(m) \ {m.anchor} : w = B[s]
  <2> SUFFICES ASSUME NEW w \in 1..Len(nodes'), w > Len(nodes)
               PROVE  \E s \in Slots(m) \ {m.anchor} : w = B[s]
    BY <1>4
  <2> DEFINE k == w - Len(nodes)
             s == IF k < m.anchor THEN k ELSE k + 1
  <2>1. k \in 1..(Len(m.nodes) - 1) /\ w = Len(nodes) + k
    BY <1>2, <1>4
  <2>2. s \in Slots(m) /\ s # m.anchor /\ k = (IF s < m.anchor THEN s ELSE s - 1)
    BY <1>4, <2>1
  <2>3. B[s] = Len(nodes) + (IF s < m.anchor THEN s ELSE s - 1)
    BY <2>2 DEF Binding
  <2> QED BY <2>1, <2>2, <2>3
<1>7. DOMAIN B = Slots(m)
  BY <1>3
<1> HIDE DEF B
<1>8. \A p \in Pairs(edges') : RolePair(nodes', p) \in AllowedEdges
  BY DEF ForeignKeysLegal, KeysLegal
<1>9. \A p \in Pairs(edges) : RolePair(nodes, p) \in AllowedEdges
  BY DEF RolesValid
<1>10. \A n \in NodeIds(nodes) : WithinLimits(nodes, Pairs(edges), n)
  BY <1>9, RolesTableByTable
<1>11. ASSUME NEW n \in NodeIds(nodes') PROVE WithinLimits(nodes', Pairs(edges'), n)
  <2>1. CASE n \in NodeIds(nodes)
    BY <1>2, <1>4, <1>5, <1>10, <2>1 DEF WithinLimits
  <2>2. ASSUME NEW s \in Slots(m) \ {m.anchor}, n = B[s] PROVE WithinLimits(nodes', Pairs(edges'), n)
    <3>1. /\ Cardinality(LocalParents(m, roles, s)) >= RoleSpec[roles[s]].min
          /\ Cardinality(LocalParents(m, roles, s)) <= RoleSpec[roles[s]].max
      BY DEF Fitting
    <3>2. /\ Cardinality(LocalParents(m, roles, s)) \in Int
          /\ RoleSpec[roles[s]].min \in Int /\ RoleSpec[roles[s]].max \in Int
      <4>1. LocalParents(m, roles, s) \subseteq Slots(m)
        BY <1>3 DEF LocalParents, MotifEdges
      <4>2. IsFiniteSet(LocalParents(m, roles, s))
        <5>1. 1 \in Int /\ Len(m.nodes) \in Int
          BY <1>4
        <5>2. IsFiniteSet(1..Len(m.nodes))
          BY <5>1, FS_Interval
        <5> QED BY <1>4, <4>1, <5>2, FS_Subset
      <4>3. Cardinality(LocalParents(m, roles, s)) \in Int
        BY <4>2, FS_CardinalityType
      <4>4. roles[s] \in Roles
        BY <1>1
      <4>5. RoleSpec[roles[s]].min \in Int /\ RoleSpec[roles[s]].max \in Int
        BY <4>4 DEF RoleSpec, Roles
      <4> QED BY <4>3, <4>5
    <3>3. nodes'[n].role = roles[s]
      BY <1>2, <2>2
    <3>4. Cardinality(StructuralParents(nodes', Pairs(edges'), n)) = Cardinality(LocalParents(m, roles, s))
      BY <1>5, <2>2
    <3> QED BY <3>1, <3>2, <3>3, <3>4 DEF WithinLimits
  <2> QED BY <1>6, <2>1, <2>2
<1>12. RolesValid(nodes', Pairs(edges'))
  BY <1>8, <1>11, RolesTableByTable
<1>13. [s \in Slots(m) |-> nodes'[B[s]].role] = roles
  BY <1>1, <1>2
<1>14. nodes'[B[m.anchor]] = nodes[anchor]
  BY <1>1, <1>2, <1>3, <1>4
<1>15. /\ ValidMotif(m)
       /\ \A s \in Slots(m) \ {m.anchor} : B[s] \notin NodeIds(nodes)
       /\ \A s \in Slots(m) : B[s] \in NodeIds(nodes') /\ roles[s] \in m.nodes[s].roles
       /\ \A e \in MotifEdges(m) : /\ <<B[e.parent], B[e.child]>> \in Pairs(edges')
                                   /\ <<roles[e.parent], roles[e.child]>> \in AllowedEdges
       /\ \A s \in Slots(m) :
            LET n == Cardinality(LocalParents(m, roles, s)) IN
              /\ s # m.anchor => n >= RoleSpec[roles[s]].min
              /\ n <= RoleSpec[roles[s]].max
       /\ \A s \in Slots(m) :
            /\ GlobalRank(m, nodes'[B[m.anchor]].rank, s) >= 0
            /\ nodes'[B[s]].rank = GlobalRank(m, nodes'[B[m.anchor]].rank, s)
  <2>1. ValidMotif(m)
    BY <1>1, SamplerConstructed DEF LibraryAccepted
  <2>2. \A s \in Slots(m) \ {m.anchor} : B[s] \notin NodeIds(nodes)
    BY <1>2, <1>4
  <2>3. \A s \in Slots(m) : B[s] \in NodeIds(nodes')
    BY <1>3
  <2>4. \A s \in Slots(m) : GlobalRank(m, nodes[anchor].rank, s) >= 0
    BY <1>1, SamplerConstructed DEF ConfigAccepted
  <2> QED BY <1>2, <1>3, <1>14, <2>1, <2>2, <2>3, <2>4 DEF Fitting
<1>16. ASSUME NEW existing, existing \subseteq NodeIds(nodes)
       PROVE  AttachmentValid(nodes', Pairs(edges'), m, B, existing)
  <2>1. \A s \in Slots(m) \ {m.anchor} : B[s] \notin existing
    BY <1>15, <1>16
  <2> QED BY <1>2, <1>7, <1>13, <1>15, <2>1 DEF AttachmentValid
<1> QED BY <1>12, <1>16 DEF B

(* Tables that keep their roles keep their structural parents.             *)
LEMMA SameTablesSameParents ==
  ASSUME NEW ns, NEW ms, NEW fks, fks \subseteq NodeIds(ns) \X NodeIds(ns),
         \A n \in NodeIds(ns) : ms[n] = ns[n]
  PROVE  \A n \in NodeIds(ns) : StructuralParents(ms, fks, n) = StructuralParents(ns, fks, n)
<1> TAKE n \in NodeIds(ns)
<1>1. FKParents(fks, n) \subseteq NodeIds(ns)
  BY DEF FKParents
<1>2. \A u \in FKParents(fks, n) : RolePair(ms, <<u, n>>) = RolePair(ns, <<u, n>>)
  BY <1>1 DEF RolePair
<1> QED BY <1>2 DEF StructuralParents

(* One foreign key more is one pair more.                                  *)
LEMMA PairsAppend ==
  ASSUME NEW T, NEW es \in Seq(T), NEW e \in T
  PROVE  Pairs(Append(es, e)) = Pairs(es) \cup {<<e.parent, e.child>>}
<1> DEFINE f == Append(es, e)
<1>1. Len(es) \in Nat /\ DOMAIN es = 1..Len(es)
  BY LenProperties
<1>2. /\ DOMAIN f = 1..(Len(es) + 1) /\ f[Len(es) + 1] = e
      /\ \A k \in 1..Len(es) : f[k] = es[k]
  BY <1>1
<1> HIDE DEF f
<1>3. DOMAIN f = DOMAIN es \cup {Len(es) + 1}
  BY <1>1, <1>2
<1>4. /\ \A k \in DOMAIN es : k \in DOMAIN f /\ f[k] = es[k]
      /\ \A k \in DOMAIN f : k \in DOMAIN es \/ f[k] = e
      /\ Len(es) + 1 \in DOMAIN f
  BY <1>1, <1>2, <1>3
<1>5. ASSUME NEW p \in Pairs(f) PROVE p \in Pairs(es) \cup {<<e.parent, e.child>>}
  BY <1>4 DEF Pairs
<1>6. ASSUME NEW p \in Pairs(es) PROVE p \in Pairs(f)
  BY <1>4 DEF Pairs
<1>7. <<e.parent, e.child>> \in Pairs(f)
  BY <1>2, <1>4 DEF Pairs
<1> QED BY <1>5, <1>6, <1>7 DEF f

(* The structural parents of every table of a typed schema are finite in   *)
(* number.                                                                 *)
LEMMA ParentsFinite ==
  ASSUME NEW ns, NEW N \in Nat, NodeIds(ns) = 1..N,
         NEW fks, fks \subseteq NodeIds(ns) \X NodeIds(ns), NEW n
  PROVE  /\ StructuralParents(ns, fks, n) \subseteq NodeIds(ns)
         /\ IsFiniteSet(StructuralParents(ns, fks, n))
<1>1. StructuralParents(ns, fks, n) \subseteq NodeIds(ns)
  BY DEF StructuralParents, FKParents
<1>2. IsFiniteSet(1..N)
  <2>1. 1 \in Int /\ N \in Int
    OBVIOUS
  <2> QED BY <2>1, FS_Interval
<1>3. IsFiniteSet(StructuralParents(ns, fks, n))
  BY <1>1, <1>2, FS_Subset
<1> QED BY <1>1, <1>3

(* The schema starts with the base motif: an entity, one of its events and *)
(* the foreign key between them.                                           *)
Based ==
  /\ Len(nodes) >= 2 /\ nodes[1].role = "entity" /\ nodes[2].role = "event"
  /\ Len(edges) >= 1 /\ edges[1].parent = 1 /\ edges[1].child = 2

(* Every state of sample() holds a schema that validation would accept if  *)
(* it stopped there, within the drawn table count; the cache of the scan   *)
(* is the structural parents of the schema as it is.                       *)
ValidInv ==
  /\ ConnectedInv
  /\ phase # "failed"
  /\ RolesValid(nodes, Pairs(edges))
  /\ \E S : occs \in Seq(S)
  /\ OccurrencesValid(nodes, edges, occs, Motifs)
  /\ Len(nodes) <= target
  /\ phase # "start" => Based
  /\ phase \in {"extra", "validate", "done"} => Len(nodes) = target
  /\ phase = "extra" =>
       /\ MaxExtraEdges # 0
       /\ parents = [n \in NodeIds(nodes) |-> StructuralParents(nodes, Pairs(edges), n)]

(* The drawn table count is one the configuration allows.                  *)
LEMMA CountInRange == SafeInv => target \in Nat /\ target >= 2 /\ target <= MaxTables /\ MaxTables \in Nat
<1> SUFFICES ASSUME SafeInv PROVE target \in MinTables..MaxTables
  BY SamplerConstructed DEF ConfigAccepted
<1>1. target \in PossibleCounts
  BY DEF SafeInv, TypeOK
<1> QED BY <1>1, SamplerConstructed DEF PossibleCounts, ConfigAccepted

LEMMA InitValid == Init => ValidInv
<1> SUFFICES ASSUME Init PROVE ValidInv
  OBVIOUS
<1>1. SafeInv
  BY InitSafe
<1>2. /\ nodes = <<[role |-> "entity", rank |-> 0]>> /\ edges = <<>> /\ occs = <<>>
      /\ phase = "start"
  BY DEF Init
<1>3. NodeIds(nodes) = {1} /\ Pairs(edges) = {} /\ Len(nodes) = 1 /\ nodes[1].role = "entity"
  BY <1>2 DEF NodeIds, Pairs
<1>4. ConnectedInv
  BY <1>1, <1>3 DEF ConnectedInv, Connected
<1>5. RolesValid(nodes, Pairs(edges))
  <2>1. StructuralParents(nodes, Pairs(edges), 1) = {}
    BY <1>3 DEF StructuralParents, FKParents
  <2>2. Cardinality(StructuralParents(nodes, Pairs(edges), 1)) = 0
    BY <2>1, FS_EmptySet
  <2>3. WithinLimits(nodes, Pairs(edges), 1)
    BY <1>3, <2>2 DEF WithinLimits, RoleSpec, Roles
  <2> QED BY <1>3, <2>3, RolesTableByTable
<1>6. OccurrencesValid(nodes, edges, occs, Motifs)
  BY <1>2 DEF OccurrencesValid
<1>7. occs \in Seq({})
  BY <1>2
<1>8. Len(nodes) <= target
  BY <1>1, <1>3, CountInRange
<1> QED BY <1>2, <1>4, <1>5, <1>6, <1>7, <1>8 DEF ValidInv

(* Both ways a motif is attached choose one that fits what is left.        *)
LEMMA AttachmentsFit ==
  ASSUME SafeInv, AttachBase \/ AttachMotif
  PROVE  \E m \in Motifs, anchor \in NodeIds(nodes) : \E roles \in [Slots(m) -> Roles] :
           /\ Fitting(m, anchor, roles) /\ Attach(m, anchor, roles)
           /\ Len(m.nodes) - 1 <= target - Len(nodes)
           /\ phase = "start" => m = BaseMotif /\ anchor = 1 /\ roles = <<"entity", "event">>
<1>1. CASE AttachBase
  <2> DEFINE roles == <<"entity", "event">>
  <2>1. /\ Attach(BaseMotif, 1, roles) /\ BaseMotif \in Motifs
        /\ MaxRank \in Nat /\ MaxRank >= 1
    BY <1>1, SamplerConstructed DEF AttachBase, ConfigAccepted
  <2>2. /\ Slots(BaseMotif) = 1..2 /\ BaseMotif.anchor = 1 /\ Len(BaseMotif.nodes) = 2
        /\ MotifEdges(BaseMotif) = {[parent |-> 1, child |-> 2]}
        /\ BaseMotif.nodes[1].offset = 0 /\ BaseMotif.nodes[2].offset = 1
        /\ BaseMotif.nodes[1].roles = {"entity"} /\ BaseMotif.nodes[2].roles = {"event"}
    BY DEF Slots, BaseMotif, EntityEvent, MotifEdges, Node, Edge
  <2>3. /\ 1 \in NodeIds(nodes) /\ nodes[1].role = "entity" /\ nodes[1].rank = 0
        /\ Len(nodes) = 1
    BY <1>1 DEF NodeIds, SafeInv, AttachBase
  <2>4. roles \in [Slots(BaseMotif) -> Roles] /\ roles[1] = "entity" /\ roles[2] = "event"
    BY <2>2 DEF Roles
  <2>5. \A s \in Slots(BaseMotif) : GlobalRank(BaseMotif, nodes[1].rank, s) \in 0..MaxRank
    BY <2>1, <2>2, <2>3 DEF GlobalRank
  <2> HIDE DEF roles
  <2>6. \A e \in MotifEdges(BaseMotif) :
          /\ e.parent = 1 /\ e.child = 2
          /\ <<roles[e.parent], roles[e.child]>> \in AllowedEdges
          /\ <<roles[e.parent], roles[e.child]>> \in StructuralEdges
    BY <2>2, <2>4 DEF AllowedEdges, StructuralEdges
  <2>7. LocalParents(BaseMotif, roles, 1) = {} /\ LocalParents(BaseMotif, roles, 2) = {1}
    <3>1. \E e \in MotifEdges(BaseMotif) : TRUE
      BY <2>2
    <3>2. LocalParents(BaseMotif, roles, 1) = {}
      <4>1. {x \in MotifEdges(BaseMotif) :
               x.child = 1 /\ <<roles[x.parent], roles[x.child]>> \in StructuralEdges} = {}
        <5>1. ASSUME NEW x \in MotifEdges(BaseMotif) PROVE x.child # 1
          <6>1. x = [parent |-> 1, child |-> 2]
            BY <2>2
          <6> QED BY <6>1
        <5> QED BY <5>1
      <4> QED BY <4>1 DEF LocalParents
    <3>3. ASSUME NEW x PROVE x \in LocalParents(BaseMotif, roles, 2) <=> x = 1
      BY <2>6, <3>1 DEF LocalParents
    <3> QED BY <3>2, <3>3
  <2>8. /\ Cardinality(LocalParents(BaseMotif, roles, 1)) = 0
        /\ Cardinality(LocalParents(BaseMotif, roles, 2)) = 1
    BY <2>7, FS_EmptySet, FS_Singleton
  <2>9. Fitting(BaseMotif, 1, roles)
    BY <2>2, <2>3, <2>4, <2>5, <2>6, <2>8 DEF Fitting, RoleSpec, Roles
  <2>10. Len(BaseMotif.nodes) - 1 <= target - Len(nodes)
    BY <2>2, <2>3, CountInRange
  <2> QED BY <2>1, <2>3, <2>4, <2>9, <2>10 DEF roles
<1>2. CASE AttachMotif
  <2>1. PICK o \in FeasibleOptions : Attach(o.motif, o.anchor, o.roles)
    BY <1>2 DEF AttachMotif
  <2>2. PICK m \in Motifs, anchor \in NodeIds(nodes) :
          /\ Fits(m, anchor)
          /\ \E a \in RoleAssignments(m, nodes[anchor].role) :
               o = [motif |-> m, anchor |-> anchor, roles |-> a]
    BY DEF FeasibleOptions
  <2>3. PICK a \in RoleAssignments(m, nodes[anchor].role) :
          o = [motif |-> m, anchor |-> anchor, roles |-> a]
    BY <2>2
  <2>4. Attach(m, anchor, a)
    BY <2>1, <2>3
  <2>5. a \in [Slots(m) -> Roles] /\ m.anchor \in Slots(m)
    BY MotifShape DEF RoleAssignments, CompleteAssignments
  <2>6. /\ nodes[anchor].role \in m.nodes[m.anchor].roles
        /\ Len(m.nodes) - 1 <= target - Len(nodes)
        /\ \A s \in Slots(m) : GlobalRank(m, nodes[anchor].rank, s) \in 0..MaxRank
    BY <2>2 DEF Fits
  <2>7. Fitting(m, anchor, a)
    BY <2>5, <2>6 DEF Fitting, RoleAssignments, CompleteAssignments
  <2>8. phase = "grow"
    BY <1>2 DEF AttachMotif, Growing
  <2> QED BY <2>4, <2>5, <2>6, <2>7, <2>8
<1> QED BY <1>1, <1>2

(* A step that only appends keeps the base of the schema.                  *)
LEMMA BasePersists ==
  ASSUME Based, nodes \in Seq(TableType), edges \in Seq(EdgeType),
         Len(nodes') \in Nat, Len(edges') \in Nat,
         Len(nodes) <= Len(nodes'), \A n \in NodeIds(nodes) : nodes'[n] = nodes[n],
         Len(edges) <= Len(edges'), \A k \in DOMAIN edges : edges'[k] = edges[k]
  PROVE  Based'
<1>1. /\ NodeIds(nodes) = 1..Len(nodes) /\ Len(nodes) \in Nat
      /\ DOMAIN edges = 1..Len(edges) /\ Len(edges) \in Nat
  BY LenProperties DEF NodeIds
<1>2. 1 \in NodeIds(nodes) /\ 2 \in NodeIds(nodes) /\ 1 \in DOMAIN edges
  BY <1>1 DEF Based
<1> QED BY <1>1, <1>2 DEF Based

(* The attachment of a motif.                                              *)
LEMMA AttachValid ==
  ASSUME AnchorsTakeNoParents, ValidInv, AttachBase \/ AttachMotif
  PROVE  ValidInv'
<1>1. /\ SafeInv /\ nodes \in Seq(TableType) /\ edges \in Seq(EdgeType)
      /\ RolesValid(nodes, Pairs(edges)) /\ OccurrencesValid(nodes, edges, occs, Motifs)
      /\ phase # "start" => Based
  BY DEF ValidInv, ConnectedInv, SafeInv, TypeOK
<1>2. ConnectedInv' /\ SafeInv' /\ ForeignKeysLegal' /\ nodes' \in Seq(TableType)
  <2>1. ConnectedInv'
    BY ConnectedStep DEF ValidInv, Next
  <2> QED BY <2>1 DEF ConnectedInv, SafeInv, TypeOK
<1>3. PICK m \in Motifs, anchor \in NodeIds(nodes) : \E roles \in [Slots(m) -> Roles] :
           /\ Fitting(m, anchor, roles) /\ Attach(m, anchor, roles)
           /\ Len(m.nodes) - 1 <= target - Len(nodes)
           /\ phase = "start" => m = BaseMotif /\ anchor = 1 /\ roles = <<"entity", "event">>
  BY <1>1, AttachmentsFit
<1>4. PICK roles \in [Slots(m) -> Roles] :
           /\ Fitting(m, anchor, roles) /\ Attach(m, anchor, roles)
           /\ Len(m.nodes) - 1 <= target - Len(nodes)
           /\ phase = "start" => m = BaseMotif /\ anchor = 1 /\ roles = <<"entity", "event">>
  BY <1>3
<1> DEFINE B == Binding(m, anchor)
           used == [k \in 1..Len(m.edges) |-> Len(edges) + k]
           occ == [motif |-> m, bind |-> B, edges |-> used]
<1>5. /\ RolesValid(nodes', Pairs(edges'))
      /\ AttachmentValid(nodes', Pairs(edges'), m, B, NodeIds(nodes))
      /\ AttachmentValid(nodes', Pairs(edges'), m, B, {})
  BY <1>1, <1>2, <1>4, AttachStaysValid
<1>6. /\ roles[m.anchor] = nodes[anchor].role
      /\ \A s \in Slots(m) : GlobalRank(m, nodes[anchor].rank, s) \in 0..MaxRank
      /\ nodes' = nodes \o FreshNodes(m, anchor, roles)
      /\ occs' = Append(occs, occ)
      /\ phase' = IF AttachmentValid(nodes', Pairs(edges'), m, B, NodeIds(nodes))
                  THEN "grow" ELSE "failed"
  BY <1>4 DEF Fitting, Attach
<1>7. /\ Len(nodes') = Len(nodes) + Len(m.nodes) - 1
      /\ \A n \in 1..Len(nodes) : nodes'[n] = nodes[n]
      /\ \A s \in Slots(m) : /\ B[s] \in 1..Len(nodes') /\ (s # m.anchor => B[s] > Len(nodes))
                             /\ nodes'[B[s]].role = roles[s]
                             /\ nodes'[B[s]].rank = GlobalRank(m, nodes[anchor].rank, s)
  BY <1>1, <1>6, AttachedTables
<1>8. /\ B[m.anchor] = anchor
      /\ DOMAIN edges' = 1..Len(edges') /\ Len(edges') = Len(edges) + Len(m.edges)
      /\ DOMAIN edges = 1..Len(edges) /\ Len(edges) \in Nat
      /\ DOMAIN m.edges = 1..Len(m.edges) /\ Len(m.edges) \in Nat
      /\ \A k \in 1..Len(edges) : edges'[k] = edges[k]
      /\ \A k \in 1..Len(m.edges) :
           edges'[Len(edges) + k] = [parent |-> B[m.edges[k].parent], child |-> B[m.edges[k].child]]
  BY <1>1, <1>4, <1>6, AttachedKeys
<1>9. /\ NodeIds(nodes) = 1..Len(nodes) /\ NodeIds(nodes') = 1..Len(nodes')
      /\ Len(nodes) \in Nat /\ Len(nodes') \in Nat /\ Len(m.nodes) \in Nat
      /\ Slots(m) = 1..Len(m.nodes) /\ m.anchor \in Slots(m)
  BY <1>1, <1>2, LenProperties, MotifShape DEF NodeIds
<1>10. Len(nodes) <= Len(nodes') /\ Len(nodes') <= target
  <2>1. Len(m.nodes) >= 1
    BY <1>9
  <2>2. target \in Nat
    BY <1>1, CountInRange
  <2> QED BY <1>4, <1>7, <1>9, <2>1, <2>2
<1>11. phase' = "grow" /\ UNCHANGED <<target, parents>>
  BY <1>5, <1>6 DEF AttachBase, AttachMotif, scan
<1> HIDE DEF B
<1>12. Based'
  <2>1. CASE phase # "start"
    <3>1. DOMAIN edges = 1..Len(edges) /\ Len(edges) <= Len(edges') /\ Len(edges') \in Nat
      BY <1>8
    <3> QED BY <1>1, <1>7, <1>8, <1>9, <1>10, <2>1, <3>1, BasePersists
  <2>2. CASE phase = "start"
    <3>1. m = BaseMotif /\ anchor = 1 /\ roles = <<"entity", "event">>
      BY <1>4, <2>2
    <3>2. Len(m.nodes) = 2 /\ m.anchor = 1 /\ Len(m.edges) = 1 /\ m.edges[1] = [parent |-> 1, child |-> 2]
      BY <3>1 DEF BaseMotif, EntityEvent, Edge
    <3>3. Len(nodes) = 1 /\ nodes[1].role = "entity" /\ Len(edges) = 0
      BY <1>1, <2>2 DEF SafeInv
    <3>4. B[1] = 1 /\ B[2] = 2 /\ nodes'[2].role = "event" /\ Len(nodes') = 2
      <4>1. 2 \in Slots(m) /\ 2 # m.anchor
        BY <1>9, <3>2
      <4>2. B[2] \in 1..2 /\ B[2] > 1
        BY <1>7, <1>9, <3>2, <3>3, <4>1
      <4>3. B[2] = 2
        BY <4>2
      <4>4. roles[2] = "event"
        BY <3>1
      <4>5. B[1] = 1 /\ Len(nodes') = 2
        BY <1>7, <1>8, <3>1, <3>2, <3>3
      <4> QED BY <1>7, <4>1, <4>3, <4>4, <4>5
    <3>5. nodes'[1] = nodes[1]
      BY <1>7, <3>3
    <3>6. Len(edges') = 1 /\ edges'[1] = [parent |-> B[m.edges[1].parent], child |-> B[m.edges[1].child]]
      BY <1>8, <3>2, <3>3
    <3>7. m.edges[1].parent = 1 /\ m.edges[1].child = 2
      BY <3>2
    <3>8. edges'[1].parent = 1 /\ edges'[1].child = 2
      BY <3>4, <3>6, <3>7
    <3> QED BY <3>3, <3>4, <3>5, <3>6, <3>8 DEF Based
  <2> QED BY <2>1, <2>2
<1>13. PICK S : occs \in Seq(S)
  BY DEF ValidInv
<1> HIDE DEF used
<1>14. occ.motif = m /\ occ.bind = B /\ occ.edges = used
  OBVIOUS
<1> HIDE DEF occ
<1>15. /\ DOMAIN occs = 1..Len(occs) /\ Len(occs) \in Nat
       /\ DOMAIN occs' = 1..(Len(occs) + 1) /\ occs'[Len(occs) + 1] = occ
       /\ \A k \in 1..Len(occs) : occs'[k] = occs[k]
       /\ occs' \in Seq(S \cup {occ})
  <2>1. DOMAIN occs = 1..Len(occs) /\ Len(occs) \in Nat /\ \A k \in 1..Len(occs) : occs[k] \in S
    BY <1>13, LenProperties, ElementOfSeq
  <2>2. occs \in Seq(S \cup {occ})
    BY <1>13, <2>1
  <2> QED BY <1>6, <2>1, <2>2
<1>16. OccurrencesValid(nodes', edges', occs', Motifs)
  <2>1. OccurrencesValid(nodes', edges', occs, Motifs)
    <3>1. NodeIds(nodes) \subseteq NodeIds(nodes') /\ \A n \in NodeIds(nodes) : nodes'[n] = nodes[n]
      BY <1>7, <1>9, <1>10
    <3>2. DOMAIN edges \subseteq DOMAIN edges' /\ \A k \in DOMAIN edges : edges'[k] = edges[k]
      BY <1>8
    <3> QED BY <1>1, <3>1, <3>2, OccurrencesPersist
  <2>2. /\ DOMAIN used = DOMAIN m.edges
        /\ \A j \in DOMAIN m.edges :
             /\ used[j] \in DOMAIN edges'
             /\ edges'[used[j]] = [parent |-> B[m.edges[j].parent], child |-> B[m.edges[j].child]]
    BY <1>8 DEF used
  <2>3. \A k \in DOMAIN occs' : (k \in DOMAIN occs /\ occs'[k] = occs[k]) \/ occs'[k] = occ
    BY <1>15
  <2>4. AttachmentValid(nodes', Pairs(edges'), m, B, {})
    BY <1>5 DEF B
  <2> QED BY <1>14, <2>1, <2>2, <2>3, <2>4 DEF OccurrencesValid
<1> QED
  BY <1>2, <1>5, <1>10, <1>11, <1>12, <1>15, <1>16 DEF ValidInv

(* The attachment of a background table.                                   *)
LEMMA BackgroundValid ==
  ASSUME ValidInv, AttachBackground
  PROVE  ValidInv'
<1>1. /\ SafeInv /\ nodes \in Seq(TableType) /\ edges \in Seq(EdgeType)
      /\ RolesValid(nodes, Pairs(edges)) /\ OccurrencesValid(nodes, edges, occs, Motifs)
  BY DEF ValidInv, ConnectedInv, SafeInv, TypeOK
<1>2. ConnectedInv' /\ ForeignKeysLegal' /\ nodes' \in Seq(TableType) /\ edges' \in Seq(EdgeType')
  <2>1. ConnectedInv'
    BY ConnectedStep DEF ValidInv, Next
  <2> QED BY <2>1 DEF ConnectedInv, SafeInv, TypeOK
<1>3. PICK o \in BackgroundOptions :
        /\ nodes' = Append(nodes, [role |-> o.role, rank |-> nodes[o.parent].rank + 1])
        /\ edges' = Append(edges, [parent |-> o.parent, child |-> Len(nodes) + 1])
  BY DEF AttachBackground
<1> DEFINE t == [role |-> o.role, rank |-> nodes[o.parent].rank + 1]
           e == [parent |-> o.parent, child |-> Len(nodes) + 1]
           v == Len(nodes) + 1
           pair == <<nodes[o.parent].role, o.role>>
           count == IF pair \in StructuralEdges THEN 1 ELSE 0
<1>4. /\ o.parent \in NodeIds(nodes) /\ o.role \in Roles
      /\ RoleSpec[o.role].min <= count /\ count <= RoleSpec[o.role].max
  BY DEF BackgroundOptions
<1>5. /\ NodeIds(nodes) = 1..Len(nodes) /\ Len(nodes) \in Nat
      /\ DOMAIN edges = 1..Len(edges) /\ Len(edges) \in Nat
  BY <1>1, LenProperties DEF NodeIds
<1>6. t.role = o.role /\ e.parent = o.parent /\ e.child = v
  OBVIOUS
<1> HIDE DEF t, e
<1>7. /\ Len(nodes') = v /\ NodeIds(nodes') = 1..v /\ nodes'[v] = t
      /\ \A n \in 1..Len(nodes) : nodes'[n] = nodes[n]
  <2>1. Len(nodes') = v
    BY <1>1, <1>3
  <2>2. NodeIds(nodes') = 1..v
    BY <1>2, <2>1, LenProperties DEF NodeIds
  <2> QED BY <1>1, <1>3, <1>5, <2>1, <2>2 DEF t
<1>8. /\ Len(edges') = Len(edges) + 1 /\ DOMAIN edges' = 1..(Len(edges) + 1)
      /\ \A k \in 1..Len(edges) : edges'[k] = edges[k]
  BY <1>3, <1>5
<1>9. Pairs(edges') = Pairs(edges) \cup {<<o.parent, v>>}
  <2>1. /\ edges' = Append(edges, e)
    BY <1>3 DEF e
  <2>2. edges \in Seq(EdgeType \cup {e})
    <3>1. \A k \in 1..Len(edges) : edges[k] \in EdgeType
      BY <1>1, ElementOfSeq
    <3> QED BY <1>1, <3>1
  <2>3. Pairs(Append(edges, e)) = Pairs(edges) \cup {<<e.parent, e.child>>}
    <3>1. e \in EdgeType \cup {e}
      OBVIOUS
    <3> QED BY <2>2, <3>1, PairsAppend
  <2> QED BY <1>6, <2>1, <2>3
<1>10. Pairs(edges) \in SUBSET (NodeIds(nodes) \X NodeIds(nodes))
  BY <1>1, PairsBetweenTables DEF EdgeType
<1>11. \A n \in NodeIds(nodes) :
         StructuralParents(nodes', Pairs(edges), n) = StructuralParents(nodes, Pairs(edges), n)
  BY <1>5, <1>7, <1>10, SameTablesSameParents
<1>12. RolePair(nodes', <<o.parent, v>>) = pair
  BY <1>4, <1>5, <1>6, <1>7 DEF RolePair
<1>13. \A n : StructuralParents(nodes', Pairs(edges'), n)
                = StructuralParents(nodes', Pairs(edges), n)
                    \cup (IF v = n /\ pair \in StructuralEdges THEN {o.parent} ELSE {})
  BY <1>9, <1>12, ParentsAfterKey
<1>14. \A p \in Pairs(edges') : RolePair(nodes', p) \in AllowedEdges
  BY <1>2 DEF ForeignKeysLegal, KeysLegal
<1>15. \A n \in NodeIds(nodes) : WithinLimits(nodes, Pairs(edges), n)
  <2>1. \A p \in Pairs(edges) : RolePair(nodes, p) \in AllowedEdges
    BY <1>1 DEF RolesValid
  <2> QED BY <1>1, <2>1, RolesTableByTable
<1>16. ASSUME NEW n \in NodeIds(nodes') PROVE WithinLimits(nodes', Pairs(edges'), n)
  <2>1. CASE n \in NodeIds(nodes)
    <3>1. v # n
      BY <1>5, <2>1
    <3>2. StructuralParents(nodes', Pairs(edges'), n) = StructuralParents(nodes, Pairs(edges), n)
      BY <1>11, <1>13, <2>1, <3>1
    <3>3. nodes'[n] = nodes[n]
      BY <1>5, <1>7, <2>1
    <3> QED BY <1>15, <2>1, <3>2, <3>3 DEF WithinLimits
  <2>2. CASE n = v
    <3>1. StructuralParents(nodes', Pairs(edges), v) = {}
      <4>1. v \notin NodeIds(nodes)
        BY <1>5
      <4> QED BY <1>10, <4>1 DEF StructuralParents, FKParents
    <3>2. StructuralParents(nodes', Pairs(edges'), v) = IF pair \in StructuralEdges THEN {o.parent} ELSE {}
      BY <1>13, <3>1
    <3>3. Cardinality(StructuralParents(nodes', Pairs(edges'), v)) = count
      BY <3>2, FS_EmptySet, FS_Singleton
    <3>4. nodes'[n].role = o.role
      BY <1>6, <1>7, <2>2
    <3> QED BY <1>4, <2>2, <3>3, <3>4 DEF WithinLimits
  <2>3. n \in NodeIds(nodes) \/ n = v
    BY <1>5, <1>7
  <2> QED BY <2>1, <2>2, <2>3
<1>17. RolesValid(nodes', Pairs(edges'))
  BY <1>14, <1>16, RolesTableByTable
<1>18. phase = "grow" /\ Len(nodes) < target /\ UNCHANGED <<phase, target, occs, parents>>
  BY DEF AttachBackground, Growing, scan
<1>19. OccurrencesValid(nodes', edges', occs', Motifs)
  <2>1. NodeIds(nodes) \subseteq NodeIds(nodes') /\ \A n \in NodeIds(nodes) : nodes'[n] = nodes[n]
    BY <1>5, <1>7
  <2>2. DOMAIN edges \subseteq DOMAIN edges' /\ \A k \in DOMAIN edges : edges'[k] = edges[k]
    BY <1>5, <1>8
  <2> QED BY <1>1, <1>18, <2>1, <2>2, OccurrencesPersist
<1>20. Based'
  <2>1. Based
    BY <1>18 DEF ValidInv
  <2> QED BY <1>1, <1>5, <1>7, <1>8, <2>1, BasePersists
<1>21. Len(nodes') <= target'
  <2>1. target \in Nat
    BY <1>1, CountInRange
  <2> QED BY <1>5, <1>7, <1>18, <2>1
<1>22. \E S : occs' \in Seq(S)
  BY <1>18 DEF ValidInv
<1> QED
  BY <1>2, <1>17, <1>18, <1>19, <1>20, <1>21, <1>22 DEF ValidInv

(* The steps that leave the schema alone.                                  *)
LEMMA KeptValid ==
  ASSUME ValidInv, ConnectedInv', UNCHANGED <<target, nodes, edges, occs>>, phase' # "failed",
         phase = "start" => phase' = "start",
         phase' \in {"extra", "validate", "done"} => Len(nodes) = target,
         phase' = "extra" =>
           /\ MaxExtraEdges # 0
           /\ parents' = [n \in NodeIds(nodes) |-> StructuralParents(nodes, Pairs(edges), n)]
  PROVE  ValidInv'
<1>1. /\ RolesValid(nodes', Pairs(edges')) /\ OccurrencesValid(nodes', edges', occs', Motifs)
      /\ Len(nodes') <= target' /\ \E S : occs' \in Seq(S)
  BY DEF ValidInv
<1>2. phase' # "start" => Based'
  <2>1. phase' # "start" => Based
    BY DEF ValidInv
  <2>2. Based => Based'
    BY DEF Based
  <2> QED BY <2>1, <2>2
<1>3. phase' = "extra" =>
        parents' = [n \in NodeIds(nodes') |-> StructuralParents(nodes', Pairs(edges'), n)]
  OBVIOUS
<1> QED BY <1>1, <1>2, <1>3 DEF ValidInv

LEMMA StartExtraValid ==
  ASSUME ValidInv, StartExtraEdges
  PROVE  ValidInv'
<1>1. ConnectedInv'
  BY ConnectedStep DEF ValidInv, Next
<1>2. UNCHANGED <<target, nodes, edges, occs>> /\ phase = "grow" /\ Len(nodes) >= target
  BY DEF StartExtraEdges, graph
<1>3. Len(nodes) = target
  <2>1. /\ nodes \in Seq(TableType) /\ target \in Nat /\ Len(nodes) <= target
    BY CountInRange DEF ValidInv, ConnectedInv, SafeInv, TypeOK
  <2> QED BY <1>2, <2>1, LenProperties
<1>4. \/ MaxExtraEdges = 0 /\ phase' = "validate"
      \/ /\ MaxExtraEdges # 0 /\ phase' = "extra"
         /\ parents' = [n \in NodeIds(nodes) |-> StructuralParents(nodes, Pairs(edges), n)]
  BY DEF StartExtraEdges
<1> QED BY <1>1, <1>2, <1>3, <1>4, KeptValid

LEMMA PassCandidateValid ==
  ASSUME ValidInv, SkipCandidate \/ RejectCandidate
  PROVE  ValidInv'
<1>1. ConnectedInv'
  BY ConnectedStep DEF ValidInv, Next
<1>2. UNCHANGED <<phase, target, nodes, edges, occs, parents>> /\ phase = "extra"
  BY DEF SkipCandidate, RejectCandidate, Scanning, graph
<1>3. /\ Len(nodes) = target /\ MaxExtraEdges # 0
      /\ parents = [n \in NodeIds(nodes) |-> StructuralParents(nodes, Pairs(edges), n)]
  BY <1>2 DEF ValidInv
<1> QED BY <1>1, <1>2, <1>3, KeptValid

(* The foreign key the scan adds: the cache tells how many structural      *)
(* parents its child has, and is kept up to date.                          *)
LEMMA AddValid ==
  ASSUME ValidInv, AddExtraEdge
  PROVE  ValidInv'
<1>1. /\ SafeInv /\ nodes \in Seq(TableType) /\ edges \in Seq(EdgeType)
      /\ RolesValid(nodes, Pairs(edges)) /\ OccurrencesValid(nodes, edges, occs, Motifs)
      /\ candidates \subseteq NodeIds(nodes) \X NodeIds(nodes)
  BY DEF ValidInv, ConnectedInv, SafeInv, TypeOK
<1>2. ConnectedInv' /\ ForeignKeysLegal'
  <2>1. ConnectedInv'
    BY ConnectedStep DEF ValidInv, Next
  <2> QED BY <2>1 DEF ConnectedInv, SafeInv, TypeOK
<1>3. UNCHANGED <<phase, target, nodes, occs>> /\ phase = "extra"
  BY DEF AddExtraEdge, Scanning
<1>4. PICK p \in candidates :
        /\ RoomFor(parents, p)
        /\ edges' = Append(edges, [parent |-> p[1], child |-> p[2]])
        /\ parents' = IF RolePair(nodes, p) \in StructuralEdges
                      THEN [parents EXCEPT ![p[2]] = @ \cup {p[1]}] ELSE parents
  BY DEF AddExtraEdge
<1>5. p \in NodeIds(nodes) \X NodeIds(nodes) /\ p = <<p[1], p[2]>>
  BY <1>1
<1>6. /\ Len(nodes) = target /\ MaxExtraEdges # 0
      /\ parents = [n \in NodeIds(nodes) |-> StructuralParents(nodes, Pairs(edges), n)]
  BY <1>3 DEF ValidInv
<1>7. /\ NodeIds(nodes) = 1..Len(nodes) /\ Len(nodes) \in Nat
      /\ DOMAIN edges = 1..Len(edges) /\ Len(edges) \in Nat
  BY <1>1, LenProperties DEF NodeIds
<1> DEFINE e == [parent |-> p[1], child |-> p[2]]
           P == Pairs(edges)
           new(n) == IF p[2] = n /\ RolePair(nodes, p) \in StructuralEdges THEN {p[1]} ELSE {}
<1>8. e \in EdgeType /\ e.parent = p[1] /\ e.child = p[2]
  BY <1>5 DEF EdgeType
<1>9. Pairs(edges') = P \cup {p}
  <2>1. edges' = Append(edges, e)
    BY <1>4
  <2> HIDE DEF e
  <2>2. Pairs(Append(edges, e)) = P \cup {<<e.parent, e.child>>}
    BY <1>1, <1>8, PairsAppend
  <2> QED BY <1>5, <1>8, <2>1, <2>2
<1>10. /\ Len(edges') = Len(edges) + 1 /\ DOMAIN edges' = 1..(Len(edges) + 1)
       /\ \A k \in 1..Len(edges) : edges'[k] = edges[k]
  BY <1>4, <1>7
<1>11. ASSUME NEW n
       PROVE  StructuralParents(nodes, Pairs(edges'), n) = StructuralParents(nodes, P, n) \cup new(n)
  <2> HIDE DEF P
  <2>1. StructuralParents(nodes, P \cup {<<p[1], p[2]>>}, n)
          = StructuralParents(nodes, P, n)
              \cup (IF p[2] = n /\ RolePair(nodes, <<p[1], p[2]>>) \in StructuralEdges THEN {p[1]} ELSE {})
    BY ParentsAfterKey
  <2> QED BY <1>5, <1>9, <2>1
<1>12. \A q \in Pairs(edges') : RolePair(nodes, q) \in AllowedEdges
  BY <1>2, <1>3 DEF ForeignKeysLegal, KeysLegal
<1>13. \A n \in NodeIds(nodes) : WithinLimits(nodes, P, n)
  <2>1. \A q \in P : RolePair(nodes, q) \in AllowedEdges
    BY <1>1 DEF RolesValid
  <2> QED BY <1>1, <2>1, RolesTableByTable
<1>14. /\ P \subseteq NodeIds(nodes) \X NodeIds(nodes)
       /\ Pairs(edges') \subseteq NodeIds(nodes) \X NodeIds(nodes)
  <2>1. P \subseteq NodeIds(nodes) \X NodeIds(nodes)
    BY <1>1, PairsBetweenTables DEF EdgeType
  <2> QED BY <1>5, <1>9, <2>1
<1> HIDE DEF P
<1>15. ASSUME NEW n \in NodeIds(nodes) PROVE WithinLimits(nodes, Pairs(edges'), n)
  <2>1. CASE p[2] = n /\ RolePair(nodes, p) \in StructuralEdges
    <3> DEFINE old == StructuralParents(nodes, P, n)
               now == StructuralParents(nodes, Pairs(edges'), n)
    <3>1. now = old \cup {p[1]}
      BY <1>11, <2>1
    <3>2. parents[p[2]] = old
      BY <1>6, <2>1 DEF P
    <3>3. Cardinality(now) <= RoleSpec[nodes[n].role].max
      BY <1>4, <2>1, <3>1, <3>2 DEF RoomFor
    <3>4. IsFiniteSet(now) /\ IsFiniteSet(old)
      BY <1>7, <1>14, ParentsFinite
    <3>5. RoleSpec[nodes[n].role].min <= Cardinality(old)
      BY <1>13 DEF WithinLimits
    <3> HIDE DEF old, now
    <3>6. Cardinality(old) <= Cardinality(now)
      <4>1. old \subseteq now
        BY <3>1
      <4> QED BY <3>4, <4>1, FS_Subset
    <3>7. /\ Cardinality(old) \in Int /\ Cardinality(now) \in Int
          /\ RoleSpec[nodes[n].role].min \in Int
      <4>1. Cardinality(old) \in Nat /\ Cardinality(now) \in Nat
        BY <3>4, FS_CardinalityType
      <4>2. nodes[n] \in TableType
        BY <1>1, <1>7, ElementOfSeq
      <4>3. nodes[n].role \in Roles
        BY <4>2 DEF TableType
      <4>4. RoleSpec[nodes[n].role].min \in Int
        BY <4>3 DEF RoleSpec, Roles
      <4> QED BY <4>1, <4>4
    <3>8. RoleSpec[nodes[n].role].min <= Cardinality(now)
      BY <3>5, <3>6, <3>7
    <3> QED BY <3>3, <3>8 DEF WithinLimits, now
  <2>2. CASE ~(p[2] = n /\ RolePair(nodes, p) \in StructuralEdges)
    <3>1. StructuralParents(nodes, Pairs(edges'), n) = StructuralParents(nodes, P, n)
      BY <1>11, <2>2
    <3> QED BY <1>13, <3>1 DEF WithinLimits
  <2> QED BY <2>1, <2>2
<1>16. RolesValid(nodes', Pairs(edges'))
  BY <1>3, <1>12, <1>15, RolesTableByTable
<1>17. OccurrencesValid(nodes', edges', occs', Motifs)
  <2>1. DOMAIN edges \subseteq DOMAIN edges' /\ \A k \in DOMAIN edges : edges'[k] = edges[k]
    BY <1>7, <1>10
  <2> QED BY <1>1, <1>3, <2>1, OccurrencesPersist
<1>18. Based'
  <2>1. Based
    BY <1>3 DEF ValidInv
  <2> QED BY <1>1, <1>3, <1>7, <1>10, <2>1, BasePersists
<1>19. parents' = [n \in NodeIds(nodes) |-> StructuralParents(nodes, Pairs(edges'), n)]
  <2>1. p[2] \in NodeIds(nodes)
    BY <1>5
  <2>2. CASE RolePair(nodes, p) \in StructuralEdges
    <3>1. parents' = [parents EXCEPT ![p[2]] = parents[p[2]] \cup {p[1]}]
      BY <1>4, <2>2
    <3>2. parents' = [n \in NodeIds(nodes) |->
                        IF n = p[2] THEN parents[n] \cup {p[1]} ELSE parents[n]]
      BY <1>6, <2>1, <3>1
    <3>3. ASSUME NEW n \in NodeIds(nodes)
          PROVE  StructuralParents(nodes, Pairs(edges'), n)
                   = IF n = p[2] THEN parents[n] \cup {p[1]} ELSE parents[n]
      <4>1. parents[n] = StructuralParents(nodes, P, n)
        BY <1>6 DEF P
      <4> QED BY <1>11, <2>2, <4>1
    <3> QED BY <3>2, <3>3
  <2>3. CASE RolePair(nodes, p) \notin StructuralEdges
    <3>1. parents' = parents
      BY <1>4, <2>3
    <3>2. ASSUME NEW n \in NodeIds(nodes)
          PROVE  StructuralParents(nodes, Pairs(edges'), n) = StructuralParents(nodes, P, n)
      BY <1>11, <2>3
    <3> QED BY <1>6, <3>1, <3>2 DEF P
  <2> QED BY <2>2, <2>3
<1>20. \E S : occs' \in Seq(S)
  BY <1>3 DEF ValidInv
<1> QED
  BY <1>2, <1>3, <1>6, <1>16, <1>17, <1>18, <1>19, <1>20 DEF ValidInv

LEMMA FinishValid ==
  ASSUME ValidInv, FinishExtraEdges \/ UNCHANGED vars
  PROVE  ValidInv'
<1>1. ConnectedInv'
  BY ConnectedStep DEF ValidInv, Next
<1>2. CASE FinishExtraEdges
  <2>1. UNCHANGED <<target, nodes, edges, occs>> /\ phase = "extra" /\ phase' = "validate"
    BY <1>2 DEF FinishExtraEdges, graph
  <2>2. Len(nodes) = target
    BY <2>1 DEF ValidInv
  <2> QED BY <1>1, <2>1, <2>2, KeptValid
<1>3. CASE UNCHANGED vars
  <2>1. UNCHANGED <<phase, target, nodes, edges, occs, parents>>
    BY <1>3 DEF vars
  <2>2. /\ phase # "failed"
        /\ phase \in {"extra", "validate", "done"} => Len(nodes) = target
        /\ phase = "extra" =>
             /\ MaxExtraEdges # 0
             /\ parents = [n \in NodeIds(nodes) |-> StructuralParents(nodes, Pairs(edges), n)]
    BY DEF ValidInv
  <2> QED BY <1>1, <2>1, <2>2, KeptValid
<1> QED BY <1>2, <1>3

(* The positions of a sequence.                                            *)
LEMMA PositionsFinite ==
  ASSUME NEW N \in Nat
  PROVE  IsFiniteSet(1..N) /\ Cardinality(1..N) = N
<1>1. 1 \in Int /\ N \in Int
  OBVIOUS
<1>2. IsFiniteSet(1..N) /\ Cardinality(1..N) = IF 1 > N THEN 0 ELSE N - 1 + 1
  BY <1>1, FS_Interval
<1>3. (IF 1 > N THEN 0 ELSE N - 1 + 1) = N
  OBVIOUS
<1> QED BY <1>2, <1>3

(* What sample() constructs meets every constraint it states: validation   *)
(* accepts it.                                                             *)
LEMMA AcceptedAtValidation ==
  ASSUME ValidInv, phase = "validate"
  PROVE  Accepted
<1>1. /\ SafeInv /\ nodes \in Seq(TableType) /\ edges \in Seq(EdgeType)
      /\ RolesValid(nodes, Pairs(edges)) /\ OccurrencesValid(nodes, edges, occs, Motifs)
      /\ Connected(NodeIds(nodes), Pairs(edges))
      /\ ForeignKeysLegal /\ KeysLegal(nodes, edges)
  BY DEF ValidInv, ConnectedInv, SafeInv, TypeOK, ForeignKeysLegal
<1>2. Based /\ Len(nodes) = target
  BY DEF ValidInv
<1>3. /\ NodeIds(nodes) = 1..Len(nodes) /\ Len(nodes) \in Nat
      /\ DOMAIN edges = 1..Len(edges) /\ Len(edges) \in Nat
      /\ Pairs(edges) \subseteq NodeIds(nodes) \X NodeIds(nodes)
  BY <1>1, LenProperties, PairsBetweenTables DEF NodeIds, EdgeType
<1>4. StructureValid(nodes, Pairs(edges))
  <2>1. nodes # <<>>
    BY <1>2 DEF Based
  <2>2. \A p \in Pairs(edges) : p[1] \in NodeIds(nodes) /\ p[2] \in NodeIds(nodes)
    BY <1>3
  <2>3. \A p \in Pairs(edges) : nodes[p[1]].rank < nodes[p[2]].rank
    BY <1>1 DEF KeysLegal
  <2> QED BY <2>1, <2>2, <2>3 DEF StructureValid
<1>5. Holds(nodes, edges, [type |-> "connected"])
  BY <1>1 DEF Holds
<1>6. Holds(nodes, edges, [type |-> "acyclic"])
  BY <1>1, RankOrderIsAcyclic DEF Holds
<1>7. Cardinality(Pairs(edges)) = Len(edges)
  <2> DEFINE S == 1..Len(edges)
             f == [k \in S |-> <<edges[k].parent, edges[k].child>>]
  <2>2. IsFiniteSet(S) /\ Cardinality(S) = Len(edges)
    BY <1>3, PositionsFinite
  <2>3. Pairs(edges) = {f[k] : k \in S}
    BY <1>3 DEF Pairs
  <2>4. ASSUME NEW j \in S, NEW k \in S, f[j] = f[k] PROVE j = k
    <3>1. edges[j] \in EdgeType /\ edges[k] \in EdgeType
      BY <1>1, ElementOfSeq
    <3>2. edges[j].parent = edges[k].parent /\ edges[j].child = edges[k].child
      BY <2>4
    <3>3. edges[j] = edges[k]
      BY <3>1, <3>2, SameEnds DEF EdgeType
    <3> QED BY <1>1, <1>3, <3>3 DEF KeysLegal
  <2> HIDE DEF f, S
  <2>5. Cardinality({f[k] : k \in S}) = Cardinality(S)
    BY <2>2, <2>4, OneToOneImage
  <2> QED BY <2>2, <2>3, <2>5
<1>8. Holds(nodes, edges, [type |-> "no_parallel"])
  BY <1>7 DEF Holds
<1>9. Holds(nodes, edges, [type |-> "table_count", min |-> target, max |-> target])
  BY <1>2, <1>3 DEF Holds, Within
<1>10. Holds(nodes, edges, [type |-> "edge_count", min |-> Len(edges), max |-> Len(edges)])
  BY <1>3 DEF Holds, Within
<1>11. ASSUME NEW r, NEW n \in NodeIds(nodes), nodes[n].role = r
       PROVE  Holds(nodes, edges, [type |-> "role_count", role |-> r, min |-> 1, max |-> Len(nodes)])
  <2> DEFINE N == NodesWith(nodes, {r})
  <2>1. N \subseteq 1..Len(nodes) /\ n \in N
    BY <1>3, <1>11 DEF NodesWith
  <2>2. IsFiniteSet(1..Len(nodes)) /\ Cardinality(1..Len(nodes)) = Len(nodes)
    BY <1>3, PositionsFinite
  <2> HIDE DEF N
  <2>3. IsFiniteSet(N) /\ Cardinality(N) <= Len(nodes)
    BY <2>1, <2>2, FS_Subset
  <2>4. Cardinality(N) \in Nat /\ Cardinality(N) # 0
    <3>1. Cardinality(N) \in Nat
      BY <2>3, FS_CardinalityType
    <3>2. N # {}
      BY <2>1
    <3> QED BY <2>3, <3>1, <3>2, FS_EmptySet
  <2>5. 1 <= Cardinality(N) /\ Cardinality(N) <= Len(nodes)
    BY <2>3, <2>4
  <2> QED BY <2>5 DEF Holds, Within, N
<1>12. /\ 1 \in NodeIds(nodes) /\ nodes[1].role = "entity"
       /\ 2 \in NodeIds(nodes) /\ nodes[2].role = "event"
       /\ 1 \in DOMAIN edges /\ edges[1].parent = 1 /\ edges[1].child = 2
  BY <1>2, <1>3 DEF Based
<1>13. Holds(nodes, edges, [type |-> "role_count", role |-> "entity", min |-> 1, max |-> Len(nodes)])
  BY <1>11, <1>12
<1>14. Holds(nodes, edges, [type |-> "role_count", role |-> "event", min |-> 1, max |-> Len(nodes)])
  BY <1>11, <1>12
<1>15. Holds(nodes, edges, [type |-> "required_edge", parent |-> "entity", child |-> "event", min |-> 1])
  <2> DEFINE K == EdgesBetween(nodes, edges, "entity", "event")
  <2>1. RolePair(nodes, <<edges[1].parent, edges[1].child>>) = <<"entity", "event">>
    BY <1>12 DEF RolePair
  <2>2. K \subseteq 1..Len(edges) /\ 1 \in K
    BY <1>3, <1>12, <2>1 DEF EdgesBetween
  <2>3. IsFiniteSet(1..Len(edges))
    BY <1>3, PositionsFinite
  <2> HIDE DEF K
  <2>4. IsFiniteSet(K) /\ K # {}
    BY <2>2, <2>3, FS_Subset
  <2>5. Cardinality(K) \in Nat
    BY <2>4, FS_CardinalityType
  <2>6. Cardinality(K) # 0
    BY <2>4, FS_EmptySet
  <2>7. Cardinality(K) >= 1
    BY <2>5, <2>6
  <2> QED BY <2>7 DEF Holds, K
<1>16. \A c \in EmittedConstraints : Holds(nodes, edges, c)
  <2>1. ASSUME NEW c \in EmittedConstraints
        PROVE  \/ c = [type |-> "connected"] \/ c = [type |-> "acyclic"]
               \/ c = [type |-> "no_parallel"]
               \/ c = [type |-> "table_count", min |-> target, max |-> target]
               \/ c = [type |-> "edge_count", min |-> Len(edges), max |-> Len(edges)]
               \/ c = [type |-> "role_count", role |-> "entity", min |-> 1, max |-> Len(nodes)]
               \/ c = [type |-> "role_count", role |-> "event", min |-> 1, max |-> Len(nodes)]
               \/ c = [type |-> "required_edge", parent |-> "entity", child |-> "event", min |-> 1]
    BY Zenon DEF EmittedConstraints
  <2> QED BY <1>5, <1>6, <1>8, <1>9, <1>10, <1>13, <1>14, <1>15, <2>1, Zenon
<1> QED BY <1>1, <1>4, <1>16, Zenon DEF Accepted, BlueprintValid

LEMMA ValidateValid ==
  ASSUME ValidInv, Validate
  PROVE  ValidInv'
<1>1. ConnectedInv'
  BY ConnectedStep DEF ValidInv, Next
<1>2. UNCHANGED <<target, nodes, edges, occs>> /\ phase = "validate"
      /\ phase' = IF Accepted THEN "done" ELSE "failed"
  BY DEF Validate, graph
<1>3. phase' = "done" /\ Len(nodes) = target
  BY <1>2, AcceptedAtValidation DEF ValidInv
<1> QED BY <1>1, <1>2, <1>3, KeptValid

LEMMA ValidStep ==
  ASSUME AnchorsTakeNoParents
  PROVE  ValidInv /\ [Next]_vars => ValidInv'
<1> SUFFICES ASSUME ValidInv, [Next]_vars PROVE ValidInv'
  OBVIOUS
<1>1. CASE AttachBase \/ AttachMotif            BY <1>1, AttachValid
<1>2. CASE AttachBackground                     BY <1>2, BackgroundValid
<1>3. CASE StartExtraEdges                      BY <1>3, StartExtraValid
<1>4. CASE SkipCandidate \/ RejectCandidate     BY <1>4, PassCandidateValid
<1>5. CASE AddExtraEdge                         BY <1>5, AddValid
<1>6. CASE FinishExtraEdges \/ UNCHANGED vars   BY <1>6, FinishValid
<1>7. CASE Validate                             BY <1>7, ValidateValid
<1> QED BY <1>1, <1>2, <1>3, <1>4, <1>5, <1>6, <1>7 DEF Next

(* Every state of sample() holds a schema valid as far as it goes, for     *)
(* every motif library none of whose motifs gives its anchor a structural  *)
(* parent.                                                                 *)
THEOREM ValidThroughout ==
  ASSUME AnchorsTakeNoParents
  PROVE  Spec => []ValidInv
<1>1. ValidInv /\ [Next]_vars => ValidInv'
  BY ValidStep
<1> QED BY <1>1, InitValid, PTL DEF Spec

(* Neither an attachment nor the finished blueprint is ever refused, for   *)
(* every such library and every accepted configuration.                    *)
THEOREM SamplesNeverRejected ==
  ASSUME AnchorsTakeNoParents
  PROVE  Spec => []NeverRejected
<1>1. ValidInv => NeverRejected
  BY DEF ValidInv, NeverRejected
<1> QED BY <1>1, ValidThroughout, PTL

(* In particular for the catalog the repository ships.                     *)
THEOREM CatalogNeverRejected ==
  ASSUME Motifs = DefaultMotifs
  PROVE  Spec => []NeverRejected
<1>1. AnchorsTakeNoParents
  BY CatalogAnchors
<1> QED BY <1>1, SamplesNeverRejected

-----------------------------------------------------------------------------
(* Growth                                                                  *)

(* The growth discipline reads a schema the way the sampler does.          *)
LEMMA SameReading ==
  /\ \A ns : Growth!NodeIds(ns) = NodeIds(ns)
  /\ \A ns, fks : Growth!StructureValid(ns, fks) <=> StructureValid(ns, fks)
  /\ \A ns, fks : Growth!RolesValid(ns, fks) <=> RolesValid(ns, fks)
  /\ \A V, P : Growth!Connected(V, P) <=> Connected(V, P)
<1>1. \A ns : Growth!NodeIds(ns) = NodeIds(ns)
  BY DEF NodeIds, Growth!NodeIds
<1>2. \A ns, fks : Growth!StructureValid(ns, fks) <=> StructureValid(ns, fks)
  BY <1>1 DEF StructureValid, Growth!StructureValid
<1>3. \A V, P : Growth!Connected(V, P) <=> Connected(V, P)
  BY DEF Connected, Growth!Connected
<1>4. \A ns, fks : Growth!RolesValid(ns, fks) <=> RolesValid(ns, fks)
  <2>1. Growth!Roles = Roles
    BY DEF Roles, Growth!Roles
  <2>2. Growth!RoleSpec = RoleSpec
    BY <2>1 DEF RoleSpec, Growth!RoleSpec
  <2>3. Growth!StructuralEdges = StructuralEdges
    BY DEF StructuralEdges, Growth!StructuralEdges
  <2>4. Growth!AllowedEdges = AllowedEdges
    BY <2>3 DEF AllowedEdges, Growth!AllowedEdges, AuxiliaryEdges, Growth!AuxiliaryEdges
  <2>5. /\ \A ns, p : Growth!RolePair(ns, p) = RolePair(ns, p)
        /\ \A fks, n : Growth!FKParents(fks, n) = FKParents(fks, n)
        /\ \A fks, n : Growth!FKChildren(fks, n) = FKChildren(fks, n)
    BY DEF RolePair, Growth!RolePair, FKParents, Growth!FKParents, FKChildren, Growth!FKChildren
  <2>6. \A ns, fks, n : Growth!StructuralParents(ns, fks, n) = StructuralParents(ns, fks, n)
    BY <2>3, <2>5 DEF StructuralParents, Growth!StructuralParents
  <2>7. \A S : Growth!Cardinality(S) = Cardinality(S)
    BY Zenon DEF Growth!Cardinality, Cardinality
  <2> QED BY <1>1, <2>2, <2>4, <2>5, <2>6, <2>7 DEF RolesValid, Growth!RolesValid
<1> QED BY <1>1, <1>2, <1>3, <1>4

LegalNow == Growth!Legal(nodes, Pairs(edges))

LEMMA ValidIsLegal == ValidInv => LegalNow
<1> SUFFICES ASSUME ValidInv PROVE LegalNow
  OBVIOUS
<1>1. /\ SafeInv /\ nodes \in Seq(TableType) /\ edges \in Seq(EdgeType) /\ Len(nodes) >= 1
      /\ RolesValid(nodes, Pairs(edges)) /\ Connected(NodeIds(nodes), Pairs(edges))
      /\ KeysLegal(nodes, edges)
  BY DEF ValidInv, ConnectedInv, SafeInv, TypeOK, ForeignKeysLegal
<1>2. Pairs(edges) \subseteq NodeIds(nodes) \X NodeIds(nodes)
  BY <1>1, PairsBetweenTables DEF EdgeType
<1>3. StructureValid(nodes, Pairs(edges))
  <2>1. nodes # <<>>
    BY <1>1
  <2>2. \A p \in Pairs(edges) : p[1] \in NodeIds(nodes) /\ p[2] \in NodeIds(nodes)
    BY <1>2
  <2>3. \A p \in Pairs(edges) : nodes[p[1]].rank < nodes[p[2]].rank
    BY <1>1 DEF KeysLegal
  <2> QED BY <2>1, <2>2, <2>3 DEF StructureValid
<1> QED BY <1>1, <1>3, SameReading DEF LegalNow, Growth!Legal

(* The scan never exceeds the configured number of extra foreign keys.     *)
LEMMA BudgetBounded ==
  ASSUME SafeInv, Len(nodes) = target, MaxExtraEdges # 0
  PROVE  Budget <= MaxExtraEdges /\ Budget \in Nat
<1>1. /\ target \in Nat /\ target <= MaxTables /\ target >= 2 /\ MaxTables \in Nat
      /\ MaxExtraEdges \in Nat
  BY CountInRange, SamplerConstructed DEF ConfigAccepted
<1>2. AtLeast(1, MaxTables) = MaxTables
  BY <1>1 DEF AtLeast
<1>3. ASSUME NEW n \in Nat, NEW x \in Nat, NEW d \in Nat, d >= 1, n <= d
      PROVE  (n * x) \div d \in Nat /\ (n * x) \div d <= x
  <2>1. n * x \in Nat /\ d * x \in Nat /\ n * x <= d * x
    BY <1>3
  <2>2. (n * x) \div d \in Nat /\ d * ((n * x) \div d) <= n * x
    BY <1>3, <2>1
  <2>3. ASSUME NEW q \in Nat, d * q <= d * x PROVE q <= x
    <3>1. ASSUME q >= x + 1 PROVE FALSE
      <4>1. d * q >= d * (x + 1)
        BY <1>3, <3>1
      <4>2. d * (x + 1) = d * x + d
        BY <1>3
      <4>3. d * q \in Nat
        BY <1>3
      <4> QED BY <1>3, <2>1, <2>3, <4>1, <4>2, <4>3
    <3> QED BY <3>1
  <2> DEFINE q == (n * x) \div d
  <2>4. d * q <= d * x /\ q \in Nat
    <3>1. d * q \in Nat
      BY <1>3, <2>2
    <3> QED BY <2>1, <2>2, <3>1
  <2> HIDE DEF q
  <2>5. q <= x
    BY <2>3, <2>4
  <2> QED BY <2>4, <2>5 DEF q
<1>4. (Len(nodes) * MaxExtraEdges) \div MaxTables \in Nat
      /\ (Len(nodes) * MaxExtraEdges) \div MaxTables <= MaxExtraEdges
  <2> DEFINE n == Len(nodes)
  <2>1. n \in Nat /\ n <= MaxTables /\ MaxTables >= 1
    BY <1>1
  <2> HIDE DEF n
  <2>2. (n * MaxExtraEdges) \div MaxTables \in Nat /\ (n * MaxExtraEdges) \div MaxTables <= MaxExtraEdges
    BY <1>1, <1>3, <2>1, Zenon
  <2> QED BY <2>2 DEF n
<1> DEFINE b == (Len(nodes) * MaxExtraEdges) \div MaxTables
<1> HIDE DEF b
<1>5. Budget = AtLeast(1, b)
  BY <1>2 DEF Budget, b
<1>6. b \in Nat /\ b <= MaxExtraEdges /\ MaxExtraEdges >= 1
  BY <1>1, <1>4 DEF b
<1> QED BY <1>5, <1>6 DEF AtLeast

(* A sequence that only gains elements starts with the old one.            *)
LEMMA PrefixSubSeq ==
  ASSUME NEW T, NEW s \in Seq(T), NEW t \in Seq(T), Len(s) <= Len(t),
         \A i \in 1..Len(s) : t[i] = s[i]
  PROVE  SubSeq(t, 1, Len(s)) = s
<1>1. Len(s) \in Nat /\ Len(t) \in Nat /\ DOMAIN s = 1..Len(s)
  BY LenProperties
<1>2. SubSeq(t, 1, Len(s)) = [i \in 1..Len(s) |-> t[i]]
  BY <1>1
<1>3. s = [i \in 1..Len(s) |-> s[i]]
  BY <1>1
<1>4. [i \in 1..Len(s) |-> t[i]] = [i \in 1..Len(s) |-> s[i]]
  OBVIOUS
<1> QED BY <1>2, <1>3, <1>4

(* Nothing is counted as an extra foreign key before the scan starts.      *)
GrowthInv == ValidInv /\ (phase \in {"start", "grow"} => added = 0)

(* A motif of one slot adds nothing: attaching it is no step of the growth.*)
LEMMA AttachGrows ==
  ASSUME AnchorsTakeNoParents, ValidInv, ValidInv', AttachBase \/ AttachMotif
  PROVE  Growth!Grow \/ UNCHANGED Growth!gvars
<1>1. /\ SafeInv /\ nodes \in Seq(TableType) /\ edges \in Seq(EdgeType)
  BY DEF ValidInv, ConnectedInv, SafeInv, TypeOK
<1>2. nodes' \in Seq(TableType) /\ Len(nodes') <= target'
  BY DEF ValidInv, ConnectedInv, SafeInv, TypeOK
<1>3. PICK m \in Motifs, anchor \in NodeIds(nodes) : \E roles \in [Slots(m) -> Roles] :
           Fitting(m, anchor, roles) /\ Attach(m, anchor, roles)
  BY <1>1, AttachmentsFit
<1>4. PICK roles \in [Slots(m) -> Roles] : Fitting(m, anchor, roles) /\ Attach(m, anchor, roles)
  BY <1>3
<1> DEFINE B == Binding(m, anchor)
           E == Pairs(edges)
           F == Pairs(edges')
<1>5. /\ roles[m.anchor] = nodes[anchor].role
      /\ \A s \in Slots(m) : GlobalRank(m, nodes[anchor].rank, s) \in 0..MaxRank
      /\ nodes' = nodes \o FreshNodes(m, anchor, roles)
      /\ phase' \in {"grow", "failed"}
  BY <1>4 DEF Fitting, Attach
<1>6. /\ Len(nodes') = Len(nodes) + Len(m.nodes) - 1
      /\ \A n \in 1..Len(nodes) : nodes'[n] = nodes[n]
      /\ \A s \in Slots(m) : /\ B[s] \in 1..Len(nodes') /\ (s # m.anchor => B[s] > Len(nodes))
                             /\ nodes'[B[s]].role = roles[s]
                             /\ nodes'[B[s]].rank = GlobalRank(m, nodes[anchor].rank, s)
  BY <1>1, <1>5, AttachedTables
<1>7. /\ DOMAIN m.edges = 1..Len(m.edges)
      /\ \A k \in 1..Len(m.edges) : m.edges[k] \in [parent : Slots(m), child : Slots(m)]
      /\ F = E \cup {<<B[e.parent], B[e.child]>> : e \in MotifEdges(m)}
  BY <1>1, <1>4, <1>5, AttachedKeys
<1>8. /\ NodeIds(nodes) = 1..Len(nodes) /\ Len(nodes) \in Nat
      /\ NodeIds(nodes') = 1..Len(nodes') /\ Len(nodes') \in Nat
      /\ Slots(m) = 1..Len(m.nodes) /\ Len(m.nodes) \in Nat /\ m.anchor \in Slots(m)
      /\ \A s \in Slots(m) : m.nodes[s].offset \in Nat
  BY <1>1, <1>2, LenProperties, MotifShape DEF NodeIds
<1>9. \A e \in MotifEdges(m) : e.parent \in Slots(m) /\ e.child \in Slots(m) /\ e.parent # e.child
  <2> SUFFICES ASSUME NEW k \in 1..Len(m.edges)
               PROVE  /\ m.edges[k].parent \in Slots(m) /\ m.edges[k].child \in Slots(m)
                      /\ m.edges[k].parent # m.edges[k].child
    BY <1>7 DEF MotifEdges
  <2>1. m.edges[k].parent \in Slots(m) /\ m.edges[k].child \in Slots(m)
    BY <1>7
  <2>2. m.nodes[m.edges[k].child].offset >= m.nodes[m.edges[k].parent].offset + 1
    BY MotifShape
  <2> QED BY <1>8, <2>1, <2>2
<1>10. /\ UNCHANGED <<target, added>>
       /\ phase \in {"start", "grow"} /\ phase' = "grow"
  <2>1. phase' # "failed"
    BY DEF ValidInv
  <2> QED BY <1>5, <2>1 DEF AttachBase, AttachMotif, Growing, scan
<1> HIDE DEF B, E, F
<1>11. CASE Len(m.nodes) = 1
  <2>1. MotifEdges(m) = {}
    <3>1. \A s, t \in Slots(m) : s = t
      BY <1>8, <1>11
    <3> QED BY <1>9, <3>1
  <2>2. F = E
    BY <1>7, <2>1
  <2>3. nodes' = nodes
    <3>1. DOMAIN nodes' = DOMAIN nodes /\ \A n \in DOMAIN nodes : nodes'[n] = nodes[n]
      BY <1>6, <1>8, <1>11 DEF NodeIds
    <3>2. nodes = [n \in DOMAIN nodes |-> nodes[n]] /\ nodes' = [n \in DOMAIN nodes' |-> nodes'[n]]
      BY <1>1, <1>2
    <3> QED BY <3>1, <3>2
  <2> QED BY <1>10, <2>2, <2>3 DEF Growth!gvars, E, F
<1>12. CASE Len(m.nodes) # 1
  <2>1. Len(nodes) < Len(nodes')
    <3>1. Len(m.nodes) >= 1
      BY <1>8
    <3>2. /\ Len(nodes') = Len(nodes) + Len(m.nodes) - 1
          /\ Len(nodes) \in Nat /\ Len(m.nodes) \in Nat /\ Len(nodes') \in Nat
      BY <1>6, <1>8
    <3>3. \A a, b, c \in Nat : c = a + b - 1 /\ b >= 1 /\ b # 1 => a < c
      OBVIOUS
    <3> QED BY <1>12, <3>1, <3>2, <3>3, Zenon
  <2>2. SubSeq(nodes', 1, Len(nodes)) = nodes
    BY <1>1, <1>2, <1>6, <2>1, <1>8, PrefixSubSeq
  <2>3. ASSUME NEW p \in F \ E
        PROVE  p[1] \notin Growth!NodeIds(nodes) \/ p[2] \notin Growth!NodeIds(nodes)
    <3>1. PICK e \in MotifEdges(m) : p = <<B[e.parent], B[e.child]>>
      BY <1>7, <2>3
    <3>2. p[1] = B[e.parent] /\ p[2] = B[e.child]
      BY <3>1
    <3>3. e.parent # m.anchor \/ e.child # m.anchor
      BY <1>9
    <3>4. B[e.parent] > Len(nodes) \/ B[e.child] > Len(nodes)
      BY <1>6, <1>9, <3>3
    <3>5. B[e.parent] \in Int /\ B[e.child] \in Int
      BY <1>6, <1>9
    <3>6. p[1] \notin NodeIds(nodes) \/ p[2] \notin NodeIds(nodes)
      BY <1>8, <3>2, <3>4, <3>5
    <3> QED BY <3>6, SameReading
  <2>4. LegalNow'
    BY ValidIsLegal, PTL
  <2>5. Growth!Legal(nodes', F)
    BY <2>4 DEF LegalNow, F
  <2>6. E \subseteq F
    BY <1>7
  <2> QED BY <1>2, <1>10, <2>1, <2>2, <2>3, <2>5, <2>6 DEF Growth!Grow, E, F
<1> QED BY <1>11, <1>12

LEMMA BackgroundGrows ==
  ASSUME ValidInv, ValidInv', AttachBackground
  PROVE  Growth!Grow
<1>1. nodes \in Seq(TableType) /\ edges \in Seq(EdgeType)
  BY DEF ValidInv, ConnectedInv, SafeInv, TypeOK
<1>2. nodes' \in Seq(TableType) /\ Len(nodes') <= target'
  BY DEF ValidInv, ConnectedInv, SafeInv, TypeOK
<1>3. PICK o \in BackgroundOptions :
        /\ nodes' = Append(nodes, [role |-> o.role, rank |-> nodes[o.parent].rank + 1])
        /\ edges' = Append(edges, [parent |-> o.parent, child |-> Len(nodes) + 1])
  BY DEF AttachBackground
<1> DEFINE t == [role |-> o.role, rank |-> nodes[o.parent].rank + 1]
           e == [parent |-> o.parent, child |-> Len(nodes) + 1]
<1>4. NodeIds(nodes) = 1..Len(nodes) /\ Len(nodes) \in Nat
  BY <1>1, LenProperties DEF NodeIds
<1>5. e.parent = o.parent /\ e.child = Len(nodes) + 1
  OBVIOUS
<1>6. edges' = Append(edges, e) /\ nodes' = Append(nodes, t)
  BY <1>3
<1> HIDE DEF t, e
<1>7. Pairs(edges') = Pairs(edges) \cup {<<o.parent, Len(nodes) + 1>>}
  <2>1. edges \in Seq(EdgeType \cup {e})
    <3>1. \A k \in 1..Len(edges) : edges[k] \in EdgeType
      BY <1>1, ElementOfSeq
    <3> QED BY <1>1, <3>1
  <2>2. Pairs(Append(edges, e)) = Pairs(edges) \cup {<<e.parent, e.child>>}
    <3>1. e \in EdgeType \cup {e}
      OBVIOUS
    <3> QED BY <2>1, <3>1, PairsAppend
  <2> QED BY <1>5, <1>6, <2>2
<1>8. /\ Len(nodes') = Len(nodes) + 1 /\ \A n \in 1..Len(nodes) : nodes'[n] = nodes[n]
  BY <1>1, <1>4, <1>6
<1>9. Len(nodes) < Len(nodes') /\ SubSeq(nodes', 1, Len(nodes)) = nodes
  <2>1. Len(nodes) < Len(nodes')
    BY <1>4, <1>8
  <2> QED BY <1>1, <1>2, <1>4, <1>8, <2>1, PrefixSubSeq
<1>10. ASSUME NEW p \in Pairs(edges') \ Pairs(edges)
       PROVE  p[1] \notin Growth!NodeIds(nodes) \/ p[2] \notin Growth!NodeIds(nodes)
  <2>1. p[2] = Len(nodes) + 1
    BY <1>7, <1>10
  <2>2. p[2] \notin NodeIds(nodes)
    BY <1>4, <2>1
  <2> QED BY <2>2, SameReading
<1>11. LegalNow'
  BY ValidIsLegal, PTL
<1>12. Growth!Legal(nodes', Pairs(edges'))
  BY <1>11 DEF LegalNow
<1>13. phase = "grow" /\ UNCHANGED <<phase, target, added>>
  BY DEF AttachBackground, Growing, scan
<1> QED BY <1>2, <1>7, <1>9, <1>10, <1>12, <1>13 DEF Growth!Grow

LEMMA AddEnriches ==
  ASSUME ValidInv, ValidInv', AddExtraEdge
  PROVE  Growth!Enrich
<1>1. SafeInv /\ edges \in Seq(EdgeType) /\ candidates \subseteq NodeIds(nodes) \X NodeIds(nodes)
      /\ added \in Nat
  BY DEF ValidInv, ConnectedInv, SafeInv, TypeOK
<1>2. PICK p \in candidates :
        /\ edges' = Append(edges, [parent |-> p[1], child |-> p[2]])
        /\ added' = added + 1
  BY DEF AddExtraEdge
<1>3. UNCHANGED <<phase, target, nodes>> /\ phase = "extra" /\ added < Budget
  BY DEF AddExtraEdge, Scanning
<1>4. p \notin Pairs(edges) /\ p = <<p[1], p[2]>> /\ p \in NodeIds(nodes) \X NodeIds(nodes)
  BY <1>1, <1>3 DEF SafeInv
<1> DEFINE e == [parent |-> p[1], child |-> p[2]]
<1>5. Pairs(edges') = Pairs(edges) \cup {p}
  <2>1. e \in EdgeType /\ e.parent = p[1] /\ e.child = p[2] /\ edges' = Append(edges, e)
    BY <1>2, <1>4 DEF EdgeType
  <2> HIDE DEF e
  <2>2. Pairs(Append(edges, e)) = Pairs(edges) \cup {<<e.parent, e.child>>}
    BY <1>1, <2>1, PairsAppend
  <2> QED BY <1>4, <2>1, <2>2
<1>6. added < MaxExtraEdges
  <2>1. Budget <= MaxExtraEdges /\ Budget \in Nat
    BY <1>1, <1>3, BudgetBounded DEF ValidInv
  <2>2. MaxExtraEdges \in Nat
    BY SamplerConstructed DEF ConfigAccepted
  <2> QED BY <1>1, <1>3, <2>1, <2>2
<1>7. LegalNow'
  BY ValidIsLegal, PTL
<1>8. Growth!Legal(nodes, Pairs(edges'))
  BY <1>3, <1>7 DEF LegalNow
<1> QED BY <1>2, <1>3, <1>4, <1>5, <1>6, <1>8 DEF Growth!Enrich

LEMMA GrowthSteps ==
  ASSUME AnchorsTakeNoParents
  PROVE  GrowthInv /\ [Next]_vars => GrowthInv' /\ [Growth!GrowthNext]_(Growth!gvars)
<1> SUFFICES ASSUME GrowthInv, [Next]_vars
             PROVE  GrowthInv' /\ (Growth!GrowthNext \/ UNCHANGED Growth!gvars)
  OBVIOUS
<1>1. ValidInv /\ ValidInv'
  BY ValidStep DEF GrowthInv
<1>2. phase \in {"start", "grow"} => added = 0
  BY DEF GrowthInv
<1>3. phase' \in {"start", "grow"} => added' = 0
  <2>1. CASE AttachBase \/ AttachMotif
    BY <1>2, <2>1 DEF AttachBase, AttachMotif, Growing, scan
  <2>2. CASE AttachBackground
    BY <1>2, <2>2 DEF AttachBackground, Growing, scan
  <2>3. CASE StartExtraEdges
    BY <2>3 DEF StartExtraEdges
  <2>4. CASE SkipCandidate \/ RejectCandidate \/ AddExtraEdge
    BY <2>4 DEF SkipCandidate, RejectCandidate, AddExtraEdge, Scanning
  <2>5. CASE FinishExtraEdges \/ Validate
    BY <2>5 DEF FinishExtraEdges, Validate
  <2>6. CASE UNCHANGED vars
    BY <1>2, <2>6 DEF vars
  <2> QED BY <2>1, <2>2, <2>3, <2>4, <2>5, <2>6 DEF Next
<1> SUFFICES Growth!GrowthNext \/ UNCHANGED Growth!gvars
  BY <1>1, <1>3 DEF GrowthInv
<1>4. CASE AttachBase \/ AttachMotif
  BY <1>1, <1>4, AttachGrows DEF Growth!GrowthNext
<1>5. CASE AttachBackground
  BY <1>1, <1>5, BackgroundGrows DEF Growth!GrowthNext
<1>6. CASE StartExtraEdges
  <2>1. /\ phase = "grow" /\ Len(nodes) >= target /\ phase' \in {"extra", "validate"}
        /\ UNCHANGED <<target, nodes, edges>> /\ added' = added
    BY <1>2, <1>6 DEF StartExtraEdges, graph, scan
  <2>2. Len(nodes) = target
    <3>1. nodes \in Seq(TableType) /\ target \in Nat /\ Len(nodes) <= target
      BY <1>1, CountInRange DEF ValidInv, ConnectedInv, SafeInv, TypeOK
    <3> QED BY <2>1, <3>1, LenProperties
  <2> QED BY <2>1, <2>2 DEF Growth!GrowthNext, Growth!Complete
<1>7. CASE SkipCandidate \/ RejectCandidate
  BY <1>7 DEF SkipCandidate, RejectCandidate, Growth!gvars, graph
<1>8. CASE AddExtraEdge
  BY <1>1, <1>8, AddEnriches DEF Growth!GrowthNext
<1>9. CASE FinishExtraEdges
  <2>1. phase = "extra" /\ phase' = "validate" /\ UNCHANGED <<target, nodes, edges, added>>
    BY <1>9 DEF FinishExtraEdges, graph, scan
  <2> QED BY <2>1 DEF Growth!GrowthNext, Growth!Freeze
<1>10. CASE Validate
  <2>1. phase = "validate" /\ phase' = "done" /\ UNCHANGED <<target, nodes, edges, added>>
    <3>1. phase' # "failed"
      BY <1>1 DEF ValidInv
    <3> QED BY <1>10, <3>1 DEF Validate, graph, scan
  <2> QED BY <2>1 DEF Growth!gvars
<1>11. CASE UNCHANGED vars
  BY <1>11 DEF vars, Growth!gvars
<1> QED
  BY <1>4, <1>5, <1>6, <1>7, <1>8, <1>9, <1>10, <1>11 DEF Next

(* Motifs, background tables and extra foreign keys are one way to grow a  *)
(* schema that is legal at every step, reaches exactly its size, gains at  *)
(* most max_extra_edges keys and is never revised.                         *)
THEOREM SamplerGrows ==
  ASSUME AnchorsTakeNoParents
  PROVE  Spec => ImplementsGrowth
<1>1. Init => GrowthInv /\ Growth!GrowthInit
  <2> SUFFICES ASSUME Init PROVE GrowthInv /\ Growth!GrowthInit
    OBVIOUS
  <2>1. ValidInv
    BY InitValid
  <2>2. /\ phase = "start" /\ target \in PossibleCounts /\ added = 0
        /\ nodes = <<[role |-> "entity", rank |-> 0]>> /\ edges = <<>>
    BY DEF Init
  <2>3. Pairs(edges) = {}
    BY <2>2 DEF Pairs
  <2> QED BY <2>1, <2>2, <2>3 DEF GrowthInv, Growth!GrowthInit
<1>2. GrowthInv /\ [Next]_vars => GrowthInv' /\ [Growth!GrowthNext]_(Growth!gvars)
  BY GrowthSteps
<1> QED BY <1>1, <1>2, PTL DEF Spec, ImplementsGrowth, Growth!Growth
=============================================================================
