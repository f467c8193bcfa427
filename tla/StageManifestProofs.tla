-------------------------- MODULE StageManifestProofs --------------------------
(***************************************************************************)
(* What the manifests of a materialization stage list, for every number of *)
(* entries, shards, workers, runs, faults and files: the types, the order  *)
(* of the entries, the artifacts on disk, and the partition into shards.   *)
(***************************************************************************)
EXTENDS StageRunProofs, SequenceFacts, FiniteSetTheorems, WellFoundedInduction

-----------------------------------------------------------------------------
(* Sorting: distinct numbers have an increasing enumeration. *)

Distinct(q, n) == \A j, k \in 1..n : q[j] = q[k] => j = k

(* f lists the numbers q[1], ..., q[n] in ascending order. *)
Enumerates(f, q, n) ==
  /\ f \in [1..n -> Int]
  /\ \A k \in 1..n : \E i \in 1..n : f[k] = q[i]
  /\ \A i \in 1..n : \E k \in 1..n : f[k] = q[i]
  /\ \A j, k \in 1..n : j < k => f[j] < f[k]

(* Insertion: the place of one more number is before the first larger one. *)
LEMMA InsertOne ==
  ASSUME NEW n \in Nat, NEW q \in [1..(n + 1) -> Int], Distinct(q, n + 1),
         NEW f, Enumerates(f, q, n)
  PROVE  \E g : Enumerates(g, q, n + 1)
<1> DEFINE x == q[n + 1]
           Later == {i \in 1..(n + 1) : i = n + 1 \/ x < f[i]}
<1>1. /\ f \in [1..n -> Int] /\ x \in Int /\ n + 1 \in Nat
      /\ \A k \in 1..n : \E i \in 1..n : f[k] = q[i]
      /\ \A i \in 1..n : \E k \in 1..n : f[k] = q[i]
      /\ \A j, k \in 1..n : j < k => f[j] < f[k]
  BY DEF Enumerates
<1>2. \A i \in 1..n : f[i] # x
  <2> SUFFICES ASSUME NEW i \in 1..n, f[i] = x PROVE FALSE
    OBVIOUS
  <2>1. PICK j \in 1..n : f[i] = q[j]
    BY <1>1
  <2>2. j \in 1..(n + 1) /\ n + 1 \in 1..(n + 1) /\ j # n + 1
    OBVIOUS
  <2> QED
    BY <2>1, <2>2 DEF Distinct
<1>3. PICK p \in Later : \A y \in Later : p <= y
  <2>1. Later \in SUBSET Nat /\ n + 1 \in Later
    OBVIOUS
  <2> HIDE DEF Later
  <2> QED
    BY <2>1, LeastNatural
<1>4. p \in 1..(n + 1) /\ (p = n + 1 \/ x < f[p])
  OBVIOUS
<1>5. \A i \in 1..n : i < p => f[i] < x
  <2> SUFFICES ASSUME NEW i \in 1..n, i < p PROVE f[i] < x
    OBVIOUS
  <2>1. i \notin Later
    BY <1>3, <1>4
  <2>2. ~(x < f[i]) /\ f[i] # x /\ f[i] \in Int
    BY <2>1, <1>1, <1>2
  <2> QED
    BY <2>2, <1>1
<1>6. \A i \in 1..n : p <= i => x < f[i]
  <2> SUFFICES ASSUME NEW i \in 1..n, p <= i PROVE x < f[i]
    OBVIOUS
  <2>1. p \in 1..n /\ x < f[p]
    BY <1>4
  <2>2. p = i \/ f[p] < f[i]
    BY <2>1, <1>1
  <2>3. f[p] \in Int /\ f[i] \in Int /\ x \in Int
    BY <2>1, <1>1
  <2> HIDE DEF x, Later
  <2>4. CASE p = i
    BY <2>1, <2>4
  <2>5. CASE f[p] < f[i]
    BY <2>1, <2>3, <2>5
  <2> QED
    BY <2>2, <2>4, <2>5
<1> HIDE DEF Later, x
<1> DEFINE g == [i \in 1..(n + 1) |-> IF i < p THEN f[i] ELSE IF i = p THEN x ELSE f[i - 1]]
<1>7. /\ \A i \in 1..(n + 1) : i < p => i \in 1..n /\ g[i] = f[i]
      /\ g[p] = x
      /\ \A i \in 1..(n + 1) : i > p => i - 1 \in 1..n /\ g[i] = f[i - 1]
  BY <1>4
<1>8. g \in [1..(n + 1) -> Int]
  BY <1>1, <1>4
<1> HIDE DEF g
<1>9. \A i \in 1..(n + 1) : i < p \/ i = p \/ i > p
  BY <1>4
<1>10. ASSUME NEW k \in 1..(n + 1)
       PROVE  \E i \in 1..(n + 1) : g[k] = q[i]
  <2>1. CASE k = p
    BY <2>1, <1>7 DEF x
  <2>2. CASE k < p
    <3>1. PICK i \in 1..n : f[k] = q[i]
      BY <2>2, <1>1, <1>7
    <3> QED
      BY <2>2, <3>1, <1>7
  <2>3. CASE k > p
    <3>1. PICK i \in 1..n : f[k - 1] = q[i]
      BY <2>3, <1>1, <1>7
    <3> QED
      BY <2>3, <3>1, <1>7
  <2> QED
    BY <2>1, <2>2, <2>3, <1>9
<1>11. ASSUME NEW i \in 1..(n + 1)
       PROVE  \E k \in 1..(n + 1) : g[k] = q[i]
  <2>1. CASE i = n + 1
    BY <2>1, <1>4, <1>7 DEF x
  <2>2. CASE i # n + 1
    <3>1. PICK k \in 1..n : f[k] = q[i]
      BY <2>2, <1>1
    <3>2. CASE k < p
      BY <3>1, <3>2, <1>7
    <3>3. CASE ~(k < p)
      <4>1. k + 1 \in 1..(n + 1) /\ k + 1 > p /\ (k + 1) - 1 = k
        BY <3>3, <1>4
      <4> QED
        BY <3>1, <4>1, <1>7
    <3> QED
      BY <3>2, <3>3
  <2> QED
    BY <2>1, <2>2
<1>12. ASSUME NEW j \in 1..(n + 1), NEW k \in 1..(n + 1), j < k
       PROVE  g[j] < g[k]
  <2>1. CASE k < p
    BY <2>1, <1>1, <1>4, <1>7, <1>12
  <2>2. CASE k = p
    BY <2>2, <1>4, <1>5, <1>7, <1>12
  <2>3. CASE k > p /\ j = p
    BY <2>3, <1>4, <1>6, <1>7, <1>12
  <2>4. CASE k > p /\ j > p
    BY <2>4, <1>1, <1>4, <1>7, <1>12
  <2>5. CASE k > p /\ j < p
    <3>1. /\ j \in 1..n /\ g[j] = f[j] /\ f[j] < x /\ f[j] \in Int
          /\ k - 1 \in 1..n /\ g[k] = f[k - 1] /\ f[k - 1] \in Int
      BY <2>5, <1>1, <1>5, <1>7
    <3>2. x < f[k - 1]
      BY <2>5, <3>1, <1>4, <1>6
    <3> QED
      BY <3>1, <3>2, <1>1
  <2> QED
    BY <2>1, <2>2, <2>3, <2>4, <2>5, <1>9
<1> QED
  BY <1>8, <1>10, <1>11, <1>12 DEF Enumerates

LEMMA EnumerationExists ==
  \A n \in Nat : \A q \in [1..n -> Int] : Distinct(q, n) => \E f : Enumerates(f, q, n)
<1> DEFINE Fails(n) == \E q \in [1..n -> Int] : Distinct(q, n) /\ ~ \E f : Enumerates(f, q, n)
           T == {n \in Nat : Fails(n)}
<1> SUFFICES ASSUME T # {} PROVE FALSE
  OBVIOUS
<1>1. PICK n \in T : \A m \in T : n <= m
  <2>1. T \in SUBSET Nat
    OBVIOUS
  <2> HIDE DEF T
  <2> QED
    BY <2>1, LeastNatural
<1>2. PICK q \in [1..n -> Int] : Distinct(q, n) /\ ~ \E f : Enumerates(f, q, n)
  OBVIOUS
<1>3. n # 0
  <2> SUFFICES ASSUME n = 0 PROVE FALSE
    OBVIOUS
  <2>1. Enumerates([i \in 1..0 |-> 0], q, 0)
    BY DEF Enumerates
  <2> QED
    BY <2>1, <1>2
<1>4. n - 1 \in Nat /\ n - 1 \notin T /\ (n - 1) + 1 = n
  BY <1>1, <1>3
<1> DEFINE r == [i \in 1..(n - 1) |-> q[i]]
<1>5. r \in [1..(n - 1) -> Int] /\ Distinct(r, n - 1) /\ \A i \in 1..(n - 1) : r[i] = q[i]
  BY <1>2, <1>4 DEF Distinct
<1>6. PICK f : Enumerates(f, r, n - 1)
  BY <1>4, <1>5
<1> HIDE DEF r
<1>7. Enumerates(f, q, n - 1)
  BY <1>5, <1>6 DEF Enumerates
<1>8. \E g : Enumerates(g, q, (n - 1) + 1)
  BY <1>2, <1>4, <1>7, InsertOne
<1> QED
  BY <1>2, <1>4, <1>8

-----------------------------------------------------------------------------
(* Listing: position k of a manifest is a part of the k-th artifact. *)

LEMMA PositionInListing ==
  ASSUME NEW L \in Nat, NEW k \in 1..(L * PerEntry)
  PROVE  /\ ((k - 1) \div PerEntry) + 1 \in 1..L
         /\ ((k - 1) % PerEntry) + 1 \in 1..PerEntry
         /\ k - 1 = PerEntry * ((k - 1) \div PerEntry) + ((k - 1) % PerEntry)
BY StageConfigured

LEMMA PlaceInListing ==
  ASSUME NEW L \in Nat, NEW i \in 1..L, NEW p \in 1..PerEntry
  PROVE  \E k \in 1..(L * PerEntry) : /\ ((k - 1) \div PerEntry) + 1 = i
                                       /\ ((k - 1) % PerEntry) + 1 = p
<1>1. PerEntry \in Nat \ {0}
  BY StageConfigured
<1> DEFINE k == (i - 1) * PerEntry + p
<1>2. (i - 1) * PerEntry \in Nat /\ (i - 1) * PerEntry + PerEntry <= L * PerEntry
  BY <1>1
<1>3. k \in 1..(L * PerEntry)
  BY <1>1, <1>2
<1>4. (k - 1) \div PerEntry = i - 1 /\ (k - 1) % PerEntry = p - 1
  BY <1>1
<1> QED
  BY <1>3, <1>4

LEMMA LaterInListing ==
  ASSUME NEW L \in Nat, NEW j \in 1..(L * PerEntry), NEW k \in 1..(L * PerEntry), j < k
  PROVE  LET a == ((j - 1) \div PerEntry) + 1
             b == ((k - 1) \div PerEntry) + 1
         IN a < b \/ (a = b /\ ((j - 1) % PerEntry) + 1 < ((k - 1) % PerEntry) + 1)
<1> DEFINE a == (j - 1) \div PerEntry
           b == (k - 1) \div PerEntry
           c == (j - 1) % PerEntry
           d == (k - 1) % PerEntry
<1>1. /\ PerEntry \in Nat \ {0} /\ a \in Int /\ b \in Int /\ c \in 0..(PerEntry - 1) /\ d \in 0..(PerEntry - 1)
      /\ j - 1 = PerEntry * a + c /\ k - 1 = PerEntry * b + d
  BY PositionInListing, StageConfigured
<1> HIDE DEF a, b, c, d
<1>2. CASE a > b
  <2>1. PerEntry * a >= PerEntry * (b + 1)
    BY <1>1, <1>2
  <2> QED
    BY <1>1, <2>1
<1>3. CASE a = b
  BY <1>1, <1>3 DEF a, b, c, d
<1>4. CASE a < b
  BY <1>1, <1>4 DEF a, b
<1> QED
  BY <1>1, <1>2, <1>3, <1>4

-----------------------------------------------------------------------------
(* The manifest of a run that collected each selected item once. *)

Once(s) == Distinct(results[s], Len(results[s]))

LEMMA ResultsTyped ==
  ASSUME Typed, NEW s \in Shards
  PROVE  /\ Len(results[s]) \in Nat /\ DOMAIN results[s] = 1..Len(results[s])
         /\ results[s] \in [1..Len(results[s]) -> Items]
         /\ Collected(s) = {results[s][k] : k \in 1..Len(results[s])}
         /\ Collected(s) \subseteq Items
<1>1. results[s] \in Seq(Items)
  BY DEF Typed
<1> QED
  BY <1>1, LenProperties DEF Collected

LEMMA SortedResults ==
  ASSUME Typed, NEW s \in Shards, Once(s)
  PROVE  /\ Sorted(s) \in [1..Len(results[s]) -> Collected(s)]
         /\ \A i \in Collected(s) : \E k \in 1..Len(results[s]) : Sorted(s)[k] = i
         /\ \A j, k \in 1..Len(results[s]) : j < k => Sorted(s)[j] < Sorted(s)[k]
<1> DEFINE n == Len(results[s])
           Is(f) == /\ \A i \in Collected(s) : \E k \in DOMAIN f : f[k] = i
                    /\ \A j, k \in DOMAIN f : j < k => f[j] < f[k]
<1>1. /\ n \in Nat /\ results[s] \in [1..n -> Int] /\ Distinct(results[s], n)
      /\ Collected(s) = {results[s][k] : k \in 1..n}
  BY ResultsTyped DEF Items, Once
<1>2. PICK f : Enumerates(f, results[s], n)
  BY <1>1, EnumerationExists
<1>3. f \in [1..n -> Collected(s)] /\ Is(f)
  <2>1. /\ f \in [1..n -> Int] /\ DOMAIN f = 1..n
        /\ \A k \in 1..n : \E i \in 1..n : f[k] = results[s][i]
        /\ \A i \in 1..n : \E k \in 1..n : f[k] = results[s][i]
        /\ \A j, k \in 1..n : j < k => f[j] < f[k]
    BY <1>2 DEF Enumerates
  <2>2. \A k \in 1..n : f[k] \in Collected(s)
    BY <1>1, <2>1
  <2>3. \A i \in Collected(s) : \E k \in 1..n : f[k] = i
    BY <1>1, <2>1
  <2> QED
    BY <2>1, <2>2, <2>3
<1>4. Sorted(s) = CHOOSE g \in [1..n -> Collected(s)] : Is(g)
  BY DEF Sorted
<1> HIDE DEF Is
<1>5. Sorted(s) \in [1..n -> Collected(s)] /\ Is(Sorted(s))
  BY <1>3, <1>4
<1> QED
  BY <1>5 DEF Is

InOrder(s, e) ==
  /\ {e[k] : k \in DOMAIN e} = Selected(s) \X (1..PerEntry)
  /\ \A j, k \in DOMAIN e :
       j < k => e[j][1] < e[k][1] \/ (e[j][1] = e[k][1] /\ e[j][2] < e[k][2])

LEMMA ListingInOrder ==
  ASSUME Typed, NEW s \in Shards, Once(s), Collected(s) = Selected(s)
  PROVE  Listing(s) \in Seq(Artifacts) /\ InOrder(s, Listing(s))
<1> DEFINE n == Len(results[s])
           Item(k) == ((k - 1) \div PerEntry) + 1
           Part(k) == ((k - 1) % PerEntry) + 1
           e == Listing(s)
<1>1. n \in Nat /\ n * PerEntry \in Nat /\ Selected(s) \subseteq Items
  BY ResultsTyped, SelectedApart, StageConfigured
<1>2. /\ Sorted(s) \in [1..n -> Selected(s)]
      /\ \A i \in Selected(s) : \E k \in 1..n : Sorted(s)[k] = i
      /\ \A j, k \in 1..n : j < k => Sorted(s)[j] < Sorted(s)[k]
  BY SortedResults
<1>3. DOMAIN e = 1..(n * PerEntry)
      /\ \A k \in 1..(n * PerEntry) : e[k] = <<Sorted(s)[Item(k)], Part(k)>>
  BY DEF Listing
<1>4. \A k \in 1..(n * PerEntry) : Item(k) \in 1..n /\ Part(k) \in 1..PerEntry
  BY <1>1, PositionInListing
<1>5. \A i \in 1..n, p \in 1..PerEntry : \E k \in 1..(n * PerEntry) : Item(k) = i /\ Part(k) = p
  BY <1>1, PlaceInListing
<1>6. \A j, k \in 1..(n * PerEntry) :
        j < k => Item(j) < Item(k) \/ (Item(j) = Item(k) /\ Part(j) < Part(k))
  BY <1>1, LaterInListing
<1> HIDE DEF n, Item, Part, e
<1>7. ASSUME NEW k \in 1..(n * PerEntry)
      PROVE  e[k] \in Selected(s) \X (1..PerEntry)
  <2>1. Sorted(s)[Item(k)] \in Selected(s) /\ Part(k) \in 1..PerEntry
    BY <1>2, <1>4
  <2>2. e[k] = <<Sorted(s)[Item(k)], Part(k)>>
    BY <1>3
  <2>3. \A a \in Selected(s), b \in 1..PerEntry : <<a, b>> \in Selected(s) \X (1..PerEntry)
    OBVIOUS
  <2> QED
    BY <2>1, <2>2, <2>3, Zenon
<1>8. e \in Seq(Artifacts)
  <2>1. e = [k \in 1..(n * PerEntry) |-> <<Sorted(s)[Item(k)], Part(k)>>]
    BY DEF e, Listing, n, Item, Part
  <2>2. \A k \in 1..(n * PerEntry) : <<Sorted(s)[Item(k)], Part(k)>> \in Artifacts
    BY <1>1, <1>2, <1>4 DEF Artifacts
  <2>3. e \in [1..(n * PerEntry) -> Artifacts]
    BY <2>1, <2>2
  <2> QED
    BY <1>1, <2>3, FunctionIsSeq
<1>9. \A a \in Selected(s) \X (1..PerEntry) : \E k \in DOMAIN e : e[k] = a
  <2> SUFFICES ASSUME NEW i \in Selected(s), NEW p \in 1..PerEntry
               PROVE  \E k \in DOMAIN e : e[k] = <<i, p>>
    OBVIOUS
  <2>1. PICK m \in 1..n : Sorted(s)[m] = i
    BY <1>2
  <2>2. PICK k \in 1..(n * PerEntry) : Item(k) = m /\ Part(k) = p
    BY <1>5
  <2> QED
    BY <1>3, <2>1, <2>2
<1>10. {e[k] : k \in DOMAIN e} = Selected(s) \X (1..PerEntry)
  BY <1>3, <1>7, <1>9
<1>11. ASSUME NEW j \in DOMAIN e, NEW k \in DOMAIN e, j < k
       PROVE  e[j][1] < e[k][1] \/ (e[j][1] = e[k][1] /\ e[j][2] < e[k][2])
  <2>1. /\ e[j][1] = Sorted(s)[Item(j)] /\ e[j][2] = Part(j)
        /\ e[k][1] = Sorted(s)[Item(k)] /\ e[k][2] = Part(k)
        /\ Item(j) \in 1..n /\ Item(k) \in 1..n
    BY <1>3, <1>4
  <2> QED
    BY <1>2, <1>3, <1>6, <1>11, <2>1
<1> QED
  BY <1>8, <1>10, <1>11 DEF InOrder, e

-----------------------------------------------------------------------------
(* The invariant of the manifests. *)

ManifestsTyped ==
  /\ manifest \in [Shards -> [run : Nat, entries : Seq(Artifacts)]]
  /\ \A s \in Shards : manifest[s].run <= run[s]
  /\ faults \in 0..MaxFaults

CollectedOnce == \A s \in Shards : Once(s)

Ordered == \A s \in Shards : manifest[s].run # 0 => InOrder(s, manifest[s].entries)

(* The manifest of a run that is not followed by another one: the run is   *)
(* over, and its results are all there.                                    *)
Latest ==
  \A s \in Shards :
    manifest[s].run # 0 /\ manifest[s].run = run[s] => mode[s] = "done" /\ Collected(s) = Selected(s)

ManifestInv == ManifestsTyped /\ CollectedOnce /\ Ordered /\ Latest

LEMMA ManifestInit == Init => ManifestInv
<1> SUFFICES ASSUME Init PROVE ManifestInv
  OBVIOUS
<1>1. ManifestsTyped
  BY StageConfigured DEF Init, ManifestsTyped
<1>2. CollectedOnce
  BY DEF Init, CollectedOnce, Once, Distinct
<1>3. Ordered /\ Latest
  BY DEF Init, Ordered, Latest
<1> QED
  BY <1>1, <1>2, <1>3 DEF ManifestInv

(* Steps that leave manifests, runs, modes and results alone. *)
LEMMA ManifestsUntouched ==
  ASSUME ManifestInv, UNCHANGED <<manifest, run, mode, results>>, faults' \in 0..MaxFaults
  PROVE  ManifestInv'
BY DEF ManifestInv, ManifestsTyped, CollectedOnce, Ordered, Latest, Once, Distinct, InOrder, Collected

LEMMA FaultsCount ==
  ASSUME ManifestInv, Fault
  PROVE  faults' \in 0..MaxFaults
BY StageConfigured DEF ManifestInv, ManifestsTyped, Fault

LEMMA ManifestWorker ==
  ASSUME ManifestInv, NEW w \in Workers, WorkerStep(w) \/ WorkerFault(w)
  PROVE  ManifestInv'
<1>1. UNCHANGED <<manifest, run, mode, results>>
  BY DEF WorkerStep, WorkerFault, Commit, TakeItem, Retry, GiveUp, InvalidTask, Check, LookForTemp,
         ClearTemp, MakeTemp, WriteFile, LookForTarget, RemoveTarget, Publish, DiskError, CleanUp,
         FailToMake, FailToCommit, RemoveMoved, LoseWorker, parent
<1>2. faults' = faults \/ Fault
  BY DEF WorkerStep, WorkerFault, Commit, TakeItem, Retry, GiveUp, InvalidTask, Check, LookForTemp,
         ClearTemp, MakeTemp, WriteFile, LookForTarget, RemoveTarget, Publish, DiskError, CleanUp,
         FailToMake, FailToCommit, RemoveMoved, LoseWorker
<1>3. faults' \in 0..MaxFaults
  BY <1>2, FaultsCount DEF ManifestInv, ManifestsTyped
<1> QED
  BY <1>1, <1>3, ManifestsUntouched

(* A new run makes the manifest there is one of an earlier run. *)
LEMMA ManifestStart ==
  ASSUME Typed, ManifestInv, NEW s \in Shards, StartRun(s)
  PROVE  ManifestInv'
<1>1. /\ run' = [run EXCEPT ![s] = run[s] + 1] /\ mode' = [mode EXCEPT ![s] = "running"]
      /\ results' = [results EXCEPT ![s] = <<>>] /\ UNCHANGED <<manifest, faults>>
  BY DEF StartRun, Select
<1>2. /\ run \in [Shards -> 0..MaxRuns] /\ mode \in [Shards -> Modes] /\ results \in [Shards -> Seq(Items)]
        /\ \A k \in Shards : run[k] \in Nat
  BY StageConfigured DEF Typed
<1>3. /\ run'[s] = run[s] + 1 /\ results'[s] = <<>>
      /\ \A k \in Shards \ {s} : run'[k] = run[k] /\ results'[k] = results[k] /\ mode'[k] = mode[k]
  BY <1>1, <1>2
<1>4. ManifestsTyped'
  BY <1>1, <1>2, <1>3 DEF ManifestInv, ManifestsTyped
<1>5. CollectedOnce'
  BY <1>3 DEF ManifestInv, CollectedOnce, Once, Distinct
<1>6. Ordered'
  BY <1>1 DEF ManifestInv, Ordered, InOrder
<1>7. Latest'
  <2> SUFFICES ASSUME NEW k \in Shards, manifest[k].run # 0, manifest[k].run = run'[k]
               PROVE  mode'[k] = "done" /\ Collected(k)' = Selected(k)
    BY <1>1 DEF Latest
  <2>1. k # s
    BY <1>2, <1>3 DEF ManifestInv, ManifestsTyped
  <2> QED
    BY <1>3, <2>1 DEF ManifestInv, Latest, Collected
<1> QED
  BY <1>4, <1>5, <1>6, <1>7 DEF ManifestInv

LEMMA ManifestCollect ==
  ASSUME Typed, ManifestInv, NEW s \in Shards, Collect(s)
  PROVE  ManifestInv'
<1>1. PICK i \in Selected(s) \ Collected(s) : results' = [results EXCEPT ![s] = Append(@, i)]
  BY DEF Collect
<1>2. mode[s] = "running" /\ UNCHANGED <<manifest, run, mode, faults>>
  BY DEF Collect, parent
<1>3. /\ results[s] \in Seq(Items) /\ i \in Items
      /\ results'[s] = Append(results[s], i)
      /\ \A k \in Shards \ {s} : results'[k] = results[k]
  BY <1>1, SelectedApart DEF Typed
<1>4. ManifestsTyped' /\ Ordered'
  BY <1>2 DEF ManifestInv, ManifestsTyped, Ordered, InOrder
<1>5. CollectedOnce'
  <2> DEFINE n == Len(results[s])
  <2>1. /\ n \in Nat /\ Len(results'[s]) = n + 1 /\ results'[s][n + 1] = i
        /\ \A k \in 1..n : results'[s][k] = results[s][k] /\ results[s][k] \in Collected(s)
    BY <1>3, ResultsTyped, AppendProperties
  <2>2. Distinct(results[s], n)
    BY DEF ManifestInv, CollectedOnce, Once
  <2> HIDE DEF n
  <2>3. ASSUME NEW j \in 1..(n + 1), NEW k \in 1..(n + 1), results'[s][j] = results'[s][k]
        PROVE  j = k
    <3>1. CASE j = n + 1 /\ k = n + 1
      BY <3>1
    <3>2. CASE j \in 1..n /\ k \in 1..n
      BY <2>1, <2>2, <2>3, <3>2 DEF Distinct
    <3>3. CASE (j \in 1..n /\ k = n + 1) \/ (j = n + 1 /\ k \in 1..n)
      BY <1>1, <2>1, <2>3, <3>3
    <3> QED
      BY <2>1, <3>1, <3>2, <3>3
  <2>4. Distinct(results'[s], n + 1)
    BY <2>3 DEF Distinct
  <2>5. Once(s)'
    BY <2>1, <2>4 DEF Once, n, Distinct
  <2>6. \A k \in Shards \ {s} : Once(k)'
    BY <1>3 DEF ManifestInv, CollectedOnce, Once, Distinct
  <2> QED
    BY <2>5, <2>6 DEF CollectedOnce
<1>6. Latest'
  BY <1>2, <1>3 DEF ManifestInv, Latest, Collected
<1> QED
  BY <1>4, <1>5, <1>6 DEF ManifestInv

LEMMA ManifestWrite ==
  ASSUME Typed, ManifestInv, NEW s \in Shards, WriteManifest(s)
  PROVE  ManifestInv'
<1>1. /\ mode[s] = "running" /\ Collected(s) = Selected(s)
      /\ UNCHANGED <<run, results, faults>> /\ Once(s)
      /\ run[s] \in Nat /\ mode \in [Shards -> Modes]
  BY StageConfigured DEF WriteManifest, ManifestInv, CollectedOnce, Typed
<1>2. CASE mode' = [mode EXCEPT ![s] = "raised"] /\ UNCHANGED manifest
  <2>1. \A k \in Shards \ {s} : mode'[k] = mode[k]
    BY <1>1, <1>2
  <2>2. Latest'
    BY <1>1, <1>2, <2>1 DEF ManifestInv, Latest, Collected
  <2>3. ManifestsTyped' /\ Ordered'
    BY <1>1, <1>2 DEF ManifestInv, ManifestsTyped, Ordered, InOrder
  <2>4. CollectedOnce'
    BY <1>1 DEF ManifestInv, CollectedOnce, Once, Distinct
  <2> QED
    BY <2>2, <2>3, <2>4 DEF ManifestInv
<1>3. CASE /\ mode' = [mode EXCEPT ![s] = "done"]
           /\ manifest' = [manifest EXCEPT ![s] = [run |-> run[s], entries |-> Listing(s)]]
  <2>1. Listing(s) \in Seq(Artifacts) /\ InOrder(s, Listing(s))
    BY <1>1, ListingInOrder
  <2>2. manifest \in [Shards -> [run : Nat, entries : Seq(Artifacts)]]
    BY DEF ManifestInv, ManifestsTyped
  <2>3. /\ \A k \in Shards \ {s} : manifest'[k] = manifest[k] /\ mode'[k] = mode[k]
        /\ manifest'[s].run = run[s] /\ manifest'[s].entries = Listing(s) /\ mode'[s] = "done"
        /\ manifest' \in [Shards -> [run : Nat, entries : Seq(Artifacts)]]
    BY <1>1, <1>3, <2>1, <2>2
  <2>4. ManifestsTyped'
    BY <1>1, <2>3 DEF ManifestInv, ManifestsTyped
  <2>5. CollectedOnce'
    BY <1>1 DEF ManifestInv, CollectedOnce, Once, Distinct
  <2>6. Ordered'
    <3>1. \A k \in Shards \ {s} : manifest'[k].run # 0 => InOrder(k, manifest'[k].entries)
      BY <2>3 DEF ManifestInv, Ordered
    <3>2. InOrder(s, manifest'[s].entries)
      BY <2>1, <2>3
    <3> QED
      BY <3>1, <3>2 DEF Ordered, InOrder
  <2>7. Latest'
    BY <1>1, <2>3 DEF ManifestInv, Latest, Collected
  <2> QED
    BY <2>4, <2>5, <2>6, <2>7 DEF ManifestInv
<1> QED
  BY <1>2, <1>3 DEF WriteManifest

(* What ends a run otherwise, or breaks its pool, only happens to active ones. *)
LEMMA ManifestOtherwise ==
  ASSUME Typed, ManifestInv, NEW s \in Shards, Raise(s) \/ LeavePool(s) \/ ParentFault(s)
  PROVE  ManifestInv'
<1>1. /\ UNCHANGED <<manifest, run, results>> /\ mode[s] # "done"
      /\ \A k \in Shards \ {s} : mode'[k] = mode[k]
  BY DEF Raise, LeavePool, ParentFault, Crash, BreakPool, parent, Active, Typed
<1>2. faults' \in 0..MaxFaults
  BY FaultsCount DEF ManifestInv, ManifestsTyped, Raise, LeavePool, ParentFault, Crash, BreakPool
<1>3. Latest'
  BY <1>1 DEF ManifestInv, Latest, Collected
<1> QED
  BY <1>1, <1>2, <1>3 DEF ManifestInv, ManifestsTyped, CollectedOnce, Once, Distinct, Ordered, InOrder

LEMMA ManifestStep == StageInv /\ ManifestInv /\ [Next]_vars => ManifestInv'
<1> SUFFICES ASSUME StageInv, ManifestInv, [Next]_vars PROVE ManifestInv'
  OBVIOUS
<1>1. CASE \E w \in Workers : WorkerStep(w) \/ WorkerFault(w)
  BY <1>1, ManifestWorker
<1>2. CASE \E s \in Shards : StartRun(s) \/ ParentStep(s) \/ ParentFault(s)
  BY <1>2, ManifestStart, ManifestCollect, ManifestWrite, ManifestOtherwise DEF StageInv, ParentStep
<1>3. CASE UNCHANGED vars
  BY <1>3, ManifestsUntouched DEF vars, ManifestInv, ManifestsTyped
<1> QED
  BY <1>1, <1>2, <1>3 DEF Next

(* A run collects each result once, and a manifest is written only over    *)
(* all of them.                                                            *)
THEOREM ManifestsSafe == Spec => [](StageInv /\ ManifestInv)
BY StageInit, StageStep, ManifestInit, ManifestStep, PTL DEF Spec

(* Every variable keeps its type. *)
THEOREM TypesKept == Spec => []TypeOK
<1>1. StageInv /\ ManifestInv => TypeOK
  <2> SUFFICES ASSUME StageInv, ManifestInv PROVE TypeOK
    OBVIOUS
  <2>1. /\ target \in [Artifacts -> Directory] /\ temp \in [Artifacts -> Directory]
        /\ run \in [Shards -> 0..MaxRuns] /\ overwrite \in [Pools -> BOOLEAN]
        /\ mode \in [Shards -> {"new", "running", "raising", "raised", "done", "crashed"}]
        /\ outcome \in [Items -> {"none", "ok", "failed"}]
        /\ worker \in [Workers -> WorkerType]
        /\ faults \in 0..MaxFaults /\ shared \subseteq Runs \X Items
        /\ queue \in [Pools -> SUBSET Items]
    BY DEF StageInv, Typed, Modes, ManifestInv, ManifestsTyped
  <2>2. \A s \in Shards : manifest[s].run \in 0..run[s] /\ manifest[s].entries \in Seq(Artifacts)
    BY StageConfigured DEF StageInv, Typed, ManifestInv, ManifestsTyped
  <2>3. ASSUME NEW s \in Shards
        PROVE  results[s] \in Seq(Selected(s))
    <3>1. /\ Len(results[s]) \in Nat /\ results[s] \in [1..Len(results[s]) -> Items]
          /\ Collected(s) = {results[s][k] : k \in 1..Len(results[s])}
      BY ResultsTyped DEF StageInv
    <3>2. \A j \in Collected(s) : j \in Selected(s)
      BY DEF StageInv, Owned, ResultsOwn
    <3>3. results[s] \in [1..Len(results[s]) -> Selected(s)]
      BY <3>1, <3>2
    <3> QED
      BY <3>1, <3>3, FunctionIsSeq
  <2>4. \A p \in Pools : queue[p] \subseteq Selected(p[1])
    BY DEF StageInv, Owned, PoolsOwn
  <2> QED
    BY <2>1, <2>2, <2>3, <2>4 DEF TypeOK
<1> QED
  BY <1>1, ManifestsSafe, PTL

(* Whatever the pool's schedule, faults, kills and leftovers, and whatever *)
(* workers a killed run left behind do meanwhile: what the manifest of the *)
(* shard's last run lists is on disk, whole, from that run, but for the    *)
(* items such a worker still had to do when the run began.                 *)
THEOREM ManifestsListWholeArtifacts == Spec => []ManifestedArtifactsWhole
<1>1. StageInv /\ ManifestInv => ManifestedArtifactsWhole
  <2> SUFFICES ASSUME StageInv, ManifestInv, NEW s \in Shards,
                      manifest[s].run # 0, manifest[s].run = run[s], NEW k \in DOMAIN manifest[s].entries,
                      Alone(run[s], manifest[s].entries[k][1])
               PROVE  Whole(target[manifest[s].entries[k]], manifest[s].run)
    BY DEF ManifestedArtifactsWhole
  <2>1. manifest[s].entries[k] \in Selected(s) \X (1..PerEntry)
    BY DEF ManifestInv, Ordered, InOrder
  <2>2. PICK i \in Selected(s), p \in 1..PerEntry : manifest[s].entries[k] = <<i, p>>
    BY <2>1
  <2>3. outcome[i] = "ok"
    BY DEF StageInv, Owned, ResultsOwn, ManifestInv, Latest
  <2>4. Whole(target[<<i, p>>], run[s])
    BY <2>2, <2>3 DEF StageInv, Stored, SucceededItemsWhole
  <2> QED
    BY <2>2, <2>4
<1> QED
  BY <1>1, ManifestsSafe, PTL

(* Manifests list exactly the selected entries, in their order.            *)
THEOREM ManifestsInInputOrder == Spec => []ManifestInOrder
<1>1. StageInv /\ ManifestInv => ManifestInOrder
  BY DEF ManifestInv, Ordered, InOrder, ManifestInOrder
<1> QED
  BY <1>1, ManifestsSafe, PTL

(* The shards' manifests partition the slice that was asked for.           *)
THEOREM ShardsPartitionTheSlice == Spec => []ShardsCoverSlice
<1>1. StageInv /\ ManifestInv => ShardsCoverSlice
  <2> SUFFICES ASSUME ManifestInv, \A s \in Shards : manifest[s].run # 0, NEW a \in Artifacts
               PROVE  Cardinality({s \in Shards : \E k \in DOMAIN manifest[s].entries : manifest[s].entries[k] = a})
                        = IF StartIndex <= a[1] /\ a[1] < StartIndex + Count THEN 1 ELSE 0
    BY DEF ShardsCoverSlice
  <2> DEFINE Listed == {s \in Shards : \E k \in DOMAIN manifest[s].entries : manifest[s].entries[k] = a}
  <2>1. a[1] \in Items /\ a[2] \in 1..PerEntry /\ a = <<a[1], a[2]>>
    BY DEF Artifacts
  <2>2. \A s \in Shards : {manifest[s].entries[k] : k \in DOMAIN manifest[s].entries} = Selected(s) \X (1..PerEntry)
    BY DEF ManifestInv, Ordered, InOrder
  <2>3. Listed = {s \in Shards : a[1] \in Selected(s)}
    <3>1. \A s \in Shards : (\E k \in DOMAIN manifest[s].entries : manifest[s].entries[k] = a)
                              <=> a \in Selected(s) \X (1..PerEntry)
      BY <2>2
    <3>2. \A s \in Shards : a \in Selected(s) \X (1..PerEntry) <=> a[1] \in Selected(s)
      BY <2>1
    <3> QED
      BY <3>1, <3>2
  <2> HIDE DEF Listed
  <2>4. ShardOf(a) \in Shards
    BY <2>1, StageConfigured DEF Items, ShardOf, Shards
  <2>5. CASE StartIndex <= a[1] /\ a[1] < StartIndex + Count
    <3>1. Listed = {ShardOf(a)}
      BY <2>1, <2>3, <2>4, <2>5 DEF Selected, ShardOf
    <3> QED
      BY <2>5, <3>1, FS_Singleton DEF Listed
  <2>6. CASE ~(StartIndex <= a[1] /\ a[1] < StartIndex + Count)
    <3>1. Listed = {}
      BY <2>1, <2>3, <2>6 DEF Selected
    <3> QED
      BY <2>6, <3>1, FS_EmptySet DEF Listed
  <2> QED
    BY <2>5, <2>6
<1> QED
  BY <1>1, ManifestsSafe, PTL

-----------------------------------------------------------------------------
(* The stage implements the artifact store.  Where a run has an item for   *)
(* itself, a worker past the check finds an artifact in its way only in a  *)
(* run with overwrite.                                                     *)

PastCheck == {"clear", "clearing", "make", "write", "retire", "retiring", "move"}
Past(w) == worker[w].step \in PastCheck

OverwriteGuards ==
  \A w \in Workers : Past(w) /\ Mine(w) /\ target[Artifact(w)].there => overwrite[PoolOf(w)]

StoreInv == StageInv /\ ManifestInv /\ OverwriteGuards

LEMMA GuardsKept ==
  ASSUME Typed, Owned, OverwriteGuards, UNCHANGED <<overwrite, shared>>,
         NEW w \in Workers, Busy(w) \/ target' = target,
         \A v \in Workers \ {w} : worker'[v] = worker[v],
         \A a \in Artifacts : target'[a].there => target[a].there \/ a = Artifact(w),
         Past(w)' /\ Mine(w)' /\ target'[Artifact(w)'].there => overwrite[PoolOf(w)]
  PROVE  OverwriteGuards'
<1> SUFFICES ASSUME NEW v \in Workers, Past(v)', Mine(v)', target'[Artifact(v)'].there
             PROVE  overwrite[PoolOf(v)]
  BY DEF OverwriteGuards, PoolOf
<1>1. CASE v = w
  BY <1>1
<1>2. CASE v # w
  <2>1. Past(v) /\ Artifact(v)' = Artifact(v) /\ Busy(v) /\ Mine(v)
    BY <1>2 DEF Past, At, Artifact, Busy, Mine, Alone, RunOf
  <2>2. Artifact(v) \in Artifacts
    BY <2>1, WorkerPlace
  <2>3. Busy(w) => Artifact(v) # Artifact(w)
    BY <1>2, <2>1, AloneApart DEF Artifact
  <2> QED
    BY <2>1, <2>2, <2>3 DEF OverwriteGuards
<1> QED
  BY <1>1, <1>2

(* A worker goes past a check, or stays past it. *)
LEMMA GuardsGoto ==
  ASSUME Typed, Owned, OverwriteGuards, UNCHANGED <<overwrite, shared>>,
         NEW w \in Workers, Busy(w), NEW step, Kept(w, step, worker[w].part),
         \A a \in Artifacts : target'[a].there => target[a].there,
         step \in PastCheck => Past(w) \/ (target[Artifact(w)].there => overwrite[PoolOf(w)])
  PROVE  OverwriteGuards'
<1>1. /\ \A v \in Workers \ {w} : worker'[v] = worker[v]
      /\ Artifact(w)' = Artifact(w) /\ worker'[w].step = step /\ (Mine(w)' => Mine(w))
      /\ Artifact(w) \in Artifacts
  BY WorkerPlace DEF Kept, Artifact, Mine, Alone, RunOf
<1>2. Past(w)' /\ Mine(w)' /\ target'[Artifact(w)'].there => overwrite[PoolOf(w)]
  BY <1>1 DEF Past, OverwriteGuards
<1> QED
  BY <1>1, <1>2, GuardsKept

(* A worker is no longer past the check. *)
LEMMA GuardsLeft ==
  ASSUME Typed, Owned, OverwriteGuards, UNCHANGED <<overwrite, shared>>,
         NEW w \in Workers, Busy(w) \/ target' = target,
         \A v \in Workers \ {w} : worker'[v] = worker[v], ~Past(w)',
         \A a \in Artifacts : target'[a].there => target[a].there \/ a = Artifact(w)
  PROVE  OverwriteGuards'
BY GuardsKept

LEMMA GuardsWorker ==
  ASSUME Typed, Owned, OverwriteGuards, NEW w \in Workers, WorkerStep(w) \/ WorkerFault(w)
  PROVE  OverwriteGuards'
<1>1. UNCHANGED <<overwrite, shared>>
  BY DEF WorkerStep, WorkerFault, Commit, TakeItem, Retry, GiveUp, InvalidTask, Check, LookForTemp,
         ClearTemp, MakeTemp, WriteFile, LookForTarget, RemoveTarget, Publish, DiskError, CleanUp,
         FailToMake, FailToCommit, RemoveMoved, LoseWorker, parent
<1>2. ASSUME Busy(w), Settle(w, "failed"), target' = target
      PROVE  OverwriteGuards'
  <2>1. ~Past(w)' /\ \A v \in Workers \ {w} : worker'[v] = worker[v]
    BY <1>2, SettleGivesUp DEF Past, PastCheck, Idle
  <2> QED
    BY <1>1, <1>2, <2>1, GuardsLeft
<1>3. {"clear", "clearing", "make", "write", "retire", "retiring", "move", "cleanup"} \subseteq Steps
  BY DEF Steps
<1>4. "generate" \notin PastCheck /\ "cleanup" \notin PastCheck /\ "idle" \notin PastCheck
      /\ "dead" \notin PastCheck
  BY DEF PastCheck
<1>a. CASE TakeItem(w)
  <2>1. PICK i \in queue[PoolOf(w)] : worker' = [worker EXCEPT ![w] = Starting(i)]
    BY <1>a DEF TakeItem
  <2>2. (\A v \in Workers \ {w} : worker'[v] = worker[v]) /\ ~Past(w)' /\ target' = target
    BY <1>a, <2>1 DEF TakeItem, Typed, Starting, Past, PastCheck, disk
  <2> QED
    BY <1>1, <2>2, GuardsLeft
<1>b. CASE Retry(w)
  <2>1. Busy(w) /\ target' = target
    BY <1>b DEF Retry, Busy, At, disk
  <2> QED
    BY <1>1, <1>4, <1>b, <2>1, RetryKeeps, GuardsGoto
<1>c. CASE GiveUp(w) \/ InvalidTask(w) \/ FailToMake(w)
  BY <1>2, <1>c DEF GiveUp, InvalidTask, FailToMake, Busy, At, disk
<1>d. CASE Check(w)
  <2>1. CASE Settle(w, "failed")
    BY <1>2, <1>d, <2>1 DEF Check, Busy, At, disk
  <2>2. CASE Goto(w, "clear") /\ ~(target[Artifact(w)].there /\ ~overwrite[PoolOf(w)])
    <3>1. overwrite[PoolOf(w)] \in BOOLEAN /\ Busy(w) /\ target' = target
      BY <1>d, WorkerPlace DEF Typed, Check, Busy, At, disk
    <3>2. target[Artifact(w)].there => overwrite[PoolOf(w)]
      BY <2>2, <3>1
    <3>3. Kept(w, "clear", worker[w].part)
      BY <1>3, <2>2, GotoKeeps
    <3> QED
      BY <1>1, <3>1, <3>2, <3>3, GuardsGoto
  <2> QED
    BY <1>d, <2>1, <2>2 DEF Check
<1>e. CASE LookForTemp(w)
  <2>1. Busy(w) /\ Past(w) /\ target' = target
    BY <1>e DEF LookForTemp, Busy, Past, PastCheck, At, disk
  <2>2. Kept(w, "clearing", worker[w].part) \/ Kept(w, "make", worker[w].part)
    BY <1>3, <1>e, GotoKeeps DEF LookForTemp
  <2> QED
    BY <1>1, <2>1, <2>2, GuardsGoto
<1>f. CASE LookForTarget(w)
  <2>1. Busy(w) /\ Past(w) /\ target' = target
    BY <1>f DEF LookForTarget, Busy, Past, PastCheck, At, disk
  <2>2. Kept(w, "retiring", worker[w].part) \/ Kept(w, "move", worker[w].part)
    BY <1>3, <1>f, GotoKeeps DEF LookForTarget
  <2> QED
    BY <1>1, <2>1, <2>2, GuardsGoto
<1>g. CASE DiskError(w) \/ FailToCommit(w)
  <2>1. Busy(w) /\ target' = target /\ Kept(w, "cleanup", worker[w].part)
    BY <1>3, <1>g, GotoKeeps DEF DiskError, FailToCommit, Busy, At, disk
  <2> QED
    BY <1>1, <1>4, <2>1, GuardsGoto
<1>h. CASE ClearTemp(w)
  <2>1. Busy(w) /\ Past(w) /\ target' = target
    BY <1>h DEF ClearTemp, Busy, Past, PastCheck, At
  <2>2. Kept(w, worker[w].step, worker[w].part) \/ Kept(w, "make", worker[w].part)
    BY <1>3, <1>h, GotoKeeps, StayKeeps DEF ClearTemp
  <2> QED
    BY <1>1, <2>1, <2>2, GuardsGoto
<1>i. CASE MakeTemp(w)
  <2>1. Busy(w) /\ Past(w) /\ target' = target
    BY <1>i DEF MakeTemp, Busy, Past, PastCheck, At
  <2> QED
    BY <1>1, <1>i, <2>1, MakeTempKeeps, GuardsGoto
<1>j. CASE WriteFile(w)
  <2>1. Busy(w) /\ Past(w) /\ target' = target
    BY <1>j DEF WriteFile, Busy, Past, PastCheck, At
  <2>2. Kept(w, "retire", worker[w].part) \/ Kept(w, "write", worker[w].part)
    BY <1>j, WriteFileKeeps
  <2> QED
    BY <1>1, <2>1, <2>2, GuardsGoto
<1>k. CASE RemoveTarget(w)
  <2>1. Busy(w) /\ Past(w) /\ target[Artifact(w)].there
    BY <1>k DEF RemoveTarget, Busy, Past, PastCheck, At
  <2>2. \A a \in Artifacts : target'[a].there => target[a].there
    <3>1. PICK d \in Shrunk(target[Artifact(w)]) : target' = [target EXCEPT ![Artifact(w)] = d]
      BY <1>k DEF RemoveTarget
    <3> QED
      BY <2>1, <3>1 DEF Typed
  <2>3. Kept(w, worker[w].step, worker[w].part) \/ Kept(w, "move", worker[w].part)
    BY <1>3, <1>k, GotoKeeps, StayKeeps DEF RemoveTarget
  <2> QED
    BY <1>1, <2>1, <2>2, <2>3, GuardsGoto
<1>l. CASE Publish(w)
  <2>1. Busy(w) /\ \A a \in Artifacts : target'[a].there => target[a].there \/ a = Artifact(w)
    BY <1>l DEF Publish, Busy, At, Typed
  <2>2. ~Past(w)' /\ \A v \in Workers \ {w} : worker'[v] = worker[v]
    <3>1. CASE worker[w].part < PerEntry
      BY <1>4, <1>l, <3>1, NextPartKeeps DEF Publish, Kept, Past
    <3>2. CASE ~(worker[w].part < PerEntry)
      BY <1>l, <2>1, <3>2, SettleGivesUp DEF Publish, Past, PastCheck, Idle
    <3> QED
      BY <3>1, <3>2
  <2> QED
    BY <1>1, <2>1, <2>2, GuardsLeft
<1>m. CASE CleanUp(w)
  <2>1. Busy(w) /\ target' = target /\ worker[w].step = "cleanup"
    BY <1>m DEF CleanUp, Busy, At
  <2>2. CASE Settle(w, "failed")
    BY <1>2, <2>1, <2>2
  <2>3. CASE UNCHANGED <<futures, worker>>
    BY <1>1, <1>4, <2>1, <2>3, StayKeeps, GuardsGoto
  <2> QED
    BY <1>m, <2>2, <2>3 DEF CleanUp
<1>n. CASE RemoveMoved(w)
  <2>1. Busy(w) /\ Kept(w, worker[w].step, worker[w].part) /\ Artifact(w) \in Artifacts
    BY <1>n, StayKeeps, WorkerPlace DEF RemoveMoved, Busy, At
  <2>2. PICK x \in target[Artifact(w)].has : target' = [target EXCEPT ![Artifact(w)].has = @ \ {x}]
    BY <1>n DEF RemoveMoved
  <2>3. \A a \in Artifacts : target'[a].there => target[a].there
    BY <2>1, <2>2 DEF Typed, Directory
  <2>4. worker[w].step \in PastCheck => Past(w)
    BY DEF Past
  <2> QED
    BY <1>1, <2>1, <2>3, <2>4, GuardsGoto
<1>o. CASE LoseWorker(w)
  <2>1. (\A v \in Workers \ {w} : worker'[v] = worker[v]) /\ ~Past(w)' /\ target' = target
    BY <1>o DEF LoseWorker, Typed, Dead, Past, PastCheck, disk
  <2> QED
    BY <1>1, <2>1, GuardsLeft
<1> QED
  BY <1>a, <1>b, <1>c, <1>d, <1>e, <1>f, <1>g, <1>h, <1>i, <1>j, <1>k, <1>l, <1>m, <1>n, <1>o
  DEF WorkerStep, WorkerFault, Commit

LEMMA GuardsParent ==
  ASSUME Typed, Owned, OverwriteGuards, NEW s \in Shards,
         StartRun(s) \/ ParentStep(s) \/ ParentFault(s)
  PROVE  OverwriteGuards'
<1>1. /\ target' = target /\ shared \subseteq shared'
      /\ \A w \in Workers : worker'[w] = worker[w] \/ worker'[w] = Dead
  BY DEF StartRun, ParentStep, ParentFault, Collect, Raise, LeavePool, WriteManifest, Crash,
         BreakPool, disk, parent
<1> SUFFICES ASSUME NEW w \in Workers, Past(w)', Mine(w)', target[Artifact(w)'].there
             PROVE  overwrite'[PoolOf(w)]
  BY <1>1 DEF OverwriteGuards, PoolOf
<1>2. worker'[w] = worker[w]
  BY <1>1 DEF Past, PastCheck, Dead
<1>3. Past(w) /\ Busy(w) /\ Mine(w) /\ Artifact(w)' = Artifact(w)
  BY <1>1, <1>2 DEF Past, Mine, Busy, At, Alone, RunOf, Artifact
<1>4. overwrite[PoolOf(w)]
  BY <1>3 DEF OverwriteGuards
<1>5. CASE StartRun(s)
  <2>1. PICK flag \in Overwrites : Select(s, flag)
    BY <1>5 DEF StartRun
  <2>2. w[1] \in Shards /\ w[2] \in Runs /\ PoolOf(w) = <<w[1], w[2]>> /\ PoolOf(w) \in Pools
    BY WorkerPlace DEF PoolOf
  <2>4. w[2] <= run[w[1]]
    BY <1>3 DEF Owned, WorkersOwn, RunOf
  <2>5. run[s] \in Nat /\ w[2] \in Nat
    BY <2>2, StageConfigured DEF Typed, Runs
  <2>3. PoolOf(w) # <<s, run[s] + 1>>
    BY <2>2, <2>4, <2>5
  <2> QED
    BY <1>4, <2>1, <2>2, <2>3 DEF Select, Typed
<1>6. CASE ParentStep(s) \/ ParentFault(s)
  <2>1. overwrite' = overwrite
    BY <1>6 DEF ParentStep, ParentFault, Collect, Raise, LeavePool, WriteManifest, Crash, BreakPool,
                parent
  <2> QED
    BY <1>4, <2>1
<1> QED
  BY <1>5, <1>6

LEMMA StoreStep == StoreInv /\ [Next]_vars => StoreInv'
<1> SUFFICES ASSUME StoreInv, [Next]_vars PROVE OverwriteGuards'
  BY StageStep, ManifestStep DEF StoreInv
<1>1. Typed /\ Owned /\ OverwriteGuards
  BY DEF StoreInv, StageInv
<1>2. CASE UNCHANGED vars
  BY <1>1, <1>2 DEF vars, OverwriteGuards, Past, Mine, Busy, At, Alone, Artifact
<1> QED
  BY <1>1, <1>2, GuardsWorker, GuardsParent DEF Next

LEMMA StoreInitially == Init => StoreInv
<1>1. Init => OverwriteGuards
  BY DEF Init, OverwriteGuards, Past, PastCheck, Idle
<1> QED
  BY <1>1, StageInit, ManifestInit DEF StoreInv
-----------------------------------------------------------------------------
(* What the store sees of a directory.                                     *)

LEMMA SomeFileOf ==
  ASSUME NEW r
  PROVE  LastFile \in FilesOf(r)
BY ArtifactHasFiles DEF FilesOf, Files

LEMMA WholeIsPublished ==
  ASSUME NEW r \in Nat, NEW d, Whole(d, r)
  PROVE  Published(d) = r
<1>1. d.has = FilesOf(r) \X {r} /\ FilesOf(r) # {}
  BY SomeFileOf DEF Whole
<1>2. \A x \in d.has : x[2] = r
  BY <1>1
<1>3. <<LastFile, r>> \in d.has /\ <<LastFile, r>>[2] = r
  BY <1>1, SomeFileOf
<1>4. RunsIn(d) = {r}
  BY <1>2, <1>3 DEF RunsIn
<1> QED
  BY <1>4 DEF Published

LEMMA AbsentIsUnpublished ==
  ASSUME NEW d, ~d.there
  PROVE  Published(d) = 0
BY DEF Published, Whole

LEMMA EmptyIsUnpublished ==
  ASSUME NEW d, d.has = {}
  PROVE  Published(d) = 0
BY DEF Published, RunsIn

LEMMA PublishedVersions ==
  ASSUME NEW d \in Directory
  PROVE  /\ Published(d) \in Nat
         /\ Published(d) # 0 => Whole(d, Published(d))
<1>1. RunsIn(d) \subseteq Nat
  BY DEF RunsIn, Directory
<1>2. CASE \E r \in RunsIn(d) : Whole(d, r)
  BY <1>1, <1>2 DEF Published
<1>3. CASE ~\E r \in RunsIn(d) : Whole(d, r)
  BY <1>3 DEF Published
<1> QED
  BY <1>2, <1>3

(* A whole artifact that lost a file is not an artifact.                   *)
LEMMA TornIsUnpublished ==
  ASSUME NEW d \in Directory, NEW r, Whole(d, r), NEW e \in Shrunk(d)
  PROVE  Published(e) = 0
<1>1. CASE d.has = {}
  BY <1>1, AbsentIsUnpublished DEF Shrunk, NoDirectory
<1>2. CASE d.has # {}
  <2>1. PICK x \in d.has : e = [d EXCEPT !.has = d.has \ {x}]
    BY <1>2 DEF Shrunk
  <2>2. e.has = d.has \ {x} /\ x \in FilesOf(r) \X {r} /\ e.has \subseteq FilesOf(r) \X {r}
    BY <2>1 DEF Whole, Directory
  <2>3. ASSUME NEW q \in RunsIn(e), Whole(e, q) PROVE FALSE
    <3>1. q = r
      BY <2>2, <2>3 DEF RunsIn
    <3>2. x \in e.has
      BY <2>2, <2>3, <3>1 DEF Whole
    <3> QED
      BY <2>2, <3>2
  <2> QED
    BY <2>3 DEF Published
<1> QED
  BY <1>1, <1>2

(* What the store has, as a function of the directories, and whose names   *)
(* are contested.                                                          *)
StoreOf == [a \in Artifacts |-> Published(target[a])]
Contested == {a \in Artifacts : ~Alone(run[a[1] % NumShards], a[1])}

LEMMA StoreStutters ==
  ASSUME UNCHANGED <<target, manifest>>
  PROVE  UNCHANGED AtomicStore!avars
BY DEF AtomicStore!avars

(* Only one artifact's version changes.                                    *)
LEMMA StoreChanges ==
  ASSUME Typed, NEW a \in Artifacts, \A b \in Artifacts \ {a} : target'[b] = target[b]
  PROVE  /\ StoreOf' = [StoreOf EXCEPT ![a] = Published(target'[a])]
         /\ StoreOf[a] = Published(target[a]) /\ StoreOf'[a] = Published(target'[a])
BY DEF StoreOf

(* A worker at an item its run does not have for itself is at a contested  *)
(* artifact.                                                               *)
LEMMA SharedIsContested ==
  ASSUME Typed, Owned, NEW w \in Workers, Busy(w), ~Mine(w)
  PROVE  Artifact(w) \in Contested
<1> DEFINE i == worker[w].item
<1>1. Artifact(w) \in Artifacts /\ Artifact(w)[1] = i /\ i % NumShards = w[1] /\ i \in Items
  BY WorkerPlace DEF Artifact, ShardOf
<1>2. ~Alone(run[w[1]], i)
  <2>1. CASE InLastRun(w)
    BY <2>1 DEF Mine, InLastRun
  <2>2. CASE ~InLastRun(w)
    <3>1. Holds(w, i)
      BY DEF Holds, Busy
    <3> QED
      BY <1>1, <2>2, <3>1 DEF Owned, OldShared, Alone
  <2> QED
    BY <2>1, <2>2
<1> QED
  BY <1>1, <1>2 DEF Contested

LEMMA SharedContends ==
  ASSUME Typed, Owned, NEW w \in Workers, Busy(w), ~Mine(w), manifest' = manifest,
         \A b \in Artifacts \ {Artifact(w)} : target'[b] = target[b]
  PROVE  AtomicStore!Contend
<1>1. Artifact(w) \in Contested /\ Artifact(w) \in Artifacts
  BY SharedIsContested DEF Contested
<1>2. StoreOf' = [StoreOf EXCEPT ![Artifact(w)] = StoreOf'[Artifact(w)]]
  BY <1>1, StoreChanges
<1> QED
  BY <1>1, <1>2, Zenon DEF AtomicStore!Contend, StoreOf, Contested

LEMMA RemovalWithdraws ==
  ASSUME StoreInv, NEW w \in Workers, RemoveTarget(w)
  PROVE  AtomicStore!StoreNext \/ UNCHANGED AtomicStore!avars
<1> DEFINE a == Artifact(w)
<1>1. Typed /\ Owned /\ Stored /\ Busy(w) /\ Past(w) /\ target[a].there /\ manifest' = manifest
  BY DEF StoreInv, StageInv, RemoveTarget, Busy, Past, PastCheck, At, parent
<1>2. a \in Artifacts /\ target[a] \in Directory
  BY <1>1, WorkerPlace DEF Typed
<1>3. PICK e \in Shrunk(target[a]) : target' = [target EXCEPT ![a] = e]
  BY DEF RemoveTarget
<1>4. target'[a] = e /\ e \in Directory /\ \A b \in Artifacts \ {a} : target'[b] = target[b]
  BY <1>1, <1>2, <1>3, DirectoriesAreDirectories DEF Typed
<1>5. CASE ~Mine(w)
  BY <1>1, <1>4, <1>5, SharedContends DEF AtomicStore!StoreNext
<1>6. CASE Mine(w) /\ Published(target[a]) # 0
  <2>1. overwrite[PoolOf(w)]
    BY <1>1, <1>6 DEF StoreInv, OverwriteGuards
  <2>2. Published(e) = 0
    BY <1>2, <1>6, PublishedVersions, TornIsUnpublished
  <2>3. StoreOf' = [StoreOf EXCEPT ![a] = 0]
    BY <1>1, <1>2, <1>4, <2>2, StoreChanges
  <2> HIDE DEF a
  <2>4. AtomicStore!Withdraw
    BY <1>1, <1>2, <2>1, <2>3 DEF AtomicStore!Withdraw, StoreOf
  <2> QED
    BY <2>4 DEF AtomicStore!StoreNext
<1>7. CASE Published(target[a]) = 0 /\ Published(e) # 0
  <2>1. Published(e) > 0
    BY <1>4, <1>7, PublishedVersions
  <2>2. StoreOf[a] = 0 /\ StoreOf'[a] > 0 /\ StoreOf' = [StoreOf EXCEPT ![a] = StoreOf'[a]]
    BY <1>1, <1>2, <1>4, <1>7, <2>1, StoreChanges
  <2> HIDE DEF a
  <2>3. AtomicStore!PublishArtifact
    BY <1>1, <1>2, <2>2, Zenon DEF AtomicStore!PublishArtifact, StoreOf
  <2> QED
    BY <2>3 DEF AtomicStore!StoreNext
<1>8. CASE Published(target[a]) = 0 /\ Published(e) = 0
  <2>1. StoreOf' = StoreOf
    BY <1>4, <1>8 DEF StoreOf
  <2> QED
    BY <1>1, <2>1 DEF AtomicStore!avars, StoreOf
<1> QED
  BY <1>5, <1>6, <1>7, <1>8

LEMMA PublishPublishes ==
  ASSUME StoreInv, NEW w \in Workers, Publish(w)
  PROVE  AtomicStore!StoreNext
<1> DEFINE a == Artifact(w)
           r == RunOf(w)
<1>1. Typed /\ Owned /\ Stored /\ Busy(w) /\ At(w, "move") /\ target[a].has = {} /\ manifest' = manifest
  BY DEF StoreInv, StageInv, Publish, Busy, At, parent
<1>2. a \in Artifacts /\ r \in Nat /\ r > 0
  BY <1>1, WorkerPlace DEF Runs
<1>3. target'[a] = temp[a] /\ \A b \in Artifacts \ {a} : target'[b] = target[b]
  BY <1>1, <1>2 DEF Publish, Typed
<1>4. CASE ~Mine(w)
  BY <1>1, <1>3, <1>4, SharedContends DEF AtomicStore!StoreNext
<1>5. CASE Mine(w)
  <2>1. Whole(temp[a], r)
    BY <1>1, <1>5 DEF Stored, Stamped
  <2>2. Published(target[a]) = 0 /\ Published(target'[a]) = r
    BY <1>1, <1>2, <1>3, <2>1, WholeIsPublished, EmptyIsUnpublished
  <2>3. StoreOf[a] = 0 /\ StoreOf'[a] > 0 /\ StoreOf' = [StoreOf EXCEPT ![a] = StoreOf'[a]]
    BY <1>1, <1>2, <1>3, <2>2, StoreChanges
  <2> HIDE DEF a
  <2>4. AtomicStore!PublishArtifact
    BY <1>1, <1>2, <2>3, Zenon DEF AtomicStore!PublishArtifact, StoreOf
  <2> QED
    BY <2>4 DEF AtomicStore!StoreNext
<1> QED
  BY <1>4, <1>5

(* Files disappear from an artifact in place only where two runs are at it. *)
LEMMA RemovalOfMovedContends ==
  ASSUME StoreInv, NEW w \in Workers, RemoveMoved(w)
  PROVE  AtomicStore!StoreNext
<1>1. Typed /\ Owned /\ Stored /\ Busy(w) /\ manifest' = manifest
  BY DEF StoreInv, StageInv, RemoveMoved, Busy, At, parent
<1>2. ~Mine(w)
  BY <1>1 DEF Stored, Stamped, RemoveMoved
<1>3. \A b \in Artifacts \ {Artifact(w)} : target'[b] = target[b]
  BY <1>1 DEF RemoveMoved, Typed
<1> QED
  BY <1>1, <1>2, <1>3, SharedContends DEF AtomicStore!StoreNext

LEMMA ManifestPublishes ==
  ASSUME StoreInv, NEW s \in Shards, WriteManifest(s)
  PROVE  AtomicStore!PublishManifest \/ UNCHANGED AtomicStore!avars
<1>1. /\ Typed /\ Owned /\ Stored /\ ManifestInv /\ mode[s] = "running" /\ Collected(s) = Selected(s)
      /\ target' = target /\ run[s] \in Nat
  BY StageConfigured DEF StoreInv, StageInv, WriteManifest, Typed, disk
<1>2. CASE UNCHANGED manifest
  BY <1>1, <1>2, StoreStutters
<1>3. CASE manifest' = [manifest EXCEPT ![s] = [run |-> run[s], entries |-> Listing(s)]]
  <2> DEFINE e == Listing(s)
  <2>1. e \in Seq(Artifacts) /\ InOrder(s, e)
    BY <1>1, ListingInOrder DEF ManifestInv, CollectedOnce
  <2>2. /\ manifest \in [Shards -> [run : Nat, entries : Seq(Artifacts)]]
        /\ manifest[s].run <= run[s] /\ manifest[s].run \in Nat
    BY <1>1 DEF ManifestInv, ManifestsTyped
  <2>3. run[s] >= 1
    BY <1>1 DEF Owned, ResultsOwn, Active
  <2>4. manifest[s].run < run[s]
    BY <1>1, <2>2, <2>3 DEF ManifestInv, Latest
  <2>5. ASSUME NEW k \in DOMAIN e
        PROVE  e[k] \in Contested \/ StoreOf[e[k]] = run[s]
    <3>1. PICK i \in Selected(s), p \in 1..PerEntry : e[k] = <<i, p>>
      BY <2>1 DEF InOrder
    <3>2. outcome[i] = "ok" /\ i \in Items /\ i % NumShards = s
      BY <1>1, SelectedApart DEF Owned, ResultsOwn
    <3>3. e[k] \in Artifacts /\ e[k][1] = i
      BY <3>1, <3>2 DEF Artifacts
    <3>4. CASE Alone(run[s], i)
      <4>1. Whole(target[e[k]], run[s])
        BY <1>1, <3>1, <3>2, <3>4 DEF Stored, SucceededItemsWhole
      <4> QED
        BY <1>1, <3>3, <4>1, WholeIsPublished DEF StoreOf
    <3>5. CASE ~Alone(run[s], i)
      BY <3>2, <3>3, <3>5 DEF Contested
    <3> QED
      BY <3>4, <3>5
  <2> HIDE DEF e
  <2>6. manifest'[s] = [run |-> run[s], entries |-> e]
    BY <1>3, <2>2 DEF e
  <2>7. manifest'[s].run = run[s] /\ manifest'[s].entries = e
    BY <2>6
  <2>8. \A k \in DOMAIN manifest'[s].entries :
          \/ manifest'[s].entries[k] \in Contested
          \/ StoreOf[manifest'[s].entries[k]] = manifest'[s].run
    BY <2>5, <2>7
  <2>9. manifest' = [manifest EXCEPT ![s] = manifest'[s]]
    BY <1>3, <2>6 DEF e
  <2>10. [a \in Artifacts |-> Published(target'[a])] = [a \in Artifacts |-> Published(target[a])]
    BY <1>1
  <2> QED
    BY <2>4, <2>7, <2>8, <2>9, <2>10 DEF AtomicStore!PublishManifest, StoreOf, Contested
<1> QED
  BY <1>2, <1>3 DEF WriteManifest

LEMMA StageStepsAreStoreSteps ==
  StoreInv /\ [Next]_vars => [AtomicStore!StoreNext]_(AtomicStore!avars)
<1> SUFFICES ASSUME StoreInv, [Next]_vars, ~UNCHANGED AtomicStore!avars
             PROVE  AtomicStore!StoreNext
  OBVIOUS
<1>1. ~UNCHANGED <<target, manifest>>
  BY StoreStutters
<1>2. ASSUME NEW w \in Workers, WorkerStep(w) \/ WorkerFault(w)
      PROVE  RemoveTarget(w) \/ Publish(w) \/ RemoveMoved(w)
  BY <1>1, <1>2 DEF WorkerStep, WorkerFault, Commit, TakeItem, Retry, GiveUp, InvalidTask, Check,
     LookForTemp, ClearTemp, MakeTemp, WriteFile, LookForTarget, DiskError, CleanUp, FailToMake,
     FailToCommit, LoseWorker, parent, disk
<1>3. ASSUME NEW s \in Shards, StartRun(s) \/ ParentStep(s) \/ ParentFault(s)
      PROVE  WriteManifest(s)
  BY <1>1, <1>3 DEF StartRun, ParentStep, Collect, Raise, LeavePool, ParentFault, Crash, BreakPool,
     parent, disk
<1>4. ~UNCHANGED vars
  BY <1>1 DEF vars
<1>5. CASE \E w \in Workers : RemoveTarget(w) \/ Publish(w) \/ RemoveMoved(w)
  BY <1>5, RemovalWithdraws, PublishPublishes, RemovalOfMovedContends
<1>6. CASE \E s \in Shards : WriteManifest(s)
  BY <1>6, ManifestPublishes DEF AtomicStore!StoreNext
<1> QED
  BY <1>2, <1>3, <1>4, <1>5, <1>6 DEF Next

(* Seen through its whole artifacts, a stage with any number of workers    *)
(* and shards, faults, kills and reruns is an artifact store: artifacts    *)
(* appear in one step, only a run with overwrite withdraws any, and a      *)
(* manifest appears over artifacts that are all there.  The artifacts that *)
(* workers of a killed run still have to do when the next one begins are   *)
(* contested: of them the store promises nothing until a run has them for  *)
(* itself.                                                                 *)
THEOREM StageImplementsStore == Spec => ImplementsStore
<1>1. Init => AtomicStore!StoreInit
  <2> SUFFICES ASSUME Init PROVE AtomicStore!StoreInit
    OBVIOUS
  <2>1. \A a \in Artifacts : Published(target[a]) = 0
    BY AbsentIsUnpublished DEF Init, NoDirectory
  <2> QED
    BY <2>1 DEF Init, AtomicStore!StoreInit
<1> QED
  BY <1>1, StoreInitially, StoreStep, StageStepsAreStoreSteps, PTL DEF Spec, ImplementsStore, AtomicStore!Store
=============================================================================
