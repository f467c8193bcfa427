---------------------------- MODULE TaskViewProofs ----------------------------
(***************************************************************************)
(* Proofs about TaskView, for every schema, foreign keys in any order and  *)
(* with cycles or not, every database and cutoff.                          *)
(***************************************************************************)
EXTENDS TaskView, TLAPS

-----------------------------------------------------------------------------
(* What one foreign key does to the masks                                  *)

(* The foreign key whose turn it is joins two tables.                      *)
LEMMA KeyInTurn ==
  ASSUME at \in 1..(Len(Keys) + 1), at <= Len(Keys)
  PROVE  /\ at \in DOMAIN Keys
         /\ Keys[at].child \in Tables /\ Keys[at].parent \in Tables
<1> DEFINE Key == [child : Tables, parent : Tables]
<1>1. Keys \in Seq(Key)
  BY SchemaAndDatabases
<1>2. at \in DOMAIN Keys /\ Keys[at] \in Key
  <2> HIDE DEF Key
  <2> QED BY <1>1
<1> QED BY <1>2

(* Masks only shrink, and only those of the child.                         *)
LEMMA ApplyShrinks ==
  ASSUME TypeOK, ApplyForeignKey
  PROVE  /\ masks' \in [Tables -> SUBSET Nat]
         /\ \A t \in Tables : masks'[t] \subseteq masks[t]
         /\ ~changed' => masks' = masks
<1>1. at \in DOMAIN Keys /\ Keys[at].child \in Tables /\ Keys[at].parent \in Tables
  BY KeyInTurn DEF TypeOK, ApplyForeignKey, HideRest, Kept, Hides
<1> DEFINE c == Keys[at].child
<1>2. WithParent(at, masks) \subseteq masks[c]
  BY DEF WithParent
<1>3. masks' = [masks EXCEPT ![c] = WithParent(at, masks)]
  BY DEF ApplyForeignKey, HideRest, Kept, Hides
<1>4. masks \in [Tables -> SUBSET Nat]
  BY DEF TypeOK
<1>5. \A t \in Tables : masks'[t] \subseteq masks[t]
  BY <1>1, <1>2, <1>3, <1>4
<1>6. masks' \in [Tables -> SUBSET Nat]
  BY <1>1, <1>2, <1>3, <1>4
<1>7. ASSUME ~changed' PROVE masks' = masks
  <2>1. WithParent(at, masks) = masks[c]
    BY <1>7 DEF ApplyForeignKey, HideRest, Kept, Hides
  <2> QED BY <2>1, <1>3, <1>4, <1>1
<1> QED BY <1>5, <1>6, <1>7

-----------------------------------------------------------------------------
(* Type correctness: the masks are rows that the rules leave               *)

LEMMA InitTyped == Init => TypeOK
<1> SUFFICES ASSUME Init PROVE TypeOK
  OBVIOUS
<1>1. \A t \in Tables : Observed(t) \subseteq Nat
  <2>1. ASSUME NEW t \in Tables PROVE db.rows[t] \in Nat
    BY SchemaAndDatabases DEF Init
  <2>2. ASSUME NEW t \in Tables PROVE Rows(t) \subseteq Nat
    <3>1. Rows(t) = 1..db.rows[t] /\ db.rows[t] \in Nat
      BY <2>1 DEF Rows, RowsOf
    <3> QED BY <3>1
  <2> QED BY <2>2, Zenon DEF Observed
<1>2. Len(Keys) \in Nat
  BY SchemaAndDatabases
<1>3. masks \in [Tables -> SUBSET Nat] /\ \A t \in Tables : masks[t] \subseteq Observed(t)
  <2>1. masks = [t \in Tables |-> Observed(t)]
    BY DEF Init
  <2> QED BY <1>1, <2>1
<1>4. at \in 1..(Len(Keys) + 1)
  <2>1. at = 1
    BY DEF Init
  <2> QED BY <1>2, <2>1
<1>5. changed \in BOOLEAN /\ db \in Databases
  BY Zenon DEF Init
<1>6. cutoffs \in SUBSET Cutoffs
  BY DEF Init
<1> QED BY <1>3, <1>4, <1>5, <1>6 DEF TypeOK

LEMMA StepTyped == TypeOK /\ [Next]_vars => TypeOK'
<1> SUFFICES ASSUME TypeOK, [Next]_vars PROVE TypeOK'
  OBVIOUS
<1>0. Len(Keys) \in Nat
  BY SchemaAndDatabases
<1>1. CASE ApplyForeignKey
  <2>1. \A t \in Tables : Observed(t)' = Observed(t)
    BY <1>1 DEF ApplyForeignKey, HideRest, Kept, Hides, Observed, Rows
  <2>2. masks' \in [Tables -> SUBSET Nat] /\ \A t \in Tables : masks'[t] \subseteq Observed(t)'
    BY <1>1, <2>1, ApplyShrinks DEF TypeOK
  <2>3. at' \in 1..(Len(Keys) + 1) /\ changed' \in BOOLEAN
    BY <1>0, <1>1 DEF TypeOK, ApplyForeignKey, HideRest, Kept, Hides
  <2> QED BY <1>1, <2>2, <2>3 DEF TypeOK, ApplyForeignKey, HideRest, Kept, Hides
<1>2. CASE NextPass
  <2>1. \A t \in Tables : Observed(t)' = Observed(t)
    BY <1>2 DEF NextPass, Observed, Rows
  <2>2. /\ db' = db /\ cutoffs' = cutoffs /\ masks' = masks
        /\ at' = 1 /\ changed' = FALSE
    BY <1>2 DEF NextPass
  <2>3. \A t \in Tables : masks'[t] \subseteq Observed(t)'
    BY <2>1, <2>2 DEF TypeOK
  <2>4. at' \in 1..(Len(Keys) + 1)
    BY <1>0, <2>2
  <2>5. /\ db' \in Databases /\ cutoffs' \in SUBSET Cutoffs
        /\ masks' \in [Tables -> SUBSET Nat] /\ changed' \in BOOLEAN
    BY <2>2, Zenon DEF TypeOK
  <2> QED BY <2>3, <2>4, <2>5 DEF TypeOK
<1>3. CASE UNCHANGED vars
  <2>1. \A t \in Tables : Observed(t)' = Observed(t)
    BY <1>3 DEF vars, Observed, Rows
  <2>2. /\ db' = db /\ cutoffs' = cutoffs /\ masks' = masks
        /\ at' = at /\ changed' = changed
    BY <1>3 DEF vars
  <2>3. \A t \in Tables : masks'[t] \subseteq Observed(t)'
    BY <2>1, <2>2 DEF TypeOK
  <2>4. /\ db' \in Databases /\ cutoffs' \in SUBSET Cutoffs
        /\ masks' \in [Tables -> SUBSET Nat]
        /\ at' \in 1..(Len(Keys) + 1) /\ changed' \in BOOLEAN
    BY <2>2, Zenon DEF TypeOK
  <2> QED BY <2>3, <2>4 DEF TypeOK
<1> QED BY <1>1, <1>2, <1>3 DEF Next

(* The rows shown are always rows of their table that the rules leave.     *)
THEOREM TypeCorrect == Spec => []TypeOK
BY InitTyped, StepTyped, PTL DEF Spec

-----------------------------------------------------------------------------
(* The view is closed when the loop is left                                *)

(* While a pass has changed nothing, the masks satisfy every foreign key   *)
(* whose turn is over.                                                     *)
PassSoFar ==
  ~changed => \A i \in DOMAIN Keys : i < at => WithParent(i, masks) = masks[Keys[i].child]

LEMMA InitPass == Init => PassSoFar
BY SchemaAndDatabases DEF Init, PassSoFar

LEMMA StepPass == TypeOK /\ PassSoFar /\ [Next]_vars => PassSoFar'
<1> SUFFICES ASSUME TypeOK, PassSoFar, [Next]_vars PROVE PassSoFar'
  OBVIOUS
<1>1. CASE ApplyForeignKey
  <2> SUFFICES ASSUME ~changed', NEW i \in DOMAIN Keys, i < at'
               PROVE  WithParent(i, masks)' = masks'[Keys[i].child]
    BY DEF PassSoFar
  <2>1. masks' = masks /\ db' = db
    BY <1>1, ApplyShrinks DEF ApplyForeignKey, HideRest, Kept, Hides
  <2>2. WithParent(i, masks)' = WithParent(i, masks)
    BY <2>1 DEF WithParent
  <2>3. ~changed /\ WithParent(at, masks) = masks[Keys[at].child]
    BY <1>1 DEF ApplyForeignKey, HideRest, Kept, Hides
  <2>4. i < at \/ i = at
    BY <1>1, SchemaAndDatabases DEF ApplyForeignKey, HideRest, Kept, Hides, TypeOK
  <2>5. WithParent(i, masks) = masks[Keys[i].child]
    BY <2>3, <2>4 DEF PassSoFar
  <2> QED BY <2>1, <2>2, <2>5
<1>2. CASE NextPass
  BY <1>2, SchemaAndDatabases DEF NextPass, PassSoFar
<1>3. CASE UNCHANGED vars
  BY <1>3 DEF vars, PassSoFar, WithParent
<1> QED BY <1>1, <1>2, <1>3 DEF Next

(* A pass over all foreign keys without a change is a proof that no shown  *)
(* row refers to a hidden one.                                             *)
THEOREM ViewIsClosed == Spec => []ViewClosed
<1>1. TypeOK /\ PassSoFar => ViewClosed
  BY SchemaAndDatabases DEF PassSoFar, ViewClosed, ViewDone, Closed, TypeOK
<1>2. Init => TypeOK /\ PassSoFar
  BY InitTyped, InitPass
<1>3. TypeOK /\ PassSoFar /\ [Next]_vars => TypeOK' /\ PassSoFar'
  BY StepTyped, StepPass
<1> QED BY <1>1, <1>2, <1>3, PTL DEF Spec

-----------------------------------------------------------------------------
(* The view is the largest closed one                                      *)

(* At every moment the masks contain every closed choice of observed rows. *)
AllClosedShown ==
  \A shown \in ClosedViews : \A t \in Tables : shown[t] \subseteq masks[t]

LEMMA InitShown == Init => AllClosedShown
BY DEF Init, AllClosedShown, ClosedViews

LEMMA StepShown == TypeOK /\ AllClosedShown /\ [Next]_vars => AllClosedShown'
<1> SUFFICES ASSUME TypeOK, AllClosedShown, [Next]_vars PROVE AllClosedShown'
  OBVIOUS
<1>0. UNCHANGED <<db, cutoffs>>
  BY DEF Next, ApplyForeignKey, HideRest, Kept, Hides, NextPass, vars
<1>1. ClosedViews' = ClosedViews
  BY <1>0 DEF ClosedViews, Closed, WithParent, Observed, Rows
<1>2. CASE ApplyForeignKey
  <2> SUFFICES ASSUME NEW shown \in ClosedViews, NEW t \in Tables
               PROVE  shown[t] \subseteq masks'[t]
    BY <1>1 DEF AllClosedShown
  <2>1. at \in DOMAIN Keys /\ Keys[at].child \in Tables /\ Keys[at].parent \in Tables
    BY <1>2, KeyInTurn DEF TypeOK, ApplyForeignKey, HideRest, Kept, Hides
  <2>2. \A u \in Tables : shown[u] \subseteq masks[u]
    BY DEF AllClosedShown
  <2>3. WithParent(at, shown) = shown[Keys[at].child]
    BY <2>1 DEF ClosedViews, Closed
  <2>4. shown[Keys[at].child] \subseteq WithParent(at, masks)
    BY <2>1, <2>2, <2>3 DEF WithParent
  <2> QED BY <1>2, <2>1, <2>2, <2>4 DEF ApplyForeignKey, HideRest, Kept, Hides, TypeOK
<1>3. CASE NextPass
  BY <1>1, <1>3 DEF NextPass, AllClosedShown
<1>4. CASE UNCHANGED vars
  BY <1>1, <1>4 DEF vars, AllClosedShown
<1> QED BY <1>2, <1>3, <1>4 DEF Next

(* The loop hides nothing that some closed choice of rows would show.      *)
THEOREM ViewIsLargest == Spec => []NothingHiddenInVain
<1>1. AllClosedShown => NothingHiddenInVain
  BY DEF AllClosedShown, NothingHiddenInVain
<1>2. Init => TypeOK /\ AllClosedShown
  BY InitTyped, InitShown
<1>3. TypeOK /\ AllClosedShown /\ [Next]_vars => TypeOK' /\ AllClosedShown'
  BY StepTyped, StepShown
<1> QED BY <1>1, <1>2, <1>3, PTL DEF Spec
===============================================================================
