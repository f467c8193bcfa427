----------------------------- MODULE ArtifactStore -----------------------------
(***************************************************************************)
(* What a materialization stage promises about the artifacts on disk,      *)
(* without files, temporary directories, workers or crashes: an artifact   *)
(* appears in one step, whole, and only if it was not there; a manifest    *)
(* is published over artifacts that are all there, in the version the      *)
(* manifest is about.  Only while someone replaces artifacts can one that  *)
(* is there disappear, to be replaced.  What two writers are at at once is *)
(* contested, and promised to neither.                                     *)
(***************************************************************************)
EXTENDS Integers, Sequences

CONSTANTS Names, Lists

VARIABLES
  store,       \* the version of each name, 0 when it is absent
  index,       \* for each manifest its version, 0 when absent, and its entries
  replacing,   \* someone may withdraw artifacts
  contested    \* the names two writers are at

avars == <<store, index>>

StoreInit ==
  /\ store = [a \in Names |-> 0]
  /\ index = [s \in Lists |-> [run |-> 0, entries |-> <<>>]]

PublishArtifact ==
  /\ \E a \in Names : /\ store[a] = 0 /\ store'[a] > 0
                      /\ store' = [store EXCEPT ![a] = store'[a]]
  /\ UNCHANGED index

Withdraw ==
  /\ replacing
  /\ \E a \in Names : store' = [store EXCEPT ![a] = 0]
  /\ UNCHANGED index

Contend ==
  /\ \E a \in contested : store' = [store EXCEPT ![a] = store'[a]]
  /\ UNCHANGED index

PublishManifest ==
  /\ \E s \in Lists :
       /\ index[s].run < index'[s].run
       /\ index' = [index EXCEPT ![s] = index'[s]]
       /\ \A k \in DOMAIN index'[s].entries :
            \/ index'[s].entries[k] \in contested
            \/ store[index'[s].entries[k]] = index'[s].run
  /\ UNCHANGED store

StoreNext == PublishArtifact \/ Withdraw \/ Contend \/ PublishManifest

Store == StoreInit /\ [][StoreNext]_avars
=============================================================================
