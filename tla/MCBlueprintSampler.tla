-------------------------- MODULE MCBlueprintSampler --------------------------
(***************************************************************************)
(* Small instances of BlueprintSampler over the repository's own motif     *)
(* library.                                                                *)
(***************************************************************************)
EXTENDS BlueprintSampler

AllMotifTypes == {m.type : m \in DefaultMotifs}
=============================================================================
