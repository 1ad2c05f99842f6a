-------------------------- MODULE MCRegistryCache --------------------------
(***************************************************************************)
(* Caches of one model_ref with named versions, for TLC.                   *)
(***************************************************************************)
EXTENDS RegistryCache, TLC

CONSTANTS v1, v2   \* versions

MCSymmetry == Permutations(Versions)
=============================================================================
