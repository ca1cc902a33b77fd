---------------------------- MODULE MCMutations ----------------------------
(* Two mutations that may patch the same entity, with bounded faults.      *)
EXTENDS Mutations
=============================================================================
