----------------------------- MODULE MCConduit -----------------------------
(* A few pages whose registrations, departures and deaths interleave with  *)
(* a few calls.                                                            *)
EXTENDS Conduit, TLC

Symmetry == Permutations(Tab)
=============================================================================
