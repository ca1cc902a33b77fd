---------------------------- MODULE MCResultCaches ----------------------------
(* Two operations, the first cache having room for one of them. *)
EXTENDS ResultCaches
=============================================================================
