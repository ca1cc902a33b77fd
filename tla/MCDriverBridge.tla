---------------------------- MODULE MCDriverBridge ----------------------------
(* Transactions of two statements over the bridge. *)
EXTENDS DriverBridge
=============================================================================
