--------------------------- MODULE MCSharedExchange ---------------------------
(* Tabs that share a query and a subscription. *)
EXTENDS SharedExchange
=============================================================================
