--------------------------- MODULE MCLiveQueries ---------------------------
(* Two queries that share a root field.                                    *)
EXTENDS LiveQueries

OneRoot == [o \in Op |-> CHOOSE q \in Query : TRUE]
=============================================================================
