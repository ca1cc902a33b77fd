---------------------------- MODULE EntityStore ----------------------------
(***************************************************************************)
(* What the tables of repliql promise the queries that read them: for each *)
(* entity, the view of the server, and the view that is shown, which       *)
(* differs from it only while there are optimistic changes.                *)
(***************************************************************************)
CONSTANTS Entity, Field, Absent, Mutation, ServerVal

VARIABLES
    server,      \* per entity, what the server last said of each field
    optimistic,  \* the entities with optimistic changes
    shown        \* per entity, what a query reads

vars == <<server, optimistic, shown>>

Data == [Field -> Mutation \cup ServerVal \cup {Absent}]
Update(V) == [Field -> V \cup {Absent}]
Merge(d, p) == [f \in Field |-> IF p[f] = Absent THEN d[f] ELSE p[f]]

Init ==
    /\ server = [e \in Entity |-> [f \in Field |-> Absent]]
    /\ optimistic = {}
    /\ shown = server

(* A result of the network: it is shown at once where nothing optimistic   *)
(* is, and kept for later elsewhere.                                       *)
Receive(w) ==
    /\ server' = [e \in Entity |-> Merge(server[e], w[e])]
    /\ shown' = [e \in Entity |-> IF e \in optimistic THEN shown[e] ELSE server'[e]]
    /\ UNCHANGED optimistic

(* An optimistic change to one entity.                                     *)
Patch(e, p) ==
    /\ optimistic' = optimistic \cup {e}
    /\ shown' = [shown EXCEPT ![e] = Merge(@, p)]
    /\ UNCHANGED server

(* Entities whose optimistic changes are over.                             *)
Settle(S) ==
    /\ optimistic' = optimistic \ S
    /\ shown' = [e \in Entity |-> IF e \in S THEN server[e] ELSE shown[e]]
    /\ UNCHANGED server

(* The optimistic changes are computed again, at startup: a field shows an *)
(* optimistic value, or goes back to the one of the server.                *)
Rebase ==
    /\ UNCHANGED <<server, optimistic>>
    /\ shown' \in [Entity -> Data]
    /\ \A e \in Entity \ optimistic : shown'[e] = shown[e]
    /\ \A e \in Entity, f \in Field :
          shown'[e][f] \in Mutation \cup {server[e][f], shown[e][f]}

Next ==
    \/ \E w \in [Entity -> Update(ServerVal)] : Receive(w)
    \/ \E e \in Entity, p \in Update(Mutation) : Patch(e, p)
    \/ \E S \in SUBSET optimistic : Settle(S)
    \/ Rebase

Spec == Init /\ [][Next]_vars
=============================================================================
