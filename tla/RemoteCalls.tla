---------------------------- MODULE RemoteCalls ----------------------------
(***************************************************************************)
(* What the broker of @repliql/conduit promises the caller of a method of  *)
(* the leader: the method runs at most once, the promise settles at most   *)
(* once, an answer comes only from a method that ran, and calls are given  *)
(* up (LeaderResignedError) only while they wait.                          *)
(***************************************************************************)
EXTENDS Naturals

CONSTANT Call

VARIABLES
    status,   \* "idle", "waiting", or how the promise settled
    ran       \* how often the method of each call was executed

vars == <<status, ran>>

Init ==
    /\ status = [c \in Call |-> "idle"]
    /\ ran = [c \in Call |-> 0]

Issue(c) ==
    /\ status[c] = "idle"
    /\ status' = [status EXCEPT ![c] = "waiting"]
    /\ UNCHANGED ran

(* The method may run after its call was given up, never a second time.    *)
Run(c) ==
    /\ status[c] # "idle"
    /\ ran[c] = 0
    /\ ran' = [ran EXCEPT ![c] = 1]
    /\ UNCHANGED status

Answer(c, outcome) ==
    /\ status[c] = "waiting"
    /\ ran[c] = 1
    /\ status' = [status EXCEPT ![c] = outcome]
    /\ UNCHANGED ran

GiveUp(S) ==
    /\ \A c \in S : status[c] = "waiting"
    /\ status' = [c \in Call |-> IF c \in S THEN "resigned" ELSE status[c]]
    /\ UNCHANGED ran

Next ==
    \/ \E c \in Call : Issue(c) \/ Run(c)
    \/ \E c \in Call, outcome \in {"resolved", "rejected"} : Answer(c, outcome)
    \/ \E S \in SUBSET Call : GiveUp(S)

Spec == Init /\ [][Next]_vars
=============================================================================
