-------------------------- MODULE MutationsProofs --------------------------
(***************************************************************************)
(* Proofs about module Mutations, for any sets of mutations, entities and  *)
(* fields, and any number of faults.                                       *)
(***************************************************************************)
EXTENDS Mutations, TLAPS, WellFoundedInduction

(* A non-empty set of positions in a sequence has a last one, so the CHOOSE *)
(* of Reapplied picks a writer.                                            *)
LEMMA LastExists ==
    ASSUME NEW n \in Nat, NEW S \in SUBSET (1 .. n), S # {}
    PROVE  \E i \in S : \A j \in S : j <= i
<1> DEFINE R == OpToRel(<, Nat)
           T == {n - i : i \in S}
<1>1. IsWellFoundedOn(R, Nat)
  BY NatLessThanWellFounded
<1>2. T \subseteq Nat /\ T # {}
  <2>1. \A i \in S : i \in 1 .. n /\ n - i \in Nat
    OBVIOUS
  <2>2. QED
    BY <2>1
<1> HIDE DEF R
<1>3. PICK x \in T : \A y \in T : ~ (<<y, x>> \in R)
  BY <1>1, <1>2, WFMin
<1>4. \A y \in T : ~ (y < x)
  BY <1>2, <1>3 DEF R, OpToRel
<1>5. PICK i \in S : x = n - i
  OBVIOUS
<1>6. ASSUME NEW j \in S
      PROVE  j <= i
  <2>1. n - j \in T
    OBVIOUS
  <2>2. ~ (n - j < n - i)
    BY <1>4, <1>5, <2>1
  <2>3. i \in Nat /\ j \in Nat
    OBVIOUS
  <2>4. QED
    BY <2>2, <2>3
<1>7. QED
  BY <1>6

-----------------------------------------------------------------------------
(* Types.                                                                  *)

LEMMA MergeType ==
    ASSUME NEW d \in Data, NEW p \in Data
    PROVE  Merge(d, p) \in Data
BY DEF Merge, Data

LEMMA PatchOfType ==
    ASSUME NEW m \in Mutation, NEW S
    PROVE  PatchOf(m, S) \in Data
BY DEF PatchOf, Data, Val

LEMMA NullIsNoData == Null \notin Data
BY ConstantsAssumption DEF Data, Val

LEMMA ServerDataType == ServerData \subseteq Data
BY DEF ServerData, Data, Val

LEMMA ReappliedType ==
    ASSUME TypeOK, NEW e \in Entity, base[e] # Null
    PROVE  Reapplied(e) \in Data
<1>1. base[e] \in Data
  BY DEF TypeOK
<1>2. ASSUME NEW f \in Field, Writers(e, f) # {}
      PROVE  LET last == CHOOSE i \in Writers(e, f) :
                            \A j \in Writers(e, f) : j <= i
             IN  patch[patchRows[e][last]][e][f] \in Val \cup {Absent}
  <2>1. /\ patchRows[e] \in Seq(Mutation)
        /\ Len(patchRows[e]) \in Nat
        /\ DOMAIN patchRows[e] = 1 .. Len(patchRows[e])
    BY DEF TypeOK
  <2>2. Writers(e, f) \in SUBSET (1 .. Len(patchRows[e]))
    BY <2>1 DEF Writers
  <2>3. \E i \in Writers(e, f) : \A j \in Writers(e, f) : j <= i
    BY <1>2, <2>1, <2>2, LastExists
  <2> DEFINE last == CHOOSE i \in Writers(e, f) :
                        \A j \in Writers(e, f) : j <= i
  <2>4. last \in Writers(e, f)
    BY <2>3
  <2> HIDE DEF last
  <2>5. patchRows[e][last] \in Mutation /\ patch[patchRows[e][last]][e] # Null
    BY <2>1, <2>4 DEF Writers
  <2>6. patch[patchRows[e][last]][e] \in Data
    BY <2>5 DEF TypeOK
  <2>7. QED
    BY <2>6 DEF Data, last
<1>3. QED
  BY <1>1, <1>2 DEF Reapplied, Data

LEMMA PersistType ==
    ASSUME TypeOK, NEW w \in ServerWrites, Persist(w)
    PROVE  /\ data' \in [Entity -> Data]
           /\ base' \in [Entity -> Data \cup {Null}]
           /\ present' \in SUBSET Entity
<1>1. \A e \in Entity : w[e] \in Data
  BY ServerDataType DEF ServerWrites
<1>2. \A e \in Entity : Merge(data[e], w[e]) \in Data
  BY <1>1, MergeType DEF TypeOK
<1>3. \A e \in Entity : base[e] # Null => Merge(base[e], w[e]) \in Data
  BY <1>1, MergeType DEF TypeOK
<1>4. QED
  BY <1>2, <1>3 DEF Persist, TypeOK

LEMMA PatchEffectType ==
    ASSUME TypeOK, NEW m \in Mutation, NEW e \in Entity, NEW S, PatchEffect(m, e, S)
    PROVE  /\ patch' \in [Mutation -> [Entity -> Data \cup {Null}]]
           /\ patchRows' \in [Entity -> Seq(Mutation)]
           /\ data' \in [Entity -> Data]
           /\ base' \in [Entity -> Data \cup {Null}]
           /\ present' \in SUBSET Entity
<1>1. PatchOf(m, S) \in Data /\ Merge(data[e], PatchOf(m, S)) \in Data
  BY MergeType, PatchOfType DEF TypeOK
<1>2. Append(patchRows[e], m) \in Seq(Mutation)
  BY DEF TypeOK
<1>3. QED
  BY <1>1, <1>2 DEF PatchEffect, TypeOK

LEMMA CleanEffectType ==
    ASSUME TypeOK, NEW S, CleanEffect(S)
    PROVE  data' \in [Entity -> Data] /\ base' \in [Entity -> Data \cup {Null}]
BY DEF CleanEffect, TypeOK

LEMMA ReapplyEffectType ==
    ASSUME TypeOK, ReapplyEffect
    PROVE  data' \in [Entity -> Data]
BY ReappliedType DEF ReapplyEffect, TypeOK

LEMMA InsertEffectType ==
    ASSUME TypeOK, NEW m \in Mutation, InsertEffect(m)
    PROVE  /\ status' \in [Mutation -> {"none"} \cup Active \cup Resolved]
           /\ rows' \in Seq(Mutation)
BY DEF InsertEffect, TypeOK, Active

LEMMA RejectedType ==
    ASSUME TypeOK, Rejected
    PROVE  /\ fk' \in BOOLEAN
           /\ crashes' \in Nat /\ netErrors' \in Nat /\ dbFaults' \in Nat
<1>1. fk' \in BOOLEAN
  BY Zenon DEF Rejected
<1>2. crashes' \in Nat /\ netErrors' \in Nat
  BY DEF Rejected, TypeOK
<1>3. dbFaults' \in Nat
  BY DEF Rejected, TypeOK
<1>4. QED
  BY <1>1, <1>2, <1>3

LEMMA CurIsMutation == Null \notin Mutation
BY ConstantsAssumption

(* The cycle works on a row it claimed, in a worker that has started, and  *)
(* the row is inflight until its status is settled.                        *)
CycleOK ==
    /\ pc # "idle" => start = "done"
    /\ pc \in {"wait", "requeue", "settle", "clean"} => cur \in Mutation
    /\ pc \in {"idle", "claim"} => cur = Null
    /\ pc \in {"settle", "clean"} => verdict \in Resolved
    /\ cur \in Mutation /\ pc # "clean" => status[cur] = "inflight"
    /\ pc = "clean" => status[cur] \in Resolved

LEMMA InitTypeOK == Init => TypeOK /\ CycleOK
<1> SUFFICES ASSUME Init PROVE TypeOK /\ CycleOK
  OBVIOUS
<1>1. Empty \in Data /\ Nothing \in [Entity -> Data]
  BY DEF Empty, Nothing, Data
<1>2. <<>> \in Seq(Mutation)
  OBVIOUS
<1>3. QED
  BY <1>1, <1>2, CurIsMutation DEF Init, EmptyTables, TypeOK, CycleOK

LEMMA TypeStep ==
    ASSUME TypeOK, CycleOK, [Next]_vars
    PROVE  TypeOK'
<1>1. ASSUME NEW m \in Mutation, Begin(m)
      PROVE  TypeOK'
  BY <1>1, InsertEffectType
     DEF Begin, TypeOK, vars, dbVars, mutationVars, patchVars, entityVars, cycleVars, faultVars
<1>2. ASSUME NEW m \in Mutation, BeginFault(m)
      PROVE  TypeOK'
  BY <1>2, InsertEffectType, RejectedType
     DEF BeginFault, TypeOK, vars, dbVars, mutationVars, patchVars, entityVars, cycleVars, faultVars
<1>3. ASSUME NEW m \in Mutation, NEW e \in Entity, NEW S \in SUBSET Field, PatchEntity(m, e, S)
      PROVE  TypeOK'
  BY <1>3, PatchEffectType
     DEF PatchEntity, TypeOK, vars, dbVars, mutationVars, patchVars, entityVars, cycleVars, faultVars
<1>4. ASSUME NEW m \in Mutation, NEW e \in Entity, PatchRefused(m, e)
      PROVE  TypeOK'
  BY <1>4
     DEF PatchRefused, TypeOK, vars, dbVars, mutationVars, patchVars, entityVars, cycleVars, faultVars
<1>5. ASSUME NEW m \in Mutation, NEW e \in Entity, NEW S \in SUBSET Field, PatchFault(m, e, S)
      PROVE  TypeOK'
  BY <1>5, PatchEffectType, RejectedType
     DEF PatchFault, TypeOK, vars, dbVars, mutationVars, patchVars, entityVars, cycleVars, faultVars
<1>6. ASSUME NEW m \in Mutation, NEW forwarded \in BOOLEAN, FinishExec(m, forwarded)
      PROVE  TypeOK'
  BY <1>6
     DEF FinishExec, TypeOK, vars, dbVars, mutationVars, patchVars, entityVars, cycleVars, faultVars
<1>7. CASE Migrated
  BY <1>7
     DEF Migrated, TypeOK, vars, dbVars, mutationVars, patchVars, entityVars, cycleVars, faultVars
<1>8. CASE StartRequeue
  BY <1>8
     DEF StartRequeue, RequeueAllEffect, Active, TypeOK, vars, dbVars, mutationVars, patchVars, entityVars, cycleVars, faultVars
<1>9. CASE StartClean
  BY <1>9, CleanEffectType
     DEF StartClean, TypeOK, vars, dbVars, mutationVars, patchVars, entityVars, cycleVars, faultVars
<1>10. CASE StartReapply
  BY <1>10, ReapplyEffectType
     DEF StartReapply, TypeOK, vars, dbVars, mutationVars, patchVars, entityVars, cycleVars, faultVars
<1>11. CASE StartFault
  BY <1>11, CleanEffectType, ReapplyEffectType, RejectedType
     DEF StartFault, RequeueAllEffect, Active, TypeOK, vars, dbVars, mutationVars, patchVars, entityVars, cycleVars, faultVars
<1>12. CASE EnterCycle
  <2>1. calls' \in Nat
    BY <1>12 DEF EnterCycle, TypeOK
  <2>2. pc' \in {"claim", pc}
    BY <1>12 DEF EnterCycle
  <2>3. queued' \in BOOLEAN
    BY <1>12, Zenon DEF EnterCycle
  <2>4. QED
    BY <1>12, <2>1, <2>2, <2>3 DEF EnterCycle, TypeOK, vars, dbVars, mutationVars,
       patchVars, entityVars, cycleVars, faultVars
<1>13. CASE Claim
  BY <1>13
     DEF Claim, ClaimEffect, Active, TypeOK, vars, dbVars, mutationVars, patchVars, entityVars, cycleVars, faultVars
<1>14. CASE NothingClaimed
  BY <1>14
     DEF NothingClaimed, LoopEnd, TypeOK, vars, dbVars, mutationVars, patchVars, entityVars, cycleVars, faultVars
<1>15. CASE SendReplay
  BY <1>15
     DEF SendReplay, MutationOperation, TypeOK, vars, dbVars, mutationVars, patchVars, entityVars, cycleVars, faultVars
<1>16. ASSUME NEW w \in ServerWrites, ReplayApplied(w)
      PROVE  TypeOK'
  BY <1>16, PersistType
     DEF ReplayApplied, Resolved, TypeOK, vars, dbVars, mutationVars, patchVars, entityVars, cycleVars, faultVars
<1>17. CASE ReplayFailed
  BY <1>17
     DEF ReplayFailed, Resolved, TypeOK, vars, dbVars, mutationVars, patchVars, entityVars, cycleVars, faultVars
<1>18. CASE ReplayNetworkError
  BY <1>18
     DEF ReplayNetworkError, SendAgain, TypeOK, vars, dbVars, mutationVars, patchVars, entityVars, cycleVars, faultVars
<1>19. CASE Requeue
  BY <1>19
     DEF Requeue, RequeueEffect, LoopEnd, Active, TypeOK, vars, dbVars, mutationVars, patchVars, entityVars, cycleVars, faultVars
<1>20. CASE Settle
  BY <1>20
     DEF Settle, StatusEffect, CycleOK, TypeOK, vars, dbVars, mutationVars, patchVars, entityVars, cycleVars, faultVars
<1>21. CASE CleanOwn
  BY <1>21, CleanEffectType
     DEF CleanOwn, TypeOK, vars, dbVars, mutationVars, patchVars, entityVars, cycleVars, faultVars
<1>22. CASE CycleFault
  BY <1>22, CleanEffectType, RejectedType
     DEF CycleFault, SendAgain, ClaimEffect, RequeueEffect, StatusEffect, CycleOK, Active, TypeOK, vars, dbVars, mutationVars, patchVars, entityVars, cycleVars, faultVars
<1>23. ASSUME NEW m \in Mutation, NEW w \in ServerWrites, DirectResult(m, w)
      PROVE  TypeOK'
  BY <1>23, PersistType
     DEF DirectResult, TypeOK, vars, dbVars, mutationVars, patchVars, entityVars, cycleVars, faultVars
<1>24. ASSUME NEW w \in ServerWrites, QueryResult(w)
      PROVE  TypeOK'
  BY <1>24, PersistType
     DEF QueryResult, TypeOK, vars, dbVars, mutationVars, patchVars, entityVars, cycleVars, faultVars
<1>25. CASE Failover
  BY <1>25, RejectedType
     DEF Failover, TypeOK, vars, dbVars, mutationVars, patchVars, entityVars, cycleVars, faultVars
<1>26. CASE Crash
  <2>1. fk' \in BOOLEAN /\ queued' \in BOOLEAN
    BY <1>26, Zenon DEF Crash
  <2>2. exec' \in [Mutation -> {"none", "running", "throwing", "done"}]
    BY <1>26 DEF Crash
  <2>3. crashes' \in Nat
    BY <1>26 DEF Crash, TypeOK
  <2>4. net' \in SUBSET (Mutation \X {"replay", "direct"})
    BY <1>26 DEF Crash
  <2>5. QED
    BY <1>26, <2>1, <2>2, <2>3, <2>4 DEF Crash, SendAgain, TypeOK, vars, dbVars,
       mutationVars,
       patchVars, entityVars, cycleVars, faultVars
<1>27. CASE UNCHANGED vars
  BY <1>27
     DEF TypeOK, vars, dbVars, mutationVars, patchVars, entityVars, cycleVars, faultVars
<1>28. QED
  <2>1. CASE Execution
    BY <2>1, <1>1, <1>3, <1>4, <1>6 DEF Execution, ResolverPatches
  <2>2. CASE Startup
    BY <2>2, <1>7, <1>8, <1>9, <1>10 DEF Startup
  <2>3. CASE Cycle
    BY <2>3, <1>12, <1>13, <1>14, <1>15, <1>19, <1>20, <1>21 DEF Cycle
  <2>4. CASE ReplayResult
    BY <2>4, <1>16, <1>17 DEF ReplayResult
  <2>5. CASE Environment
    BY <2>5, <1>18, <1>23, <1>24, <1>25, <1>26 DEF Environment
  <2>6. CASE Faults
    BY <2>6, <1>2, <1>5, <1>11, <1>22 DEF Faults, ResolverPatches
  <2>7. QED
    BY <2>1, <2>2, <2>3, <2>4, <2>5, <2>6, <1>27 DEF Next

LEMMA CycleStep ==
    ASSUME TypeOK, CycleOK, [Next]_vars
    PROVE  CycleOK'
<1>1. ASSUME NEW m \in Mutation, Begin(m)
      PROVE  CycleOK'
  BY <1>1
     DEF Begin, InsertEffect, TypeOK, Resolved, CycleOK, vars, dbVars, mutationVars, patchVars, entityVars, cycleVars, faultVars
<1>2. ASSUME NEW m \in Mutation, BeginFault(m)
      PROVE  CycleOK'
  BY <1>2
     DEF BeginFault, InsertEffect, Rejected, TypeOK, Resolved, CycleOK, vars, dbVars, mutationVars, patchVars, entityVars, cycleVars, faultVars
<1>3. ASSUME NEW m \in Mutation, NEW e \in Entity, NEW S \in SUBSET Field, PatchEntity(m, e, S)
      PROVE  CycleOK'
  BY <1>3
     DEF PatchEntity, CycleOK, vars, dbVars, mutationVars, patchVars, entityVars, cycleVars, faultVars
<1>4. ASSUME NEW m \in Mutation, NEW e \in Entity, PatchRefused(m, e)
      PROVE  CycleOK'
  BY <1>4
     DEF PatchRefused, CycleOK, vars, dbVars, mutationVars, patchVars, entityVars, cycleVars, faultVars
<1>5. ASSUME NEW m \in Mutation, NEW e \in Entity, NEW S \in SUBSET Field, PatchFault(m, e, S)
      PROVE  CycleOK'
  BY <1>5
     DEF PatchFault, CycleOK, vars, dbVars, mutationVars, patchVars, entityVars, cycleVars, faultVars
<1>6. ASSUME NEW m \in Mutation, NEW forwarded \in BOOLEAN, FinishExec(m, forwarded)
      PROVE  CycleOK'
  BY <1>6
     DEF FinishExec, CycleOK, vars, dbVars, mutationVars, patchVars, entityVars, cycleVars, faultVars
<1>7. CASE Migrated
  BY <1>7
     DEF Migrated, CycleOK, vars, dbVars, mutationVars, patchVars, entityVars, cycleVars, faultVars
<1>8. CASE StartRequeue
  BY <1>8, CurIsMutation
     DEF StartRequeue, RequeueAllEffect, CycleOK, vars, dbVars, mutationVars, patchVars, entityVars, cycleVars, faultVars
<1>9. CASE StartClean
  BY <1>9
     DEF StartClean, CycleOK, vars, dbVars, mutationVars, patchVars, entityVars, cycleVars, faultVars
<1>10. CASE StartReapply
  BY <1>10
     DEF StartReapply, CycleOK, vars, dbVars, mutationVars, patchVars, entityVars, cycleVars, faultVars
<1>11. CASE StartFault
  BY <1>11, CurIsMutation
     DEF StartFault, RequeueAllEffect, CycleOK, vars, dbVars, mutationVars, patchVars, entityVars, cycleVars, faultVars
<1>12. CASE EnterCycle
  BY <1>12
     DEF EnterCycle, CycleOK, vars, dbVars, mutationVars, patchVars, entityVars, cycleVars, faultVars
<1>13. CASE Claim
  BY <1>13, CurIsMutation
     DEF Claim, ClaimEffect, Claimable, TypeOK, CycleOK, vars, dbVars, mutationVars, patchVars, entityVars, cycleVars, faultVars
<1>14. CASE NothingClaimed
  BY <1>14, CurIsMutation
     DEF NothingClaimed, LoopEnd, CycleOK, vars, dbVars, mutationVars, patchVars, entityVars, cycleVars, faultVars
<1>15. CASE SendReplay
  BY <1>15
     DEF SendReplay, MutationOperation, TypeOK, CycleOK, vars, dbVars, mutationVars, patchVars, entityVars, cycleVars, faultVars
<1>16. ASSUME NEW w \in ServerWrites, ReplayApplied(w)
      PROVE  CycleOK'
  BY <1>16
     DEF ReplayApplied, Resolved, CycleOK, vars, dbVars, mutationVars, patchVars, entityVars, cycleVars, faultVars
<1>17. CASE ReplayFailed
  BY <1>17
     DEF ReplayFailed, Resolved, CycleOK, vars, dbVars, mutationVars, patchVars, entityVars, cycleVars, faultVars
<1>18. CASE ReplayNetworkError
  BY <1>18
     DEF ReplayNetworkError, CycleOK, vars, dbVars, mutationVars, patchVars, entityVars, cycleVars, faultVars
<1>19. CASE Requeue
  BY <1>19, CurIsMutation
     DEF Requeue, LoopEnd, CycleOK, vars, dbVars, mutationVars, patchVars, entityVars, cycleVars, faultVars
<1>20. CASE Settle
  BY <1>20
     DEF Settle, StatusEffect, TypeOK, Resolved, CycleOK, vars, dbVars, mutationVars, patchVars, entityVars, cycleVars, faultVars
<1>21. CASE CleanOwn
  BY <1>21, CurIsMutation
     DEF CleanOwn, CycleOK, vars, dbVars, mutationVars, patchVars, entityVars, cycleVars, faultVars
<1>22. CASE CycleFault
  BY <1>22, CurIsMutation
     DEF CycleFault, CycleOK, vars, dbVars, mutationVars, patchVars, entityVars, cycleVars, faultVars
<1>23. ASSUME NEW m \in Mutation, NEW w \in ServerWrites, DirectResult(m, w)
      PROVE  CycleOK'
  BY <1>23
     DEF DirectResult, CycleOK, vars, dbVars, mutationVars, patchVars, entityVars, cycleVars, faultVars
<1>24. ASSUME NEW w \in ServerWrites, QueryResult(w)
      PROVE  CycleOK'
  BY <1>24
     DEF QueryResult, CycleOK, vars, dbVars, mutationVars, patchVars, entityVars, cycleVars, faultVars
<1>25. CASE Failover
  BY <1>25
     DEF Failover, CycleOK, vars, dbVars, mutationVars, patchVars, entityVars, cycleVars, faultVars
<1>26. CASE Crash
  BY <1>26, CurIsMutation
     DEF Crash, CycleOK, vars, dbVars, mutationVars, patchVars, entityVars, cycleVars, faultVars
<1>27. CASE UNCHANGED vars
  BY <1>27
     DEF CycleOK, vars, dbVars, mutationVars, patchVars, entityVars, cycleVars, faultVars
<1>28. QED
  <2>1. CASE Execution
    BY <2>1, <1>1, <1>3, <1>4, <1>6 DEF Execution, ResolverPatches
  <2>2. CASE Startup
    BY <2>2, <1>7, <1>8, <1>9, <1>10 DEF Startup
  <2>3. CASE Cycle
    BY <2>3, <1>12, <1>13, <1>14, <1>15, <1>19, <1>20, <1>21 DEF Cycle
  <2>4. CASE ReplayResult
    BY <2>4, <1>16, <1>17 DEF ReplayResult
  <2>5. CASE Environment
    BY <2>5, <1>18, <1>23, <1>24, <1>25, <1>26 DEF Environment
  <2>6. CASE Faults
    BY <2>6, <1>2, <1>5, <1>11, <1>22 DEF Faults, ResolverPatches
  <2>7. QED
    BY <2>1, <2>2, <2>3, <2>4, <2>5, <2>6, <1>27 DEF Next

(* The tables and the processor keep their types, and the cycle its row.   *)
THEOREM TypeCorrect == Spec => [](TypeOK /\ CycleOK)
<1>1. Init => TypeOK /\ CycleOK
  BY InitTypeOK
<1>2. TypeOK /\ CycleOK /\ [Next]_vars => (TypeOK /\ CycleOK)'
  BY TypeStep, CycleStep
<1>3. QED
  BY <1>1, <1>2, PTL DEF Spec

-----------------------------------------------------------------------------
(* The order of the queue.                                                 *)

(* A mutation has at most one row, and a row has a status.                 *)
RowsOK ==
    /\ \A i \in DOMAIN rows : status[rows[i]] # "none"
    /\ \A i, j \in DOMAIN rows : rows[i] = rows[j] => i = j

QueueOK == RowsOK /\ AtMostOneInflight /\ SentInOrder

LEMMA InsertKeepsQueue ==
    ASSUME TypeOK, QueueOK, NEW m \in Mutation, status[m] = "none", InsertEffect(m)
    PROVE  QueueOK'
<1>1. /\ DOMAIN rows = 1 .. Len(rows) /\ Len(rows) \in Nat
      /\ DOMAIN rows' = 1 .. Len(rows) + 1
      /\ rows'[Len(rows) + 1] = m
      /\ \A i \in DOMAIN rows : rows'[i] = rows[i] /\ rows[i] \in Mutation
  BY DEF InsertEffect, TypeOK
<1>2. \A n \in Mutation : status'[n] = IF n = m THEN "pending" ELSE status[n]
  BY DEF InsertEffect, TypeOK
<1>3. \A i \in DOMAIN rows : rows[i] # m
  BY DEF QueueOK, RowsOK
<1>4. \A i \in DOMAIN rows' :
        \/ i \in DOMAIN rows /\ rows'[i] = rows[i] /\ status'[rows'[i]] = status[rows[i]]
        \/ i = Len(rows) + 1 /\ rows'[i] = m /\ status'[rows'[i]] = "pending"
  BY <1>1, <1>2, <1>3
<1>5. RowsOK'
  BY <1>1, <1>3, <1>4 DEF QueueOK, RowsOK
<1>6. AtMostOneInflight'
  BY <1>2 DEF QueueOK, AtMostOneInflight
<1>7. SentInOrder'
  BY <1>1, <1>4 DEF QueueOK, SentInOrder
<1>8. QED
  BY <1>5, <1>6, <1>7 DEF QueueOK

LEMMA ClaimKeepsQueue ==
    ASSUME TypeOK, QueueOK, NEW m \in Mutation, Claimable(m), ClaimEffect(m),
           UNCHANGED rows
    PROVE  QueueOK'
<1>1. /\ DOMAIN rows = 1 .. Len(rows) /\ Len(rows) \in Nat
      /\ \A i \in DOMAIN rows : rows[i] \in Mutation
  BY DEF TypeOK
<1>2. \A n \in Mutation : status'[n] = IF n = m THEN "inflight" ELSE status[n]
  BY DEF ClaimEffect, TypeOK
<1>3. PICK k \in DOMAIN rows :
        /\ rows[k] = m
        /\ status[m] = "pending"
        /\ \A j \in 1 .. k - 1 : status[rows[j]] # "pending"
  BY DEF Claimable
<1>4. \A n \in Mutation : status[n] # "inflight"
  BY DEF Claimable
<1>5. RowsOK'
  BY <1>1, <1>2 DEF QueueOK, RowsOK
<1>6. AtMostOneInflight'
  BY <1>2, <1>4 DEF AtMostOneInflight
<1>7. ASSUME NEW i \in DOMAIN rows, NEW j \in DOMAIN rows,
             i < j, status'[rows[j]] # "pending"
      PROVE  status'[rows[i]] \in Resolved
  <2>1. CASE j = k
    <3>0. i \in 1 .. k - 1
      BY <1>1, <1>7, <2>1
    <3>1. status[rows[i]] \notin {"none", "pending", "inflight"}
      BY <1>1, <1>3, <1>4, <3>0 DEF QueueOK, RowsOK
    <3>2. rows[i] # m
      BY <1>1, <1>3, <1>7, <2>1 DEF QueueOK, RowsOK
    <3>3. QED
      BY <1>1, <1>2, <3>1, <3>2 DEF TypeOK, Active
  <2>2. CASE j # k
    <3>1. rows[j] # m /\ status[rows[j]] # "pending"
      BY <1>1, <1>2, <1>3, <1>7, <2>2 DEF QueueOK, RowsOK
    <3>2. status[rows[i]] \in Resolved
      BY <1>7, <3>1 DEF QueueOK, SentInOrder
    <3>3. QED
      BY <1>1, <1>2, <1>3, <3>2 DEF Resolved
  <2>3. QED
    BY <2>1, <2>2
<1>8. SentInOrder'
  BY <1>7 DEF SentInOrder
<1>9. QED
  BY <1>5, <1>6, <1>8 DEF QueueOK

LEMMA RequeueKeepsQueue ==
    ASSUME TypeOK, QueueOK, UNCHANGED rows,
           RequeueAllEffect \/ \E m \in Mutation : RequeueEffect(m)
    PROVE  QueueOK'
<1>1. \A i \in DOMAIN rows : rows[i] \in Mutation
  BY DEF TypeOK
<1>2. \A n \in Mutation :
        status'[n] = status[n] \/ (status[n] = "inflight" /\ status'[n] = "pending")
  BY DEF RequeueAllEffect, RequeueEffect, TypeOK
<1>3. RowsOK'
  BY <1>1, <1>2 DEF QueueOK, RowsOK
<1>4. AtMostOneInflight'
  BY <1>2 DEF QueueOK, AtMostOneInflight
<1>5. SentInOrder'
  BY <1>1, <1>2 DEF QueueOK, SentInOrder, Resolved
<1>6. QED
  BY <1>3, <1>4, <1>5 DEF QueueOK

LEMMA ResolveKeepsQueue ==
    ASSUME TypeOK, QueueOK, UNCHANGED rows, NEW m \in Mutation, NEW s \in Resolved,
           status[m] = "inflight", StatusEffect(m, s)
    PROVE  QueueOK'
<1>1. \A i \in DOMAIN rows : rows[i] \in Mutation
  BY DEF TypeOK
<1>2. \A n \in Mutation : status'[n] = IF n = m THEN s ELSE status[n]
  BY DEF StatusEffect, TypeOK
<1>3. RowsOK'
  BY <1>1, <1>2 DEF QueueOK, RowsOK, Resolved
<1>4. AtMostOneInflight'
  BY <1>2 DEF QueueOK, AtMostOneInflight, Resolved
<1>5. SentInOrder'
  BY <1>1, <1>2 DEF QueueOK, SentInOrder
<1>6. QED
  BY <1>3, <1>4, <1>5 DEF QueueOK

LEMMA SameRowsKeepQueue == QueueOK /\ UNCHANGED mutationVars => QueueOK'
BY DEF QueueOK, RowsOK, AtMostOneInflight, SentInOrder, mutationVars

LEMMA QueueStep ==
    ASSUME TypeOK, CycleOK, QueueOK, [Next]_vars
    PROVE  QueueOK'
<1>1. ASSUME NEW m \in Mutation, Begin(m)
      PROVE  QueueOK'
  BY <1>1, InsertKeepsQueue
     DEF Begin, vars, dbVars, mutationVars, patchVars, entityVars, cycleVars, faultVars
<1>2. ASSUME NEW m \in Mutation, BeginFault(m)
      PROVE  QueueOK'
  BY <1>2, InsertKeepsQueue, SameRowsKeepQueue
     DEF BeginFault, vars, dbVars, mutationVars, patchVars, entityVars, cycleVars, faultVars
<1>3. ASSUME NEW m \in Mutation, NEW e \in Entity, NEW S \in SUBSET Field, PatchEntity(m, e, S)
      PROVE  QueueOK'
  BY <1>3, SameRowsKeepQueue
     DEF PatchEntity, vars, dbVars, mutationVars, patchVars, entityVars, cycleVars, faultVars
<1>4. ASSUME NEW m \in Mutation, NEW e \in Entity, PatchRefused(m, e)
      PROVE  QueueOK'
  BY <1>4, SameRowsKeepQueue
     DEF PatchRefused, vars, dbVars, mutationVars, patchVars, entityVars, cycleVars, faultVars
<1>5. ASSUME NEW m \in Mutation, NEW e \in Entity, NEW S \in SUBSET Field, PatchFault(m, e, S)
      PROVE  QueueOK'
  BY <1>5, SameRowsKeepQueue
     DEF PatchFault, vars, dbVars, mutationVars, patchVars, entityVars, cycleVars, faultVars
<1>6. ASSUME NEW m \in Mutation, NEW forwarded \in BOOLEAN, FinishExec(m, forwarded)
      PROVE  QueueOK'
  BY <1>6, SameRowsKeepQueue
     DEF FinishExec, vars, dbVars, mutationVars, patchVars, entityVars, cycleVars, faultVars
<1>7. CASE Migrated
  BY <1>7, SameRowsKeepQueue
     DEF Migrated, vars, dbVars, mutationVars, patchVars, entityVars, cycleVars, faultVars
<1>8. CASE StartRequeue
  BY <1>8, RequeueKeepsQueue
     DEF StartRequeue, vars, dbVars, mutationVars, patchVars, entityVars, cycleVars, faultVars
<1>9. CASE StartClean
  BY <1>9, SameRowsKeepQueue
     DEF StartClean, vars, dbVars, mutationVars, patchVars, entityVars, cycleVars, faultVars
<1>10. CASE StartReapply
  BY <1>10, SameRowsKeepQueue
     DEF StartReapply, vars, dbVars, mutationVars, patchVars, entityVars, cycleVars, faultVars
<1>11. CASE StartFault
  BY <1>11, RequeueKeepsQueue, SameRowsKeepQueue
     DEF StartFault, vars, dbVars, mutationVars, patchVars, entityVars, cycleVars, faultVars
<1>12. CASE EnterCycle
  BY <1>12, SameRowsKeepQueue
     DEF EnterCycle, vars, dbVars, mutationVars, patchVars, entityVars, cycleVars, faultVars
<1>13. CASE Claim
  BY <1>13, ClaimKeepsQueue, SameRowsKeepQueue
     DEF Claim, vars, dbVars, mutationVars, patchVars, entityVars, cycleVars, faultVars
<1>14. CASE NothingClaimed
  BY <1>14, SameRowsKeepQueue
     DEF NothingClaimed, vars, dbVars, mutationVars, patchVars, entityVars, cycleVars, faultVars
<1>15. CASE SendReplay
  BY <1>15, SameRowsKeepQueue
     DEF SendReplay, vars, dbVars, mutationVars, patchVars, entityVars, cycleVars, faultVars
<1>16. ASSUME NEW w \in ServerWrites, ReplayApplied(w)
      PROVE  QueueOK'
  BY <1>16, SameRowsKeepQueue
     DEF ReplayApplied, vars, dbVars, mutationVars, patchVars, entityVars, cycleVars, faultVars
<1>17. CASE ReplayFailed
  BY <1>17, SameRowsKeepQueue
     DEF ReplayFailed, vars, dbVars, mutationVars, patchVars, entityVars, cycleVars, faultVars
<1>18. CASE ReplayNetworkError
  BY <1>18, SameRowsKeepQueue
     DEF ReplayNetworkError, vars, dbVars, mutationVars, patchVars, entityVars, cycleVars, faultVars
<1>19. CASE Requeue
  BY <1>19, RequeueKeepsQueue
     DEF Requeue, CycleOK, vars, dbVars, mutationVars, patchVars, entityVars, cycleVars, faultVars
<1>20. CASE Settle
  BY <1>20, ResolveKeepsQueue
     DEF Settle, CycleOK, vars, dbVars, mutationVars, patchVars, entityVars, cycleVars, faultVars
<1>21. CASE CleanOwn
  BY <1>21, SameRowsKeepQueue
     DEF CleanOwn, vars, dbVars, mutationVars, patchVars, entityVars, cycleVars, faultVars
<1>22. CASE CycleFault
  <2>1. \/ UNCHANGED status
        \/ \E m \in Mutation : Claimable(m) /\ ClaimEffect(m)
        \/ pc = "requeue" /\ RequeueEffect(cur)
        \/ pc = "settle" /\ StatusEffect(cur, verdict)
    BY <1>22 DEF CycleFault
  <2>2. UNCHANGED rows
    BY <1>22 DEF CycleFault
  <2>3. QED
    BY <2>1, <2>2, ClaimKeepsQueue, RequeueKeepsQueue, ResolveKeepsQueue,
       SameRowsKeepQueue
       DEF CycleOK, mutationVars
<1>23. ASSUME NEW m \in Mutation, NEW w \in ServerWrites, DirectResult(m, w)
      PROVE  QueueOK'
  BY <1>23, SameRowsKeepQueue
     DEF DirectResult, vars, dbVars, mutationVars, patchVars, entityVars, cycleVars, faultVars
<1>24. ASSUME NEW w \in ServerWrites, QueryResult(w)
      PROVE  QueueOK'
  BY <1>24, SameRowsKeepQueue
     DEF QueryResult, vars, dbVars, mutationVars, patchVars, entityVars, cycleVars, faultVars
<1>25. CASE Failover
  BY <1>25, SameRowsKeepQueue
     DEF Failover, vars, dbVars, mutationVars, patchVars, entityVars, cycleVars, faultVars
<1>26. CASE Crash
  BY <1>26, SameRowsKeepQueue
     DEF Crash, vars, dbVars, mutationVars, patchVars, entityVars, cycleVars, faultVars
<1>27. CASE UNCHANGED vars
  BY <1>27, SameRowsKeepQueue
     DEF vars, dbVars, mutationVars, patchVars, entityVars, cycleVars, faultVars
<1>28. QED
  <2>1. CASE Execution
    BY <2>1, <1>1, <1>3, <1>4, <1>6 DEF Execution, ResolverPatches
  <2>2. CASE Startup
    BY <2>2, <1>7, <1>8, <1>9, <1>10 DEF Startup
  <2>3. CASE Cycle
    BY <2>3, <1>12, <1>13, <1>14, <1>15, <1>19, <1>20, <1>21 DEF Cycle
  <2>4. CASE ReplayResult
    BY <2>4, <1>16, <1>17 DEF ReplayResult
  <2>5. CASE Environment
    BY <2>5, <1>18, <1>23, <1>24, <1>25, <1>26 DEF Environment
  <2>6. CASE Faults
    BY <2>6, <1>2, <1>5, <1>11, <1>22 DEF Faults, ResolverPatches
  <2>7. QED
    BY <2>1, <2>2, <2>3, <2>4, <2>5, <2>6, <1>27 DEF Next

(* At most one mutation is inflight, and no mutation is sent before an     *)
(* older one is resolved.                                                  *)
THEOREM QueueIsSafe == Spec => [](AtMostOneInflight /\ SentInOrder)
<1>1. Init => QueueOK
  BY DEF Init, EmptyTables, QueueOK, RowsOK, AtMostOneInflight, SentInOrder
<1>2. TypeOK /\ CycleOK /\ QueueOK /\ [Next]_vars => QueueOK'
  BY QueueStep
<1>3. QueueOK => AtMostOneInflight /\ SentInOrder
  BY DEF QueueOK
<1>4. QED
  BY <1>1, <1>2, <1>3, TypeCorrect, PTL DEF Spec

-----------------------------------------------------------------------------
(* The optimistic changes.                                                 *)

(* A patch belongs to a mutation with a row, is in the order of its entity, *)
(* and gives fields optimistic values.                                     *)
PatchesOK ==
    /\ \A m \in Mutation, e \in Entity : patch[m][e] # Null =>
          /\ status[m] # "none"
          /\ \E i \in DOMAIN patchRows[e] : patchRows[e][i] = m
          /\ \A f \in Field : patch[m][e][f] \in Mutation \cup {Absent}
    /\ \A m \in Mutation : exec[m] = "running" => status[m] # "none"

OptimisticOK == PatchesOK /\ ActivePatchHasBase /\ OptimisticFieldShown

(* No mutation with a patch becomes active, which is so for every change   *)
(* of the mutations table.                                                 *)
NoneRevived ==
    \A m \in Mutation : status'[m] \in Active =>
        status[m] \in Active \/ status[m] = "none"

(* The changes of one row or of all of them that the code makes.           *)
LEMMA StatusSteps ==
    ASSUME TypeOK, CycleOK,
           \/ UNCHANGED status
           \/ \E m \in Mutation : status[m] = "none" /\ InsertEffect(m)
           \/ \E m \in Mutation : Claimable(m) /\ ClaimEffect(m)
           \/ RequeueAllEffect
           \/ \E m \in Mutation : RequeueEffect(m)
           \/ pc = "settle" /\ StatusEffect(cur, verdict)
    PROVE  /\ NoneRevived
           /\ \A m \in Mutation : status[m] # "none" => status'[m] # "none"
           /\ \A m \in Mutation : status[m] \in Resolved => status'[m] = status[m]
<1>1. CASE \E m \in Mutation : Claimable(m) /\ ClaimEffect(m)
  BY <1>1 DEF Claimable, ClaimEffect, NoneRevived, TypeOK, Active, Resolved
<1>2. CASE \E m \in Mutation : status[m] = "none" /\ InsertEffect(m)
  BY <1>2 DEF InsertEffect, NoneRevived, TypeOK, Active, Resolved
<1>3. CASE RequeueAllEffect
  BY <1>3 DEF RequeueAllEffect, NoneRevived, TypeOK, Active, Resolved
<1>4. CASE \E m \in Mutation : RequeueEffect(m)
  BY <1>4 DEF RequeueEffect, NoneRevived, TypeOK, Active, Resolved
<1>5. CASE pc = "settle" /\ StatusEffect(cur, verdict)
  BY <1>5 DEF StatusEffect, CycleOK, NoneRevived, TypeOK, Active, Resolved
<1>6. CASE UNCHANGED status
  BY <1>6 DEF NoneRevived
<1>7. QED
  BY <1>1, <1>2, <1>3, <1>4, <1>5, <1>6

LEMMA StatusKeepsOptimistic ==
    ASSUME TypeOK, OptimisticOK, NoneRevived,
           \A m \in Mutation : status[m] # "none" => status'[m] # "none",
           \A m \in Mutation : exec'[m] = "running" => exec[m] = "running" \/ status'[m] # "none",
           UNCHANGED <<patchVars, data, base>>
    PROVE  OptimisticOK'
<1>1. PatchesOK'
  BY DEF OptimisticOK, PatchesOK, patchVars
<1>2. \A m \in Mutation, e \in Entity :
        status'[m] \in Active /\ patch[m][e] # Null => status[m] \in Active
  BY DEF OptimisticOK, PatchesOK, NoneRevived
<1>3. ActivePatchHasBase'
  BY <1>2 DEF OptimisticOK, ActivePatchHasBase, patchVars
<1>4. OptimisticFieldShown'
  BY <1>2 DEF OptimisticOK, OptimisticFieldShown, patchVars
<1>5. QED
  BY <1>1, <1>3, <1>4 DEF OptimisticOK

LEMMA PersistKeepsOptimistic ==
    ASSUME TypeOK, OptimisticOK, NEW w \in ServerWrites, Persist(w),
           UNCHANGED <<mutationVars, patchVars, exec>>
    PROVE  OptimisticOK'
<1>1. PatchesOK'
  BY DEF OptimisticOK, PatchesOK, patchVars, mutationVars
<1>2. \A e \in Entity : base[e] # Null => base'[e] # Null /\ data'[e] = data[e]
  <2>1. \A e \in Entity : base[e] # Null => Merge(base[e], w[e]) \in Data
    BY ServerDataType, MergeType DEF ServerWrites, TypeOK
  <2>2. QED
    BY <2>1, NullIsNoData DEF Persist
<1>3. ActivePatchHasBase'
  BY <1>2 DEF OptimisticOK, ActivePatchHasBase, patchVars, mutationVars
<1>4. OptimisticFieldShown'
  BY <1>2 DEF OptimisticOK, OptimisticFieldShown, ActivePatchHasBase, patchVars,
     mutationVars
<1>5. QED
  BY <1>1, <1>3, <1>4 DEF OptimisticOK

LEMMA PatchKeepsOptimistic ==
    ASSUME TypeOK, OptimisticOK, NEW m \in Mutation, NEW e \in Entity,
           NEW S \in SUBSET Field, PatchEffect(m, e, S), exec[m] = "running",
           UNCHANGED mutationVars,
           \A n \in Mutation : exec'[n] = "running" => exec[n] = "running"
    PROVE  OptimisticOK'
<1>1. /\ PatchOf(m, S) \in Data
      /\ PatchOf(m, S) # Null
      /\ \A f \in Field : PatchOf(m, S)[f] = IF f \in S THEN m ELSE Absent
  BY PatchOfType, NullIsNoData DEF PatchOf
<1>2. \A n \in Mutation, d \in Entity :
        patch'[n][d] = IF n = m /\ d = e THEN PatchOf(m, S) ELSE patch[n][d]
  BY DEF PatchEffect, TypeOK
<1>3. PatchesOK'
  <2>1. ASSUME NEW n \in Mutation, NEW d \in Entity, patch'[n][d] # Null
        PROVE  \E i \in DOMAIN patchRows'[d] : patchRows'[d][i] = n
    <3>1. CASE patch[n][d] # Null
      <4>1. PICK i \in DOMAIN patchRows[d] : patchRows[d][i] = n
        BY <3>1 DEF OptimisticOK, PatchesOK
      <4>2. patchRows[d] \in Seq(Mutation)
        BY DEF TypeOK
      <4>3. patchRows'[d] = patchRows[d] \/ patchRows'[d] = Append(patchRows[d], m)
        BY DEF PatchEffect, TypeOK
      <4>4. QED
        BY <4>1, <4>2, <4>3
    <3>2. CASE patch[n][d] = Null
      <4>1. n = m /\ d = e
        BY <1>2, <2>1, <3>2
      <4>2. patchRows[e] \in Seq(Mutation)
        BY DEF TypeOK
      <4>3. patchRows'[e] = Append(patchRows[e], m)
        BY <3>2, <4>1 DEF PatchEffect, TypeOK
      <4>4. QED
        BY <4>1, <4>2, <4>3
    <3>3. QED
      BY <3>1, <3>2
  <2>2. \A n \in Mutation, d \in Entity : patch'[n][d] # Null =>
          /\ status[n] # "none"
          /\ \A f \in Field : patch'[n][d][f] \in Mutation \cup {Absent}
    BY <1>1, <1>2 DEF OptimisticOK, PatchesOK
  <2>3. QED
    BY <2>1, <2>2 DEF OptimisticOK, PatchesOK, mutationVars
<1>4. \A d \in Entity : base'[d] = IF d = e /\ base[e] = Null THEN data[e] ELSE base[d]
  BY DEF PatchEffect, TypeOK
<1>5. ActivePatchHasBase'
  <2>1. data[e] # Null
    BY NullIsNoData DEF TypeOK
  <2>2. QED
    BY <1>2, <1>4, <2>1 DEF OptimisticOK, ActivePatchHasBase, mutationVars
<1>6. \A d \in Entity, f \in Field :
        data'[d][f] = IF d = e /\ f \in S THEN m ELSE data[d][f]
  BY <1>1, ConstantsAssumption DEF PatchEffect, TypeOK, Merge
<1>7. OptimisticFieldShown'
  BY <1>1, <1>2, <1>6 DEF OptimisticOK, OptimisticFieldShown, mutationVars
<1>8. QED
  BY <1>3, <1>5, <1>7 DEF OptimisticOK

LEMMA CleanKeepsOptimistic ==
    ASSUME TypeOK, OptimisticOK, NEW S, CleanEffect(S),
           UNCHANGED <<mutationVars, patchVars, exec>>
    PROVE  OptimisticOK'
<1>1. PatchesOK'
  BY DEF OptimisticOK, PatchesOK, patchVars, mutationVars
<1>2. \A e \in Entity : HasActivePatch(e) => base'[e] = base[e] /\ data'[e] = data[e]
  BY DEF CleanEffect
<1>3. ActivePatchHasBase'
  BY <1>2 DEF OptimisticOK, ActivePatchHasBase, HasActivePatch, patchVars, mutationVars
<1>4. OptimisticFieldShown'
  BY <1>2 DEF OptimisticOK, OptimisticFieldShown, HasActivePatch, patchVars,
     mutationVars
<1>5. QED
  BY <1>1, <1>3, <1>4 DEF OptimisticOK

(* What reapplyAllMutationPatches shows of a field.                        *)
LEMMA ReappliedField ==
    ASSUME TypeOK, PatchesOK, NEW e \in Entity, NEW f \in Field
    PROVE  /\ Writers(e, f) # {} => Reapplied(e)[f] \in Mutation
           /\ Writers(e, f) = {} => Reapplied(e)[f] = base[e][f]
<1>1. ASSUME Writers(e, f) # {}
      PROVE  Reapplied(e)[f] \in Mutation
  <2>1. /\ Len(patchRows[e]) \in Nat
        /\ Writers(e, f) \in SUBSET (1 .. Len(patchRows[e]))
    BY DEF TypeOK, Writers
  <2>2. \E i \in Writers(e, f) : \A j \in Writers(e, f) : j <= i
    BY <1>1, <2>1, LastExists
  <2> DEFINE last == CHOOSE i \in Writers(e, f) :
                        \A j \in Writers(e, f) : j <= i
  <2>3. last \in Writers(e, f)
    BY <2>2
  <2>4. Reapplied(e)[f] = patch[patchRows[e][last]][e][f]
    BY <1>1 DEF Reapplied
  <2> HIDE DEF last
  <2>5. /\ patchRows[e][last] \in Mutation
        /\ patch[patchRows[e][last]][e] # Null
        /\ patch[patchRows[e][last]][e][f] # Absent
    BY <2>3 DEF Writers, TypeOK
  <2>6. QED
    BY <2>4, <2>5 DEF PatchesOK
<1>2. QED
  BY <1>1 DEF Reapplied

LEMMA ReapplyKeepsOptimistic ==
    ASSUME TypeOK, OptimisticOK, ReapplyEffect,
           UNCHANGED <<mutationVars, patchVars, base, exec>>
    PROVE  OptimisticOK'
<1>1. PatchesOK'
  BY DEF OptimisticOK, PatchesOK, patchVars, mutationVars
<1>2. ActivePatchHasBase'
  BY DEF OptimisticOK, ActivePatchHasBase, patchVars, mutationVars
<1>3. ASSUME NEW m \in Mutation, NEW e \in Entity, NEW f \in Field,
             status[m] \in Active, patch[m][e] # Null, patch[m][e][f] # Absent
      PROVE  data'[e][f] \in Mutation
  <2>1. data'[e] = Reapplied(e)
    BY <1>3 DEF ReapplyEffect, HasActivePatch, OptimisticOK, ActivePatchHasBase
  <2>2. Writers(e, f) # {}
    BY <1>3 DEF Writers, OptimisticOK, PatchesOK
  <2>3. QED
    BY <2>1, <2>2, ReappliedField DEF OptimisticOK
<1>4. OptimisticFieldShown'
  BY <1>3 DEF OptimisticFieldShown, patchVars, mutationVars
<1>5. QED
  BY <1>1, <1>2, <1>4 DEF OptimisticOK

LEMMA IdleKeepsOptimistic ==
    ASSUME OptimisticOK, UNCHANGED <<mutationVars, patchVars, data, base>>,
           \A m \in Mutation : exec'[m] = "running" => exec[m] = "running"
    PROVE  OptimisticOK'
BY DEF OptimisticOK, PatchesOK, ActivePatchHasBase, OptimisticFieldShown,
       patchVars, mutationVars

LEMMA OptimisticStep ==
    ASSUME TypeOK, CycleOK, OptimisticOK, [Next]_vars
    PROVE  OptimisticOK'
<1>1. ASSUME NEW m \in Mutation, Begin(m)
      PROVE  OptimisticOK'
  <2>1. /\ NoneRevived
        /\ \A n \in Mutation : status[n] # "none" => status'[n] # "none"
    BY <1>1, StatusSteps DEF Begin
  <2>2. \A n \in Mutation : exec'[n] = "running" => exec[n] = "running" \/ status'[n] # "none"
    BY <1>1 DEF Begin, InsertEffect, TypeOK
  <2>3. QED
    BY <1>1, <2>1, <2>2, StatusKeepsOptimistic DEF Begin, patchVars, entityVars
<1>2. ASSUME NEW m \in Mutation, BeginFault(m)
      PROVE  OptimisticOK'
  <2>1. /\ NoneRevived
        /\ \A n \in Mutation : status[n] # "none" => status'[n] # "none"
    BY <1>2, StatusSteps DEF BeginFault, mutationVars
  <2>2. \A n \in Mutation : exec'[n] = "running" => exec[n] = "running"
    BY <1>2 DEF BeginFault, TypeOK
  <2>3. QED
    BY <1>2, <2>1, <2>2, StatusKeepsOptimistic DEF BeginFault, patchVars, entityVars
<1>3. ASSUME NEW m \in Mutation, NEW e \in Entity, NEW S \in SUBSET Field, PatchEntity(m, e, S)
      PROVE  OptimisticOK'
  BY <1>3, PatchKeepsOptimistic
     DEF PatchEntity, vars, dbVars, mutationVars, patchVars, entityVars, cycleVars, faultVars
<1>4. ASSUME NEW m \in Mutation, NEW e \in Entity, PatchRefused(m, e)
      PROVE  OptimisticOK'
  BY <1>4, IdleKeepsOptimistic
     DEF PatchRefused, TypeOK, vars, dbVars, mutationVars, patchVars, entityVars, cycleVars, faultVars
<1>5. ASSUME NEW m \in Mutation, NEW e \in Entity, NEW S \in SUBSET Field, PatchFault(m, e, S)
      PROVE  OptimisticOK'
  <2>1. \A n \in Mutation : exec'[n] = "running" => exec[n] = "running"
    BY <1>5 DEF PatchFault, TypeOK
  <2>2. CASE PatchEffect(m, e, S)
    BY <1>5, <2>1, <2>2, PatchKeepsOptimistic DEF PatchFault
  <2>3. CASE UNCHANGED <<patchVars, entityVars>>
    BY <1>5, <2>1, <2>3, IdleKeepsOptimistic DEF PatchFault, entityVars
  <2>4. QED
    BY <1>5, <2>2, <2>3 DEF PatchFault
<1>6. ASSUME NEW m \in Mutation, NEW forwarded \in BOOLEAN, FinishExec(m, forwarded)
      PROVE  OptimisticOK'
  BY <1>6, IdleKeepsOptimistic
     DEF FinishExec, TypeOK, vars, dbVars, mutationVars, patchVars, entityVars, cycleVars, faultVars
<1>7. CASE Migrated
  BY <1>7, IdleKeepsOptimistic
     DEF Migrated, vars, dbVars, mutationVars, patchVars, entityVars, cycleVars, faultVars
<1>8. CASE StartRequeue
  BY <1>8, StatusSteps, StatusKeepsOptimistic
     DEF StartRequeue, vars, dbVars, mutationVars, patchVars, entityVars, cycleVars, faultVars
<1>9. CASE StartClean
  BY <1>9, CleanKeepsOptimistic
     DEF StartClean, vars, dbVars, mutationVars, patchVars, entityVars, cycleVars, faultVars
<1>10. CASE StartReapply
  BY <1>10, ReapplyKeepsOptimistic
     DEF StartReapply, vars, dbVars, mutationVars, patchVars, entityVars, cycleVars, faultVars
<1>11. CASE StartFault
  <2>1. CASE RequeueAllEffect /\ UNCHANGED <<data, base>>
    BY <1>11, <2>1, StatusSteps, StatusKeepsOptimistic DEF StartFault
  <2>2. CASE CleanEffect(Entity) /\ UNCHANGED status
    BY <1>11, <2>2, CleanKeepsOptimistic DEF StartFault, mutationVars
  <2>3. CASE ReapplyEffect /\ UNCHANGED <<status, base>>
    BY <1>11, <2>3, ReapplyKeepsOptimistic DEF StartFault, mutationVars
  <2>4. CASE UNCHANGED <<status, data, base>>
    BY <1>11, <2>4, IdleKeepsOptimistic DEF StartFault, mutationVars
  <2>5. QED
    BY <1>11, <2>1, <2>2, <2>3, <2>4 DEF StartFault
<1>12. CASE EnterCycle
  BY <1>12, IdleKeepsOptimistic
     DEF EnterCycle, vars, dbVars, mutationVars, patchVars, entityVars, cycleVars, faultVars
<1>13. CASE Claim
  BY <1>13, StatusSteps, StatusKeepsOptimistic
     DEF Claim, vars, dbVars, mutationVars, patchVars, entityVars, cycleVars, faultVars
<1>14. CASE NothingClaimed
  BY <1>14, IdleKeepsOptimistic
     DEF NothingClaimed, vars, dbVars, mutationVars, patchVars, entityVars, cycleVars, faultVars
<1>15. CASE SendReplay
  BY <1>15, IdleKeepsOptimistic
     DEF SendReplay, vars, dbVars, mutationVars, patchVars, entityVars, cycleVars, faultVars
<1>16. ASSUME NEW w \in ServerWrites, ReplayApplied(w)
      PROVE  OptimisticOK'
  BY <1>16, PersistKeepsOptimistic
     DEF ReplayApplied, vars, dbVars, mutationVars, patchVars, entityVars, cycleVars, faultVars
<1>17. CASE ReplayFailed
  BY <1>17, IdleKeepsOptimistic
     DEF ReplayFailed, vars, dbVars, mutationVars, patchVars, entityVars, cycleVars, faultVars
<1>18. CASE ReplayNetworkError
  BY <1>18, IdleKeepsOptimistic
     DEF ReplayNetworkError, vars, dbVars, mutationVars, patchVars, entityVars, cycleVars, faultVars
<1>19. CASE Requeue
  BY <1>19, StatusSteps, StatusKeepsOptimistic
     DEF Requeue, CycleOK, vars, dbVars, mutationVars, patchVars, entityVars, cycleVars, faultVars
<1>20. CASE Settle
  BY <1>20, StatusSteps, StatusKeepsOptimistic
     DEF Settle, vars, dbVars, mutationVars, patchVars, entityVars, cycleVars, faultVars
<1>21. CASE CleanOwn
  BY <1>21, CleanKeepsOptimistic
     DEF CleanOwn, vars, dbVars, mutationVars, patchVars, entityVars, cycleVars, faultVars
<1>22. CASE CycleFault
  <2> DEFINE own == {e \in Entity : patch[cur][e] # Null}
  <2>1. UNCHANGED <<rows, patchVars, exec>>
    BY <1>22 DEF CycleFault
  <2>2. CASE CleanEffect(own) /\ UNCHANGED status
    BY <2>1, <2>2, CleanKeepsOptimistic DEF mutationVars
  <2>3. CASE ~(CleanEffect(own) /\ UNCHANGED status)
    <3>1. /\ UNCHANGED <<data, base>>
          /\ \/ UNCHANGED status
             \/ \E m \in Mutation : Claimable(m) /\ ClaimEffect(m)
             \/ \E m \in Mutation : RequeueEffect(m)
             \/ pc = "settle" /\ StatusEffect(cur, verdict)
      BY <1>22, <2>3 DEF CycleFault, CycleOK
    <3>2. QED
      BY <2>1, <3>1, StatusSteps, StatusKeepsOptimistic
  <2>4. QED
    BY <2>2, <2>3
<1>23. ASSUME NEW m \in Mutation, NEW w \in ServerWrites, DirectResult(m, w)
      PROVE  OptimisticOK'
  BY <1>23, PersistKeepsOptimistic
     DEF DirectResult, vars, dbVars, mutationVars, patchVars, entityVars, cycleVars, faultVars
<1>24. ASSUME NEW w \in ServerWrites, QueryResult(w)
      PROVE  OptimisticOK'
  BY <1>24, PersistKeepsOptimistic
     DEF QueryResult, vars, dbVars, mutationVars, patchVars, entityVars, cycleVars, faultVars
<1>25. CASE Failover
  BY <1>25, IdleKeepsOptimistic
     DEF Failover, vars, dbVars, mutationVars, patchVars, entityVars, cycleVars, faultVars
<1>26. CASE Crash
  BY <1>26, IdleKeepsOptimistic
     DEF Crash, TypeOK, vars, dbVars, mutationVars, patchVars, entityVars, cycleVars, faultVars
<1>27. CASE UNCHANGED vars
  BY <1>27, IdleKeepsOptimistic
     DEF vars, dbVars, mutationVars, patchVars, entityVars, cycleVars, faultVars
<1>28. QED
  <2>1. CASE Execution
    BY <2>1, <1>1, <1>3, <1>4, <1>6 DEF Execution, ResolverPatches
  <2>2. CASE Startup
    BY <2>2, <1>7, <1>8, <1>9, <1>10 DEF Startup
  <2>3. CASE Cycle
    BY <2>3, <1>12, <1>13, <1>14, <1>15, <1>19, <1>20, <1>21 DEF Cycle
  <2>4. CASE ReplayResult
    BY <2>4, <1>16, <1>17 DEF ReplayResult
  <2>5. CASE Environment
    BY <2>5, <1>18, <1>23, <1>24, <1>25, <1>26 DEF Environment
  <2>6. CASE Faults
    BY <2>6, <1>2, <1>5, <1>11, <1>22 DEF Faults, ResolverPatches
  <2>7. QED
    BY <2>1, <2>2, <2>3, <2>4, <2>5, <2>6, <1>27 DEF Next

(* OptimisticOK is inductive, given the types.                             *)
LEMMA OptimisticInvariant == Spec => []OptimisticOK
<1>1. Init => OptimisticOK
  BY DEF Init, EmptyTables, OptimisticOK, PatchesOK, ActivePatchHasBase,
     OptimisticFieldShown
<1>2. TypeOK /\ CycleOK /\ OptimisticOK /\ [Next]_vars => OptimisticOK'
  BY OptimisticStep
<1>3. QED
  BY <1>1, <1>2, TypeCorrect, PTL DEF Spec

(* While a mutation is unresolved, what it patched keeps its base and      *)
(* shows an optimistic value.                                              *)
THEOREM OptimisticIsSafe == Spec => [](ActivePatchHasBase /\ OptimisticFieldShown)
<1>1. OptimisticOK => ActivePatchHasBase /\ OptimisticFieldShown
  BY DEF OptimisticOK
<1>2. QED
  BY <1>1, OptimisticInvariant, PTL

-----------------------------------------------------------------------------
(* A resolved mutation stays so.                                           *)

ResolvedStays == \A m \in Mutation : status[m] \in Resolved => status'[m] = status[m]

LEMMA ResolvedStep ==
    ASSUME TypeOK, CycleOK, [Next]_vars
    PROVE  ResolvedStays
<1>1. ASSUME NEW m \in Mutation, Begin(m)
      PROVE  ResolvedStays
  BY <1>1, StatusSteps
     DEF Begin, ResolvedStays, vars, dbVars, mutationVars, patchVars, entityVars, cycleVars, faultVars
<1>2. ASSUME NEW m \in Mutation, BeginFault(m)
      PROVE  ResolvedStays
  BY <1>2, StatusSteps
     DEF BeginFault, ResolvedStays, vars, dbVars, mutationVars, patchVars, entityVars, cycleVars, faultVars
<1>3. ASSUME NEW m \in Mutation, NEW e \in Entity, NEW S \in SUBSET Field, PatchEntity(m, e, S)
      PROVE  ResolvedStays
  BY <1>3, StatusSteps
     DEF PatchEntity, ResolvedStays, vars, dbVars, mutationVars, patchVars, entityVars, cycleVars, faultVars
<1>4. ASSUME NEW m \in Mutation, NEW e \in Entity, PatchRefused(m, e)
      PROVE  ResolvedStays
  BY <1>4, StatusSteps
     DEF PatchRefused, ResolvedStays, vars, dbVars, mutationVars, patchVars, entityVars, cycleVars, faultVars
<1>5. ASSUME NEW m \in Mutation, NEW e \in Entity, NEW S \in SUBSET Field, PatchFault(m, e, S)
      PROVE  ResolvedStays
  BY <1>5, StatusSteps
     DEF PatchFault, ResolvedStays, vars, dbVars, mutationVars, patchVars, entityVars, cycleVars, faultVars
<1>6. ASSUME NEW m \in Mutation, NEW forwarded \in BOOLEAN, FinishExec(m, forwarded)
      PROVE  ResolvedStays
  BY <1>6, StatusSteps
     DEF FinishExec, ResolvedStays, vars, dbVars, mutationVars, patchVars, entityVars, cycleVars, faultVars
<1>7. CASE Migrated
  BY <1>7, StatusSteps
     DEF Migrated, ResolvedStays, vars, dbVars, mutationVars, patchVars, entityVars, cycleVars, faultVars
<1>8. CASE StartRequeue
  BY <1>8, StatusSteps
     DEF StartRequeue, ResolvedStays, vars, dbVars, mutationVars, patchVars, entityVars, cycleVars, faultVars
<1>9. CASE StartClean
  BY <1>9, StatusSteps
     DEF StartClean, ResolvedStays, vars, dbVars, mutationVars, patchVars, entityVars, cycleVars, faultVars
<1>10. CASE StartReapply
  BY <1>10, StatusSteps
     DEF StartReapply, ResolvedStays, vars, dbVars, mutationVars, patchVars, entityVars, cycleVars, faultVars
<1>11. CASE StartFault
  BY <1>11, StatusSteps
     DEF StartFault, ResolvedStays, vars, dbVars, mutationVars, patchVars, entityVars, cycleVars, faultVars
<1>12. CASE EnterCycle
  BY <1>12, StatusSteps
     DEF EnterCycle, ResolvedStays, vars, dbVars, mutationVars, patchVars, entityVars, cycleVars, faultVars
<1>13. CASE Claim
  BY <1>13, StatusSteps
     DEF Claim, ResolvedStays, vars, dbVars, mutationVars, patchVars, entityVars, cycleVars, faultVars
<1>14. CASE NothingClaimed
  BY <1>14, StatusSteps
     DEF NothingClaimed, ResolvedStays, vars, dbVars, mutationVars, patchVars, entityVars, cycleVars, faultVars
<1>15. CASE SendReplay
  BY <1>15, StatusSteps
     DEF SendReplay, ResolvedStays, vars, dbVars, mutationVars, patchVars, entityVars, cycleVars, faultVars
<1>16. ASSUME NEW w \in ServerWrites, ReplayApplied(w)
      PROVE  ResolvedStays
  BY <1>16, StatusSteps
     DEF ReplayApplied, ResolvedStays, vars, dbVars, mutationVars, patchVars, entityVars, cycleVars, faultVars
<1>17. CASE ReplayFailed
  BY <1>17, StatusSteps
     DEF ReplayFailed, ResolvedStays, vars, dbVars, mutationVars, patchVars, entityVars, cycleVars, faultVars
<1>18. CASE ReplayNetworkError
  BY <1>18, StatusSteps
     DEF ReplayNetworkError, ResolvedStays, vars, dbVars, mutationVars, patchVars, entityVars, cycleVars, faultVars
<1>19. CASE Requeue
  BY <1>19, StatusSteps
     DEF Requeue, ResolvedStays, CycleOK, vars, dbVars, mutationVars, patchVars, entityVars, cycleVars, faultVars
<1>20. CASE Settle
  BY <1>20, StatusSteps
     DEF Settle, ResolvedStays, vars, dbVars, mutationVars, patchVars, entityVars, cycleVars, faultVars
<1>21. CASE CleanOwn
  BY <1>21, StatusSteps
     DEF CleanOwn, ResolvedStays, vars, dbVars, mutationVars, patchVars, entityVars, cycleVars, faultVars
<1>22. CASE CycleFault
  <2>1. \/ UNCHANGED status
        \/ \E m \in Mutation : Claimable(m) /\ ClaimEffect(m)
        \/ \E m \in Mutation : RequeueEffect(m)
        \/ pc = "settle" /\ StatusEffect(cur, verdict)
    BY <1>22 DEF CycleFault, CycleOK
  <2>2. QED
    BY <2>1, StatusSteps DEF ResolvedStays
<1>23. ASSUME NEW m \in Mutation, NEW w \in ServerWrites, DirectResult(m, w)
      PROVE  ResolvedStays
  BY <1>23, StatusSteps
     DEF DirectResult, ResolvedStays, vars, dbVars, mutationVars, patchVars, entityVars, cycleVars, faultVars
<1>24. ASSUME NEW w \in ServerWrites, QueryResult(w)
      PROVE  ResolvedStays
  BY <1>24, StatusSteps
     DEF QueryResult, ResolvedStays, vars, dbVars, mutationVars, patchVars, entityVars, cycleVars, faultVars
<1>25. CASE Failover
  BY <1>25, StatusSteps
     DEF Failover, ResolvedStays, vars, dbVars, mutationVars, patchVars, entityVars, cycleVars, faultVars
<1>26. CASE Crash
  BY <1>26, StatusSteps
     DEF Crash, ResolvedStays, vars, dbVars, mutationVars, patchVars, entityVars, cycleVars, faultVars
<1>27. CASE UNCHANGED vars
  BY <1>27, StatusSteps
     DEF ResolvedStays, vars, dbVars, mutationVars, patchVars, entityVars, cycleVars, faultVars
<1>28. QED
  <2>1. CASE Execution
    BY <2>1, <1>1, <1>3, <1>4, <1>6 DEF Execution, ResolverPatches
  <2>2. CASE Startup
    BY <2>2, <1>7, <1>8, <1>9, <1>10 DEF Startup
  <2>3. CASE Cycle
    BY <2>3, <1>12, <1>13, <1>14, <1>15, <1>19, <1>20, <1>21 DEF Cycle
  <2>4. CASE ReplayResult
    BY <2>4, <1>16, <1>17 DEF ReplayResult
  <2>5. CASE Environment
    BY <2>5, <1>18, <1>23, <1>24, <1>25, <1>26 DEF Environment
  <2>6. CASE Faults
    BY <2>6, <1>2, <1>5, <1>11, <1>22 DEF Faults, ResolverPatches
  <2>7. QED
    BY <2>1, <2>2, <2>3, <2>4, <2>5, <2>6, <1>27 DEF Next

(* What is in `sent` is the business of the running cycle, or resolved.    *)
SentOK ==
    \A m \in sent :
        \/ status[m] \in Resolved
        \/ cur = m /\ pc \in {"wait", "settle", "clean"}

SentFrame == UNCHANGED <<sent, pc, cur>>

(* The steps that touch neither the cycle nor what it has sent.            *)
LEMMA OthersLeaveSent ==
    ASSUME TypeOK, CycleOK, SentOK, [Next]_vars, SentFrame
    PROVE  SentOK'
<1>1. ResolvedStays
  BY ResolvedStep
<1>2. ASSUME NEW m \in sent, cur = m, pc \in {"wait", "settle", "clean"}
      PROVE  cur' = m /\ pc' \in {"wait", "settle", "clean"}
  BY <1>2 DEF SentFrame
<1>3. QED
  BY <1>1, <1>2 DEF SentOK, SentFrame, ResolvedStays, TypeOK

LEMMA SentStep ==
    ASSUME TypeOK, CycleOK, SentOK, [Next]_vars
    PROVE  SentOK'
<1>a. ResolvedStays /\ sent \subseteq Mutation
  BY ResolvedStep DEF TypeOK
<1>1. CASE EnterCycle
  BY <1>1, <1>a DEF EnterCycle, SentOK, CycleOK, ResolvedStays
<1>2. CASE Claim
  BY <1>2, <1>a DEF Claim, SentOK, ResolvedStays
<1>3. CASE NothingClaimed
  BY <1>3, <1>a DEF NothingClaimed, LoopEnd, SentOK, ResolvedStays
<1>4. CASE SendReplay
  BY <1>4, <1>a DEF SendReplay, SentOK, ResolvedStays
<1>5. ASSUME NEW w \in ServerWrites, ReplayApplied(w)
      PROVE  SentOK'
  BY <1>5, <1>a DEF ReplayApplied, SentOK, ResolvedStays
<1>6. CASE ReplayFailed
  BY <1>6, <1>a DEF ReplayFailed, SentOK, ResolvedStays
<1>7. CASE ReplayNetworkError
  <2>1. /\ status' = status /\ pc = "wait"
        /\ \A m \in sent' : m \in sent /\ status'[m] # "inflight"
    BY <1>7 DEF ReplayNetworkError, SendAgain, dbVars, mutationVars
  <2>2. \A m \in sent' : m # cur
    BY <1>a, <2>1 DEF CycleOK
  <2>3. \A m \in sent' : status'[m] \in Resolved
    BY <2>1, <2>2 DEF SentOK
  <2>4. QED
    BY <2>3 DEF SentOK
<1>8. CASE Requeue
  BY <1>8, <1>a DEF Requeue, LoopEnd, SentOK, ResolvedStays
<1>9. CASE Settle
  <2>1. status'[cur] \in Resolved
    BY <1>9 DEF Settle, StatusEffect, CycleOK, TypeOK
  <2>2. QED
    BY <1>9, <1>a, <2>1 DEF Settle, SentOK, ResolvedStays
<1>10. CASE CleanOwn
  <2>1. status' = status /\ sent' = sent /\ status[cur] \in Resolved
    BY <1>10 DEF CleanOwn, CycleOK, mutationVars
  <2>2. \A m \in sent' : status'[m] \in Resolved
    BY <2>1 DEF SentOK
  <2>3. QED
    BY <2>2 DEF SentOK
<1>11. CASE CycleFault
  <2>1. /\ \A m \in sent' : m \in sent /\ status'[m] # "inflight"
        /\ pc \in {"claim", "requeue", "settle", "clean"}
        /\ \/ status' = status
           \/ pc = "claim"
           \/ pc = "requeue"
           \/ pc = "settle" /\ StatusEffect(cur, verdict)
    BY <1>11 DEF CycleFault, SendAgain
  <2>2. ASSUME NEW m \in sent', m # cur PROVE status'[m] \in Resolved
    BY <1>a, <2>1, <2>2 DEF SentOK, ResolvedStays
  <2>3. ASSUME cur \in sent' PROVE status'[cur] \in Resolved
    <3>1. pc \in {"settle", "clean"} /\ cur \in Mutation
      BY <1>a, <2>1, <2>3 DEF CycleOK, SentOK, Resolved
    <3>2. QED
      BY <2>1, <2>3, <3>1 DEF CycleOK, StatusEffect, TypeOK
  <2>4. \A m \in sent' : status'[m] \in Resolved
    BY <2>2, <2>3
  <2>5. QED
    BY <2>4 DEF SentOK
<1>12. CASE Crash
  <2>1. status' = status /\ \A m \in sent' : m \in sent /\ status'[m] # "inflight"
    BY <1>12 DEF Crash, SendAgain, mutationVars
  <2>2. \A m \in sent' : status'[m] \in Resolved
    BY <1>a, <2>1 DEF SentOK, CycleOK
  <2>3. QED
    BY <2>2 DEF SentOK
<1>13. QED
  <2>1. CASE Execution
    <3>1. SentFrame
      BY <2>1 DEF Execution, Begin, PatchEntity, PatchRefused, FinishExec, SentFrame,
         cycleVars
    <3>2. QED
      BY <3>1, OthersLeaveSent
  <2>2. CASE Startup
    <3>1. SentFrame
      BY <2>2 DEF Startup, Migrated, StartRequeue, StartClean, StartReapply, SentFrame,
         cycleVars
    <3>2. QED
      BY <3>1, OthersLeaveSent
  <2>3. CASE Cycle
    BY <2>3, <1>1, <1>2, <1>3, <1>4, <1>8, <1>9, <1>10 DEF Cycle
  <2>4. CASE ReplayResult
    BY <2>4, <1>5, <1>6 DEF ReplayResult
  <2>5. CASE Environment
    <3>1. ReplayNetworkError \/ Crash \/ SentFrame
      BY <2>5 DEF Environment, DirectResult, QueryResult, Failover, SentFrame, cycleVars
    <3>2. QED
      BY <3>1, <1>7, <1>12, OthersLeaveSent
  <2>6. CASE Faults
    <3>1. CycleFault \/ SentFrame
      BY <2>6 DEF Faults, BeginFault, PatchFault, StartFault, SentFrame, cycleVars
    <3>2. QED
      BY <3>1, <1>11, OthersLeaveSent
  <2>7. CASE UNCHANGED vars
    <3>1. SentFrame
      BY <2>7 DEF vars, cycleVars, SentFrame
    <3>2. QED
      BY <3>1, OthersLeaveSent
  <2>8. QED
    BY <2>1, <2>2, <2>3, <2>4, <2>5, <2>6, <2>7 DEF Next

(* The processor sends a mutation again only after a network error, or     *)
(* after a restart or a rejected statement that found it inflight: never   *)
(* once the answer of the server is recorded.                              *)
THEOREM ReplaysHaveReasons == Spec => []ReplayedForAReason
<1>1. Init => SentOK
  BY DEF Init, SentOK
<1>2. TypeOK /\ CycleOK /\ SentOK /\ [Next]_vars => SentOK'
  BY SentStep
<1>3. TypeOK /\ CycleOK /\ SentOK => ReplayedForAReason
  BY DEF TypeOK, CycleOK, SentOK, ReplayedForAReason, Resolved
<1>4. QED
  BY <1>1, <1>2, <1>3, TypeCorrect, PTL DEF Spec

-----------------------------------------------------------------------------
(* The tables implement an entity store.                                   *)

ServerView == [e \in Entity |-> IF base[e] = Null THEN data[e] ELSE base[e]]
Optimistic == {e \in Entity : base[e] # Null}

StoreStep == [Store!Next]_(Store!vars)

LEMMA PersistIsReceive ==
    ASSUME TypeOK, NEW w \in ServerWrites, Persist(w)
    PROVE  StoreStep
<1>1. \A e \in Entity : w[e] \in Data
  BY ServerDataType DEF ServerWrites
<1>2. \A e \in Entity : base[e] # Null => Merge(base[e], w[e]) # Null
  BY <1>1, MergeType, NullIsNoData DEF TypeOK
<1>3. /\ \A e \in Entity : data'[e] = IF base[e] = Null THEN Merge(data[e], w[e]) ELSE data[e]
      /\ \A e \in Entity : base'[e] = IF base[e] = Null THEN Null ELSE Merge(base[e], w[e])
      /\ data' = [e \in Entity |-> data'[e]]
  BY DEF Persist
<1>4. Optimistic' = Optimistic
  BY <1>2, <1>3 DEF Optimistic
<1>5. ServerView' = [e \in Entity |-> Merge(ServerView[e], w[e])]
  BY <1>2, <1>3 DEF ServerView
<1>6. data' = [e \in Entity |-> IF e \in Optimistic THEN data[e] ELSE ServerView'[e]]
  BY <1>2, <1>3 DEF ServerView, Optimistic
<1>7. Store!Receive(w)
  BY <1>4, <1>5, <1>6 DEF Store!Receive, Store!Merge, Merge, ServerView, Optimistic
<1>8. QED
  BY <1>7 DEF StoreStep, Store!Next, Store!Update, ServerWrites, ServerData

LEMMA PatchIsPatch ==
    ASSUME TypeOK, NEW m \in Mutation, NEW e \in Entity, NEW S \in SUBSET Field,
           PatchEffect(m, e, S)
    PROVE  StoreStep
<1>1. data[e] # Null
  BY NullIsNoData DEF TypeOK
<1>2. /\ base' = [d \in Entity |-> IF d = e /\ base[e] = Null THEN data[e] ELSE base[d]]
      /\ data' = [data EXCEPT ![e] = Merge(@, PatchOf(m, S))]
      /\ \A d \in Entity : d # e => data'[d] = data[d]
  BY DEF PatchEffect, TypeOK
<1>3. Optimistic' = Optimistic \cup {e}
  BY <1>1, <1>2 DEF Optimistic
<1>4. ServerView' = ServerView
  BY <1>1, <1>2 DEF ServerView
<1>5. Store!Patch(e, PatchOf(m, S))
  BY <1>2, <1>3, <1>4 DEF Store!Patch, Store!Merge, Merge, ServerView, Optimistic
<1>6. PatchOf(m, S) \in Store!Update(Mutation)
  BY DEF PatchOf, Store!Update
<1>7. QED
  BY <1>5, <1>6 DEF StoreStep, Store!Next

LEMMA CleanIsSettle ==
    ASSUME TypeOK, NEW S \in SUBSET Entity, CleanEffect(S)
    PROVE  StoreStep
<1> DEFINE settled == {e \in S : base[e] # Null /\ ~HasActivePatch(e)}
<1>1. /\ data' = [e \in Entity |-> IF e \in settled THEN base[e] ELSE data[e]]
      /\ base' = [e \in Entity |-> IF e \in settled THEN Null ELSE base[e]]
  BY DEF CleanEffect
<1>2. settled \in SUBSET Optimistic
  BY DEF Optimistic
<1>3. \A e \in settled : base[e] # Null
  OBVIOUS
<1> HIDE DEF settled
<1>4. Optimistic' = Optimistic \ settled
  BY <1>1 DEF Optimistic
<1>5. ServerView' = ServerView
  BY <1>1, <1>3 DEF ServerView
<1>6. data' = [e \in Entity |-> IF e \in settled THEN ServerView[e] ELSE data[e]]
  BY <1>1, <1>3 DEF ServerView
<1>7. Store!Settle(settled)
  BY <1>4, <1>5, <1>6 DEF Store!Settle, ServerView, Optimistic
<1>8. settled \in SUBSET {e \in Entity : base[e] # Null}
  BY <1>2 DEF Optimistic
<1>9. \E T \in SUBSET {e \in Entity : base[e] # Null} : Store!Settle(T)
  BY <1>7, <1>8 DEF Store!Settle
<1>10. QED
  BY <1>9 DEF StoreStep, Store!Next

LEMMA ReapplyIsRebase ==
    ASSUME TypeOK, PatchesOK, ReapplyEffect, UNCHANGED base
    PROVE  StoreStep
<1>1. data' \in [Entity -> Data]
  BY ReapplyEffectType
<1>2. \A e \in Entity : base[e] = Null => data'[e] = data[e]
  BY DEF ReapplyEffect
<1>3. ASSUME NEW e \in Entity, NEW f \in Field
      PROVE  data'[e][f] \in Mutation \cup {ServerView[e][f], data[e][f]}
  <2>1. CASE base[e] # Null /\ HasActivePatch(e)
    BY <2>1, ReappliedField DEF ReapplyEffect, ServerView
  <2>2. CASE ~ (base[e] # Null /\ HasActivePatch(e))
    BY <2>2 DEF ReapplyEffect
  <2>3. QED
    BY <2>1, <2>2
<1>4. Store!Rebase
  BY <1>1, <1>2, <1>3 DEF Store!Rebase, Store!Data, Data, Val, ServerView
<1>5. QED
  BY <1>4 DEF StoreStep, Store!Next

LEMMA SameIsStutter ==
    ASSUME UNCHANGED <<data, base>>
    PROVE  StoreStep
BY DEF StoreStep, Store!vars

LEMMA RefinementStep ==
    ASSUME TypeOK, CycleOK, OptimisticOK, [Next]_vars
    PROVE  StoreStep
<1>1. ASSUME NEW m \in Mutation, Begin(m)
      PROVE  StoreStep
  BY <1>1, SameIsStutter
     DEF Begin, vars, dbVars, mutationVars, patchVars, entityVars, cycleVars, faultVars
<1>2. ASSUME NEW m \in Mutation, BeginFault(m)
      PROVE  StoreStep
  BY <1>2, SameIsStutter
     DEF BeginFault, vars, dbVars, mutationVars, patchVars, entityVars, cycleVars, faultVars
<1>3. ASSUME NEW m \in Mutation, NEW e \in Entity, NEW S \in SUBSET Field, PatchEntity(m, e, S)
      PROVE  StoreStep
  BY <1>3, PatchIsPatch
     DEF PatchEntity, vars, dbVars, mutationVars, patchVars, entityVars, cycleVars, faultVars
<1>4. ASSUME NEW m \in Mutation, NEW e \in Entity, PatchRefused(m, e)
      PROVE  StoreStep
  BY <1>4, SameIsStutter
     DEF PatchRefused, vars, dbVars, mutationVars, patchVars, entityVars, cycleVars, faultVars
<1>5. ASSUME NEW m \in Mutation, NEW e \in Entity, NEW S \in SUBSET Field, PatchFault(m, e, S)
      PROVE  StoreStep
  BY <1>5, PatchIsPatch, SameIsStutter
     DEF PatchFault, vars, dbVars, mutationVars, patchVars, entityVars, cycleVars, faultVars
<1>6. ASSUME NEW m \in Mutation, NEW forwarded \in BOOLEAN, FinishExec(m, forwarded)
      PROVE  StoreStep
  BY <1>6, SameIsStutter
     DEF FinishExec, vars, dbVars, mutationVars, patchVars, entityVars, cycleVars, faultVars
<1>7. CASE Migrated
  BY <1>7, SameIsStutter
     DEF Migrated, vars, dbVars, mutationVars, patchVars, entityVars, cycleVars, faultVars
<1>8. CASE StartRequeue
  BY <1>8, SameIsStutter
     DEF StartRequeue, vars, dbVars, mutationVars, patchVars, entityVars, cycleVars, faultVars
<1>9. CASE StartClean
  BY <1>9, CleanIsSettle
     DEF StartClean, vars, dbVars, mutationVars, patchVars, entityVars, cycleVars, faultVars
<1>10. CASE StartReapply
  BY <1>10, ReapplyIsRebase
     DEF StartReapply, OptimisticOK, vars, dbVars, mutationVars, patchVars, entityVars, cycleVars, faultVars
<1>11. CASE StartFault
  BY <1>11, CleanIsSettle, ReapplyIsRebase, SameIsStutter
     DEF StartFault, OptimisticOK, vars, dbVars, mutationVars, patchVars, entityVars, cycleVars, faultVars
<1>12. CASE EnterCycle
  BY <1>12, SameIsStutter
     DEF EnterCycle, vars, dbVars, mutationVars, patchVars, entityVars, cycleVars, faultVars
<1>13. CASE Claim
  BY <1>13, SameIsStutter
     DEF Claim, vars, dbVars, mutationVars, patchVars, entityVars, cycleVars, faultVars
<1>14. CASE NothingClaimed
  BY <1>14, SameIsStutter
     DEF NothingClaimed, vars, dbVars, mutationVars, patchVars, entityVars, cycleVars, faultVars
<1>15. CASE SendReplay
  BY <1>15, SameIsStutter
     DEF SendReplay, vars, dbVars, mutationVars, patchVars, entityVars, cycleVars, faultVars
<1>16. ASSUME NEW w \in ServerWrites, ReplayApplied(w)
      PROVE  StoreStep
  BY <1>16, PersistIsReceive
     DEF ReplayApplied, vars, dbVars, mutationVars, patchVars, entityVars, cycleVars, faultVars
<1>17. CASE ReplayFailed
  BY <1>17, SameIsStutter
     DEF ReplayFailed, vars, dbVars, mutationVars, patchVars, entityVars, cycleVars, faultVars
<1>18. CASE ReplayNetworkError
  BY <1>18, SameIsStutter
     DEF ReplayNetworkError, vars, dbVars, mutationVars, patchVars, entityVars, cycleVars, faultVars
<1>19. CASE Requeue
  BY <1>19, SameIsStutter
     DEF Requeue, vars, dbVars, mutationVars, patchVars, entityVars, cycleVars, faultVars
<1>20. CASE Settle
  BY <1>20, SameIsStutter
     DEF Settle, vars, dbVars, mutationVars, patchVars, entityVars, cycleVars, faultVars
<1>21. CASE CleanOwn
  BY <1>21, CleanIsSettle
     DEF CleanOwn, vars, dbVars, mutationVars, patchVars, entityVars, cycleVars, faultVars
<1>22. CASE CycleFault
  <2> DEFINE own == {e \in Entity : patch[cur][e] # Null}
  <2>1. CASE CleanEffect(own)
    BY <2>1, CleanIsSettle
  <2>2. CASE UNCHANGED <<data, base>>
    BY <2>2, SameIsStutter
  <2>3. QED
    BY <1>22, <2>1, <2>2 DEF CycleFault
<1>23. ASSUME NEW m \in Mutation, NEW w \in ServerWrites, DirectResult(m, w)
      PROVE  StoreStep
  BY <1>23, PersistIsReceive
     DEF DirectResult, vars, dbVars, mutationVars, patchVars, entityVars, cycleVars, faultVars
<1>24. ASSUME NEW w \in ServerWrites, QueryResult(w)
      PROVE  StoreStep
  BY <1>24, PersistIsReceive
     DEF QueryResult, vars, dbVars, mutationVars, patchVars, entityVars, cycleVars, faultVars
<1>25. CASE Failover
  BY <1>25, SameIsStutter
     DEF Failover, vars, dbVars, mutationVars, patchVars, entityVars, cycleVars, faultVars
<1>26. CASE Crash
  BY <1>26, SameIsStutter
     DEF Crash, vars, dbVars, mutationVars, patchVars, entityVars, cycleVars, faultVars
<1>27. CASE UNCHANGED vars
  BY <1>27, SameIsStutter
     DEF vars, dbVars, mutationVars, patchVars, entityVars, cycleVars, faultVars
<1>28. QED
  <2>1. CASE Execution
    BY <2>1, <1>1, <1>3, <1>4, <1>6 DEF Execution, ResolverPatches
  <2>2. CASE Startup
    BY <2>2, <1>7, <1>8, <1>9, <1>10 DEF Startup
  <2>3. CASE Cycle
    BY <2>3, <1>12, <1>13, <1>14, <1>15, <1>19, <1>20, <1>21 DEF Cycle
  <2>4. CASE ReplayResult
    BY <2>4, <1>16, <1>17 DEF ReplayResult
  <2>5. CASE Environment
    BY <2>5, <1>18, <1>23, <1>24, <1>25, <1>26 DEF Environment
  <2>6. CASE Faults
    BY <2>6, <1>2, <1>5, <1>11, <1>22 DEF Faults, ResolverPatches
  <2>7. QED
    BY <2>1, <2>2, <2>3, <2>4, <2>5, <2>6, <1>27 DEF Next

(* The tables implement the entity store.                                  *)
THEOREM TablesImplementStore == Spec => ImplementsEntityStore
<1>1. Init => Store!Init
  BY DEF Init, EmptyTables, Store!Init, Nothing, Empty
<1>2. TypeOK /\ CycleOK /\ OptimisticOK /\ [Next]_vars => [Store!Next]_(Store!vars)
  BY RefinementStep DEF StoreStep
<1>3. QED
  BY <1>1, <1>2, TypeCorrect, OptimisticInvariant, PTL DEF Spec, ImplementsEntityStore,
     Store!Spec

-----------------------------------------------------------------------------
(* The wake-ups, the claims and the restarts of the processor: their       *)
(* invariant.                                                              *)

(* The insert of a mutation is the insert of its row.                      *)
HasRow == \A m \in Mutation : status[m] # "none" => \E i \in DOMAIN rows : rows[i] = m

(* What only an error leads to.                                            *)
FaultsOK ==
    /\ start = "failed" => dbFaults # 0
    /\ pc = "requeue" => netErrors # 0

(* From the requeue of start() on, and without a rejected statement, the   *)
(* inflight row is the one of the cycle.                                   *)
Owned ==
    dbFaults = 0 /\ start \notin {"idle", "requeue"} =>
        \A m \in Mutation : status[m] = "inflight" =>
            cur = m /\ pc \in {"claimed", "wait", "requeue", "settle"}

(* Before start() is over no cycle resolves a mutation that still runs.    *)
RunsUnresolved ==
    start # "done" => \A m \in Mutation : exec[m] = "running" => status[m] \in Active

(* Who will look at a waiting mutation once its execution is over: start() *)
(* and the call that follows it, a call on its way to the test of          *)
(* cyclePromise, or the running cycle, which has yet to claim, will claim  *)
(* again after the row it has, or was asked to by queuedCycle.             *)
Awake ==
    netErrors = 0 /\ dbFaults = 0 =>
        \A m \in Mutation : status[m] = "pending" /\ exec[m] \in {"none", "done"} =>
            \/ start \in {"idle", "requeue", "clean", "reapply"}
            \/ calls # 0
            \/ pc \in {"claim", "wait", "settle", "clean"}
            \/ pc = "claimed" /\ (cur # Null \/ queued)

ProcessorInv ==
    HasRow /\ FaultsOK /\ Owned /\ RunsUnresolved /\ RestartDropsRemnants /\ Awake

-----------------------------------------------------------------------------
(* A claim that finds nothing.                                             *)

LEMMA FirstExists ==
    ASSUME NEW S \in SUBSET Nat, S # {}
    PROVE  \E i \in S : \A j \in S : ~ (j < i)
<1> DEFINE R == OpToRel(<, Nat)
<1>1. IsWellFoundedOn(R, Nat)
  BY NatLessThanWellFounded
<1> HIDE DEF R
<1>2. PICK i \in S : \A j \in S : ~ (<<j, i>> \in R)
  BY <1>1, WFMin
<1>3. QED
  BY <1>2 DEF R, OpToRel

(* When no row is inflight, claimNextPendingMutation returns nothing only  *)
(* when nothing is pending: the oldest pending row could be claimed.       *)
LEMMA NothingPending ==
    ASSUME TypeOK, HasRow,
           \A m \in Mutation : status[m] # "inflight",
           \A m \in Mutation : ~ Claimable(m)
    PROVE  \A m \in Mutation : status[m] # "pending"
<1> SUFFICES ASSUME NEW n \in Mutation, status[n] = "pending"
             PROVE  FALSE
  OBVIOUS
<1>1. /\ rows \in Seq(Mutation) /\ Len(rows) \in Nat /\ DOMAIN rows = 1 .. Len(rows)
      /\ \A i \in DOMAIN rows : rows[i] \in Mutation
  BY DEF TypeOK
<1> DEFINE S == {i \in DOMAIN rows : status[rows[i]] = "pending"}
<1>2. PICK k \in DOMAIN rows : rows[k] = n
  BY DEF HasRow
<1>3. S \in SUBSET Nat /\ k \in S
  BY <1>1, <1>2
<1>4. PICK i \in S : \A j \in S : ~ (j < i)
  BY <1>3, FirstExists
<1>5. \A j \in 1 .. i - 1 : status[rows[j]] # "pending"
  <2> SUFFICES ASSUME NEW j \in 1 .. i - 1, status[rows[j]] = "pending"
               PROVE  FALSE
    OBVIOUS
  <2>1. j \in DOMAIN rows /\ j < i
    BY <1>1
  <2>2. QED
    BY <1>4, <2>1
<1>6. i \in DOMAIN rows /\ rows[i] \in Mutation /\ status[rows[i]] = "pending"
  BY <1>1
<1>7. Claimable(rows[i])
  BY <1>5, <1>6 DEF Claimable
<1>8. QED
  BY <1>6, <1>7

-----------------------------------------------------------------------------
(* The steps.                                                              *)

control == <<status, rows, exec, start, calls, pc, cur, queued, netErrors, dbFaults>>

ControlInv == HasRow /\ FaultsOK /\ Owned /\ RunsUnresolved /\ Awake

LEMMA ControlKept ==
    ASSUME ControlInv, UNCHANGED control
    PROVE  ControlInv'
<1> USE DEF control
<1>1. HasRow' /\ FaultsOK' /\ RunsUnresolved'
  BY DEF ControlInv, HasRow, FaultsOK, RunsUnresolved
<1>2. Owned' /\ Awake'
  BY DEF ControlInv, Owned, Awake
<1>3. QED
  BY <1>1, <1>2 DEF ControlInv

(* A rejected statement ends what Owned and Awake say.                     *)
LEMMA RejectedStep ==
    ASSUME TypeOK, Rejected, HasRow', FaultsOK', RunsUnresolved'
    PROVE  ControlInv'
<1>1. dbFaults' # 0
  BY DEF TypeOK, Rejected
<1>2. QED
  BY <1>1 DEF ControlInv, Owned, Awake

(* Executions: the row is there before the resolver runs, and the end of   *)
(* an execution is followed by a call of runCycle().                       *)
LEMMA ExecutionControl ==
    ASSUME TypeOK, CycleOK, ControlInv, Execution
    PROVE  ControlInv'
<1> USE DEF dbVars, mutationVars, patchVars, entityVars, cycleVars, faultVars
<1>1. ASSUME NEW m \in Mutation, Begin(m)
      PROVE  ControlInv'
  <2>1. /\ status[m] = "none" /\ status' = [status EXCEPT ![m] = "pending"]
        /\ rows' = Append(rows, m) /\ exec' = [exec EXCEPT ![m] = "running"]
        /\ UNCHANGED <<start, calls, cycleVars, faultVars>>
    BY <1>1 DEF Begin, InsertEffect
  <2>2. /\ status'[m] = "pending" /\ exec'[m] = "running"
        /\ \A n \in Mutation \ {m} : status'[n] = status[n] /\ exec'[n] = exec[n]
    BY <2>1 DEF TypeOK
  <2>3. HasRow'
    <3>1. /\ Len(rows) \in Nat /\ DOMAIN rows = 1 .. Len(rows)
          /\ DOMAIN rows' = 1 .. Len(rows) + 1 /\ rows'[Len(rows) + 1] = m
          /\ \A i \in DOMAIN rows : rows'[i] = rows[i]
      BY <2>1 DEF TypeOK
    <3>2. \E i \in DOMAIN rows' : rows'[i] = m
      BY <3>1
    <3>3. \A n \in Mutation \ {m} : status'[n] # "none" => \E i \in DOMAIN rows' : rows'[i] = n
      BY <2>2, <3>1 DEF ControlInv, HasRow
    <3>4. QED
      BY <3>2, <3>3 DEF HasRow
  <2>4. FaultsOK' /\ RunsUnresolved'
    BY <2>1, <2>2 DEF ControlInv, FaultsOK, RunsUnresolved, Active
  <2>5. Owned'
    BY <2>1, <2>2 DEF ControlInv, Owned
  <2>6. Awake'
    BY <2>1, <2>2 DEF ControlInv, Awake
  <2>7. QED
    BY <2>3, <2>4, <2>5, <2>6 DEF ControlInv
<1>2. ASSUME NEW m \in Mutation, NEW e \in Entity, NEW S \in ResolverPatches, PatchEntity(m, e, S)
      PROVE  ControlInv'
  BY <1>2, ControlKept DEF PatchEntity, control
<1>3. ASSUME NEW m \in Mutation, NEW e \in Entity, PatchRefused(m, e)
      PROVE  ControlInv'
  <2>1. /\ exec[m] = "running" /\ exec' = [exec EXCEPT ![m] = "throwing"]
        /\ UNCHANGED <<status, rows, start, calls, cycleVars, faultVars>>
    BY <1>3 DEF PatchRefused
  <2>2. exec'[m] = "throwing" /\ \A n \in Mutation \ {m} : exec'[n] = exec[n]
    BY <2>1 DEF TypeOK
  <2>3. HasRow' /\ FaultsOK' /\ RunsUnresolved'
    BY <2>1, <2>2 DEF ControlInv, HasRow, FaultsOK, RunsUnresolved
  <2>4. Owned'
    BY <2>1 DEF ControlInv, Owned
  <2>5. Awake'
    BY <2>1, <2>2 DEF ControlInv, Awake
  <2>6. QED
    BY <2>3, <2>4, <2>5 DEF ControlInv
<1>4. ASSUME NEW m \in Mutation, NEW forwarded \in BOOLEAN, FinishExec(m, forwarded)
      PROVE  ControlInv'
  <2>1. /\ exec' = [exec EXCEPT ![m] = "done"]
        /\ start' = IF start = "idle" THEN "requeue" ELSE start
        /\ calls' = IF start = "failed" THEN calls ELSE calls + 1
        /\ UNCHANGED <<status, rows, cycleVars, faultVars>>
    BY <1>4 DEF FinishExec
  <2>2. exec'[m] = "done" /\ \A n \in Mutation \ {m} : exec'[n] = exec[n]
    BY <2>1 DEF TypeOK
  <2>3. HasRow' /\ FaultsOK' /\ RunsUnresolved'
    BY <2>1, <2>2 DEF ControlInv, HasRow, FaultsOK, RunsUnresolved
  <2>4. Owned'
    BY <2>1 DEF ControlInv, Owned
  <2>5. Awake'
    <3>1. dbFaults = 0 => calls' # 0
      BY <2>1 DEF ControlInv, FaultsOK, TypeOK
    <3>2. QED
      BY <2>1, <3>1 DEF Awake
  <2>6. QED
    BY <2>3, <2>4, <2>5 DEF ControlInv
<1>5. QED
  BY <1>1, <1>2, <1>3, <1>4 DEF Execution

LEMMA StartupControl ==
    ASSUME TypeOK, CycleOK, ControlInv, Startup
    PROVE  ControlInv'
<1> USE DEF dbVars, mutationVars, patchVars, entityVars, cycleVars, faultVars
<1>1. CASE Migrated
  <2>1. /\ start = "idle" /\ start' = "requeue"
        /\ UNCHANGED <<status, rows, exec, calls, cycleVars, faultVars>>
    BY <1>1 DEF Migrated
  <2>2. QED
    BY <2>1 DEF ControlInv, HasRow, FaultsOK, RunsUnresolved, Owned, Awake
<1>2. CASE StartRequeue
  <2>1. /\ start = "requeue" /\ start' = "clean" /\ RequeueAllEffect
        /\ UNCHANGED <<rows, exec, calls, cycleVars, faultVars>>
    BY <1>2 DEF StartRequeue
  <2>2. \A m \in Mutation : /\ status'[m] # "inflight"
                            /\ status'[m] = "none" <=> status[m] = "none"
                            /\ status[m] \in Active => status'[m] \in Active
    BY <2>1 DEF RequeueAllEffect, Active
  <2>3. HasRow' /\ FaultsOK' /\ RunsUnresolved'
    BY <2>1, <2>2 DEF ControlInv, HasRow, FaultsOK, RunsUnresolved
  <2>4. Owned' /\ Awake'
    BY <2>1, <2>2 DEF Owned, Awake
  <2>5. QED
    BY <2>3, <2>4 DEF ControlInv
<1>3. CASE StartClean
  <2>1. /\ start = "clean" /\ start' = "reapply"
        /\ UNCHANGED <<status, rows, exec, calls, cycleVars, faultVars>>
    BY <1>3 DEF StartClean
  <2>2. QED
    BY <2>1 DEF ControlInv, HasRow, FaultsOK, RunsUnresolved, Owned, Awake
<1>4. CASE StartReapply
  <2>1. /\ start = "reapply" /\ start' = "done" /\ calls' = calls + 1
        /\ UNCHANGED <<status, rows, exec, cycleVars, faultVars>>
    BY <1>4 DEF StartReapply
  <2>2. calls' # 0
    BY <2>1 DEF TypeOK
  <2>3. QED
    BY <2>1, <2>2 DEF ControlInv, HasRow, FaultsOK, RunsUnresolved, Owned, Awake
<1>5. QED
  BY <1>1, <1>2, <1>3, <1>4 DEF Startup

(* The cycle: every end of it but an error comes after a claim that found  *)
(* nothing, with no runCycle() call since the claim.                       *)
LEMMA CycleControl ==
    ASSUME TypeOK, CycleOK, ControlInv, Cycle
    PROVE  ControlInv'
<1> USE DEF dbVars, mutationVars, patchVars, entityVars, cycleVars, faultVars
<1>1. CASE EnterCycle
  <2>1. /\ start = "done" /\ UNCHANGED <<status, rows, exec, start, cur, faultVars>>
        /\ \/ pc = "idle" /\ pc' = "claim"
           \/ pc # "idle" /\ pc' = pc /\ queued' = TRUE
    BY <1>1 DEF EnterCycle
  <2>2. HasRow' /\ FaultsOK' /\ RunsUnresolved'
    BY <2>1 DEF ControlInv, HasRow, FaultsOK, RunsUnresolved
  <2>3. Owned'
    BY <2>1 DEF ControlInv, Owned
  <2>4. Awake'
    BY <2>1 DEF ControlInv, FaultsOK, Awake, TypeOK
  <2>5. QED
    BY <2>2, <2>3, <2>4 DEF ControlInv
<1>2. CASE Claim
  <2>1. /\ pc = "claim" /\ pc' = "claimed" /\ start = "done" /\ cur = Null
        /\ UNCHANGED <<rows, exec, start, calls, queued, faultVars>>
    BY <1>2 DEF Claim, CycleOK
  <2>2. CASE \E m \in Mutation : Claimable(m) /\ ClaimEffect(m) /\ cur' = m
    <3>1. PICK m \in Mutation : Claimable(m) /\ ClaimEffect(m) /\ cur' = m
      BY <2>2
    <3>2. /\ status[m] = "pending" /\ \A n \in Mutation : status[n] # "inflight"
          /\ status'[m] = "inflight" /\ \A n \in Mutation \ {m} : status'[n] = status[n]
          /\ cur' # Null
      BY <3>1, CurIsMutation DEF Claimable, ClaimEffect, TypeOK
    <3>3. HasRow' /\ FaultsOK' /\ RunsUnresolved'
      BY <2>1, <3>2 DEF ControlInv, HasRow, FaultsOK, RunsUnresolved
    <3>4. Owned' /\ Awake'
      BY <2>1, <3>1, <3>2 DEF Owned, Awake
    <3>5. QED
      BY <3>3, <3>4 DEF ControlInv
  <2>3. CASE (\A m \in Mutation : ~Claimable(m)) /\ cur' = Null /\ UNCHANGED status
    <3>1. HasRow' /\ FaultsOK' /\ RunsUnresolved'
      BY <2>1, <2>3 DEF ControlInv, HasRow, FaultsOK, RunsUnresolved
    <3>2. dbFaults = 0 => \A m \in Mutation : status[m] # "inflight"
      BY <2>1 DEF ControlInv, Owned
    <3>3. Owned'
      BY <2>1, <2>3, <3>2 DEF Owned
    <3>4. dbFaults = 0 => \A m \in Mutation : status[m] # "pending"
      BY <2>3, <3>2, NothingPending DEF ControlInv
    <3>5. Awake'
      BY <2>1, <2>3, <3>4 DEF Awake
    <3>6. QED
      BY <3>1, <3>3, <3>5 DEF ControlInv
  <2>4. QED
    BY <1>2, <2>2, <2>3 DEF Claim
<1>3. CASE NothingClaimed
  <2>1. /\ pc = "claimed" /\ cur = Null /\ pc' = (IF queued THEN "claim" ELSE "idle")
        /\ cur' = Null
        /\ UNCHANGED <<status, rows, exec, start, calls, faultVars>>
    BY <1>3 DEF NothingClaimed, LoopEnd
  <2>2. HasRow' /\ FaultsOK' /\ RunsUnresolved'
    BY <2>1 DEF ControlInv, HasRow, FaultsOK, RunsUnresolved
  <2>3. Owned'
    BY <2>1, CurIsMutation DEF ControlInv, Owned
  <2>4. Awake'
    BY <2>1 DEF ControlInv, Awake
  <2>5. QED
    BY <2>2, <2>3, <2>4 DEF ControlInv
<1>4. CASE SendReplay
  <2>1. /\ pc = "claimed" /\ pc' = "wait"
        /\ UNCHANGED <<status, rows, exec, start, calls, cur, queued, faultVars>>
    BY <1>4 DEF SendReplay
  <2>2. QED
    BY <2>1 DEF ControlInv, HasRow, FaultsOK, RunsUnresolved, Owned, Awake
<1>5. CASE Requeue
  <2>1. /\ pc = "requeue" /\ RequeueEffect(cur) /\ cur \in Mutation /\ netErrors # 0
        /\ start = "done" /\ pc' \in {"claim", "idle"} /\ netErrors' = netErrors
        /\ UNCHANGED <<rows, exec, start, calls, faultVars>>
    BY <1>5 DEF Requeue, LoopEnd, CycleOK, ControlInv, FaultsOK
  <2>2. /\ status'[cur] # "inflight" /\ \A n \in Mutation \ {cur} : status'[n] = status[n]
        /\ \A n \in Mutation : status'[n] # "none" => status[n] # "none"
    BY <2>1 DEF RequeueEffect, TypeOK
  <2>3. HasRow' /\ FaultsOK' /\ RunsUnresolved' /\ Awake'
    BY <2>1, <2>2 DEF ControlInv, HasRow, FaultsOK, RunsUnresolved, Awake
  <2>4. Owned'
    BY <2>1, <2>2 DEF ControlInv, Owned
  <2>5. QED
    BY <2>3, <2>4 DEF ControlInv
<1>6. CASE Settle
  <2>1. /\ pc = "settle" /\ pc' = "clean" /\ cur \in Mutation /\ verdict \in Resolved
        /\ start = "done" /\ status' = [status EXCEPT ![cur] = verdict]
        /\ status[cur] = "inflight"
        /\ UNCHANGED <<rows, exec, start, calls, cur, queued, faultVars>>
    BY <1>6 DEF Settle, StatusEffect, CycleOK
  <2>2. /\ status'[cur] \in Resolved /\ \A n \in Mutation \ {cur} : status'[n] = status[n]
    BY <2>1 DEF TypeOK
  <2>3. HasRow' /\ FaultsOK' /\ RunsUnresolved' /\ Awake'
    BY <2>1, <2>2 DEF ControlInv, HasRow, FaultsOK, RunsUnresolved, Awake
  <2>4. Owned'
    BY <2>1, <2>2 DEF ControlInv, Owned, Resolved
  <2>5. QED
    BY <2>3, <2>4 DEF ControlInv
<1>7. CASE CleanOwn
  <2>1. /\ pc = "clean" /\ pc' = "claim"
        /\ UNCHANGED <<status, rows, exec, start, calls, queued, faultVars>>
    BY <1>7 DEF CleanOwn
  <2>2. QED
    BY <2>1 DEF ControlInv, HasRow, FaultsOK, RunsUnresolved, Owned, Awake
<1>8. QED
  BY <1>1, <1>2, <1>3, <1>4, <1>5, <1>6, <1>7 DEF Cycle

LEMMA ResultControl ==
    ASSUME TypeOK, CycleOK, ControlInv, ReplayResult \/ Environment
    PROVE  ControlInv'
<1> USE DEF dbVars, mutationVars, patchVars, entityVars, cycleVars, faultVars
<1>1. CASE ReplayResult
  <2>1. /\ pc = "wait" /\ pc' = "settle"
        /\ UNCHANGED <<status, rows, exec, start, calls, cur, queued, faultVars>>
    BY <1>1 DEF ReplayResult, ReplayApplied, ReplayFailed
  <2>2. QED
    BY <2>1 DEF ControlInv, HasRow, FaultsOK, RunsUnresolved, Owned, Awake
<1>2. CASE ReplayNetworkError
  <2>1. /\ pc = "wait" /\ pc' = "requeue" /\ netErrors' = netErrors + 1
        /\ UNCHANGED <<status, rows, exec, start, calls, cur, queued, dbFaults>>
    BY <1>2 DEF ReplayNetworkError
  <2>2. netErrors' # 0
    BY <2>1 DEF TypeOK
  <2>3. QED
    BY <2>1, <2>2 DEF ControlInv, HasRow, FaultsOK, RunsUnresolved, Owned, Awake
<1>3. CASE \/ \E m \in Mutation, w \in ServerWrites : DirectResult(m, w)
           \/ \E w \in ServerWrites : QueryResult(w)
  BY <1>3, ControlKept DEF DirectResult, QueryResult, control
<1>4. CASE Failover
  <2>1. Rejected /\ UNCHANGED <<status, rows, exec, start, pc, netErrors>>
    BY <1>4 DEF Failover, Rejected
  <2>2. dbFaults' # 0
    BY <2>1 DEF TypeOK, Rejected
  <2>3. HasRow' /\ FaultsOK' /\ RunsUnresolved'
    BY <2>1, <2>2 DEF ControlInv, HasRow, FaultsOK, RunsUnresolved
  <2>4. QED
    BY <2>1, <2>3, RejectedStep
<1>5. CASE Crash
  <2>1. /\ start' = "idle" /\ pc' = "idle" /\ exec' = [m \in Mutation |-> "none"]
        /\ UNCHANGED <<status, rows, netErrors, dbFaults>>
    BY <1>5 DEF Crash
  <2>2. QED
    BY <2>1 DEF ControlInv, HasRow, FaultsOK, RunsUnresolved, Owned, Awake
<1>6. QED
  BY <1>1, <1>2, <1>3, <1>4, <1>5 DEF Environment

LEMMA FaultControl ==
    ASSUME TypeOK, CycleOK, ControlInv, Faults
    PROVE  ControlInv'
<1> USE DEF dbVars, mutationVars, patchVars, entityVars, cycleVars, faultVars
<1>1. Rejected /\ dbFaults' # 0 /\ netErrors' = netErrors
  BY DEF Faults, BeginFault, PatchFault, StartFault, CycleFault, Rejected, TypeOK
<1>2. ASSUME NEW m \in Mutation, BeginFault(m)
      PROVE  HasRow' /\ RunsUnresolved' /\ pc' = pc
  <2>1. /\ exec' = [exec EXCEPT ![m] = "done"] /\ UNCHANGED <<start, pc>>
        /\ status[m] = "none"
        /\ \/ status' = [status EXCEPT ![m] = "pending"] /\ rows' = Append(rows, m)
           \/ UNCHANGED <<status, rows>>
    BY <1>2 DEF BeginFault, InsertEffect
  <2>2. RunsUnresolved'
    <3>1. \A n \in Mutation : exec'[n] = "running" => exec[n] = "running" /\ n # m
      BY <2>1 DEF TypeOK
    <3>2. \A n \in Mutation \ {m} : status'[n] = status[n]
      BY <2>1 DEF TypeOK
    <3>3. QED
      BY <2>1, <3>1, <3>2 DEF ControlInv, RunsUnresolved
  <2>3. CASE UNCHANGED <<status, rows>>
    BY <2>1, <2>2, <2>3 DEF ControlInv, HasRow
  <2>4. CASE status' = [status EXCEPT ![m] = "pending"] /\ rows' = Append(rows, m)
    <3>1. /\ Len(rows) \in Nat /\ DOMAIN rows = 1 .. Len(rows)
          /\ DOMAIN rows' = 1 .. Len(rows) + 1 /\ rows'[Len(rows) + 1] = m
          /\ \A i \in DOMAIN rows : rows'[i] = rows[i]
      BY <2>4 DEF TypeOK
    <3>2. \E i \in DOMAIN rows' : rows'[i] = m
      BY <3>1
    <3>3. \A n \in Mutation \ {m} : status'[n] # "none" => \E i \in DOMAIN rows' : rows'[i] = n
      BY <2>4, <3>1 DEF ControlInv, HasRow, TypeOK
    <3>4. QED
      BY <2>1, <2>2, <3>2, <3>3 DEF HasRow
  <2>5. QED
    BY <2>1, <2>3, <2>4
<1>3. ASSUME NEW m \in Mutation, NEW e \in Entity, NEW S \in ResolverPatches, PatchFault(m, e, S)
      PROVE  HasRow' /\ RunsUnresolved' /\ pc' = pc
  <2>1. /\ exec' = [exec EXCEPT ![m] = "throwing"] /\ UNCHANGED <<status, rows, start, pc>>
    BY <1>3 DEF PatchFault
  <2>2. \A n \in Mutation : exec'[n] = "running" => exec[n] = "running"
    BY <2>1 DEF TypeOK
  <2>3. QED
    BY <2>1, <2>2 DEF ControlInv, HasRow, RunsUnresolved
<1>4. CASE StartFault
  <2>1. /\ start # "done" /\ UNCHANGED <<rows, exec, pc>>
        /\ RequeueAllEffect \/ UNCHANGED status
    BY <1>4 DEF StartFault
  <2>2. \A m \in Mutation : /\ status'[m] = "none" <=> status[m] = "none"
                            /\ status[m] \in Active => status'[m] \in Active
    BY <2>1 DEF RequeueAllEffect, Active
  <2>3. HasRow' /\ RunsUnresolved' /\ pc' = pc
    BY <2>1, <2>2 DEF ControlInv, HasRow, RunsUnresolved
  <2>4. QED
    BY <1>1, <2>3, RejectedStep DEF ControlInv, FaultsOK
<1>5. CASE CycleFault
  <2>1. /\ start = "done" /\ start' = start /\ pc' = "idle" /\ UNCHANGED rows
        /\ \/ \E m \in Mutation : Claimable(m) /\ ClaimEffect(m)
           \/ cur \in Mutation /\ RequeueEffect(cur)
           \/ cur \in Mutation /\ status[cur] # "none" /\ StatusEffect(cur, verdict)
           \/ UNCHANGED status
    BY <1>5 DEF CycleFault, CycleOK
  <2>2. \A m \in Mutation : status'[m] # "none" => status[m] # "none"
    BY <2>1 DEF Claimable, ClaimEffect, RequeueEffect, StatusEffect, TypeOK
  <2>3. HasRow' /\ RunsUnresolved'
    BY <2>1, <2>2 DEF ControlInv, HasRow, RunsUnresolved
  <2>4. QED
    BY <1>1, <2>1, <2>3, RejectedStep DEF ControlInv, FaultsOK
<1>6. ASSUME HasRow' /\ RunsUnresolved' /\ pc' = pc
      PROVE  ControlInv'
  BY <1>1, <1>6, RejectedStep DEF ControlInv, FaultsOK
<1>7. QED
  BY <1>2, <1>3, <1>4, <1>5, <1>6 DEF Faults

-----------------------------------------------------------------------------
(* The restart.                                                            *)

(* Between cleanEntityBases and reapplyAllMutationPatches an entity gets a *)
(* base only with a patch of a mutation that is unresolved, and no active  *)
(* patch goes.                                                             *)
LEMMA RemnantsKept ==
    ASSUME RestartDropsRemnants, start = "reapply",
           \A e \in Entity : base'[e] # Null => base[e] # Null \/ HasActivePatch(e)',
           \A e \in Entity : HasActivePatch(e) => HasActivePatch(e)'
    PROVE  RestartDropsRemnants'
BY DEF RestartDropsRemnants

LEMMA PatchOfRunning ==
    ASSUME TypeOK, NEW m \in Mutation, NEW e \in Entity, NEW S, PatchEffect(m, e, S),
           status[m] \in Active, status' = status
    PROVE  /\ \A d \in Entity : base'[d] # Null => base[d] # Null \/ HasActivePatch(d)'
           /\ \A d \in Entity : HasActivePatch(d) => HasActivePatch(d)'
<1>1. PatchOf(m, S) # Null
  BY PatchOfType, NullIsNoData
<1>2. /\ patch'[m][e] # Null
      /\ \A n \in Mutation, d \in Entity : patch[n][d] # Null => patch'[n][d] # Null
      /\ \A d \in Entity \ {e} : base'[d] = base[d]
  BY <1>1 DEF PatchEffect, TypeOK
<1>3. HasActivePatch(e)'
  BY <1>2 DEF HasActivePatch
<1>4. QED
  BY <1>2, <1>3 DEF HasActivePatch

LEMMA PersistAddsNoBase ==
    ASSUME TypeOK, NEW w \in ServerWrites, Persist(w)
    PROVE  \A e \in Entity : base'[e] # Null => base[e] # Null
BY DEF Persist

LEMMA InsertKeepsActive ==
    ASSUME TypeOK, NEW m \in Mutation, status[m] = "none", InsertEffect(m), patch' = patch
    PROVE  \A e \in Entity : HasActivePatch(e) => HasActivePatch(e)'
<1>1. \A n \in Mutation : status[n] \in Active => status'[n] = status[n]
  BY DEF InsertEffect, TypeOK, Active
<1>2. QED
  BY <1>1 DEF HasActivePatch

LEMMA RestartStep ==
    ASSUME TypeOK, CycleOK, RunsUnresolved, RestartDropsRemnants, [Next]_vars
    PROVE  RestartDropsRemnants'
<1> SUFFICES ASSUME start' = "reapply"
             PROVE  RestartDropsRemnants'
  BY DEF RestartDropsRemnants
<1> USE DEF vars, dbVars, mutationVars, patchVars, entityVars, cycleVars, faultVars
<1>1. CASE StartClean
  <2>1. CleanEffect(Entity) /\ UNCHANGED <<status, patch>>
    BY <1>1 DEF StartClean
  <2>2. \A e \in Entity : HasActivePatch(e)' <=> HasActivePatch(e)
    BY <2>1 DEF HasActivePatch
  <2>3. \A e \in Entity : base'[e] # Null => HasActivePatch(e)
    BY <2>1 DEF CleanEffect
  <2>4. QED
    BY <2>2, <2>3 DEF RestartDropsRemnants
<1>2. CASE start = "reapply"
  <2>1. pc = "idle" /\ \A m \in Mutation : exec[m] = "running" => status[m] \in Active
    BY <1>2 DEF CycleOK, RunsUnresolved
  <2>2. ASSUME UNCHANGED <<status, patch, base>>
        PROVE  RestartDropsRemnants'
    <3>1. \A e \in Entity : HasActivePatch(e)' <=> HasActivePatch(e)
      BY <2>2 DEF HasActivePatch
    <3>2. QED
      BY <1>2, <2>2, <3>1, RemnantsKept
  <2>3. ASSUME NEW w \in ServerWrites, Persist(w), UNCHANGED <<status, patch>>
        PROVE  RestartDropsRemnants'
    <3>1. \A e \in Entity : HasActivePatch(e)' <=> HasActivePatch(e)
      BY <2>3 DEF HasActivePatch
    <3>2. QED
      BY <1>2, <2>3, <3>1, PersistAddsNoBase, RemnantsKept
  <2>4. ASSUME NEW m \in Mutation, status[m] = "none", InsertEffect(m),
               UNCHANGED <<patch, base>>
        PROVE  RestartDropsRemnants'
    BY <1>2, <2>4, InsertKeepsActive, RemnantsKept
  <2>5. ASSUME NEW m \in Mutation, NEW e \in Entity, NEW S, exec[m] = "running",
               PatchEffect(m, e, S), status' = status
        PROVE  RestartDropsRemnants'
    BY <1>2, <2>1, <2>5, PatchOfRunning, RemnantsKept
  <2>6. CASE Execution
    BY <2>2, <2>4, <2>5, <2>6
       DEF Execution, Begin, PatchEntity, PatchRefused, FinishExec
  <2>7. CASE Faults
    <3>1. ASSUME NEW m \in Mutation, BeginFault(m)
          PROVE  RestartDropsRemnants'
      BY <2>2, <2>4, <3>1 DEF BeginFault
    <3>2. ASSUME NEW m \in Mutation, NEW e \in Entity, NEW S \in ResolverPatches,
                 PatchFault(m, e, S)
          PROVE  RestartDropsRemnants'
      BY <2>2, <2>5, <3>2 DEF PatchFault
    <3>3. ~ StartFault /\ ~ CycleFault
      BY <2>1 DEF StartFault, CycleFault
    <3>4. QED
      BY <2>7, <3>1, <3>2, <3>3 DEF Faults
  <2>8. CASE Environment \/ UNCHANGED vars
    BY <2>1, <2>2, <2>3, <2>8
       DEF Environment, ReplayNetworkError, DirectResult, QueryResult, Failover, Crash
  <2>9. ~ Startup /\ ~ Cycle /\ ~ ReplayResult
    BY <1>2, <2>1
       DEF Startup, Migrated, StartRequeue, StartClean, StartReapply, Cycle, EnterCycle,
           Claim, NothingClaimed, SendReplay, Requeue, Settle, CleanOwn,
           ReplayResult, ReplayApplied, ReplayFailed
  <2>10. QED
    BY <2>6, <2>7, <2>8, <2>9 DEF Next
<1>3. start = "reapply" \/ StartClean
  <2>1. CASE Execution
    BY <2>1 DEF Execution, Begin, PatchEntity, PatchRefused, FinishExec
  <2>2. CASE Startup
    BY <2>2 DEF Startup, Migrated, StartRequeue, StartReapply
  <2>3. CASE Cycle \/ ReplayResult
    BY <2>3 DEF Cycle, EnterCycle, Claim, NothingClaimed, SendReplay, Requeue, Settle,
                CleanOwn, ReplayResult, ReplayApplied, ReplayFailed
  <2>4. CASE Environment \/ UNCHANGED vars
    BY <2>4 DEF Environment, ReplayNetworkError, DirectResult, QueryResult, Failover,
       Crash
  <2>5. CASE Faults
    BY <2>5 DEF Faults, BeginFault, PatchFault, StartFault, CycleFault
  <2>6. QED
    BY <2>1, <2>2, <2>3, <2>4, <2>5 DEF Next
<1>4. QED
  BY <1>1, <1>2, <1>3

-----------------------------------------------------------------------------
(* The invariant holds, and what follows from it.                          *)

LEMMA InitProcessor == Init => ProcessorInv
BY DEF Init, EmptyTables, ProcessorInv, HasRow, FaultsOK, Owned, RunsUnresolved,
       RestartDropsRemnants, Awake

LEMMA NextProcessor ==
    ASSUME TypeOK, CycleOK, ProcessorInv, [Next]_vars
    PROVE  ProcessorInv'
<1>1. ControlInv
  BY DEF ProcessorInv, ControlInv
<1>2. ControlInv'
  <2>1. CASE UNCHANGED vars
    <3>1. UNCHANGED control
      BY <2>1 DEF control, vars, dbVars, mutationVars, cycleVars, faultVars
    <3>2. QED
      BY <1>1, <3>1, ControlKept
  <2>2. CASE Next
    BY <1>1, <2>2, ExecutionControl, StartupControl, CycleControl, ResultControl,
       FaultControl
       DEF Next
  <2>3. QED
    BY <2>1, <2>2
<1>3. RestartDropsRemnants'
  BY RestartStep DEF ProcessorInv
<1>4. QED
  BY <1>2, <1>3 DEF ProcessorInv, ControlInv

LEMMA ProcessorInvariant == Spec => [](TypeOK /\ ProcessorInv)
<1>1. TypeOK /\ CycleOK /\ ProcessorInv /\ [Next]_vars => ProcessorInv'
  BY NextProcessor
<1>2. QED
  BY <1>1, InitProcessor, TypeCorrect, PTL DEF Spec

(* queuedCycle loses no wake-up: with no error to stop a cycle, a mutation *)
(* whose execution is over is never left pending by an idle processor with *)
(* no runCycle() call on its way, however the calls interleave with the    *)
(* statements of the cycle.                                                *)
THEOREM NoWakeupIsLost == Spec => []NoLostWakeup
<1>1. TypeOK /\ ProcessorInv => NoLostWakeup
  BY DEF ProcessorInv, Awake, NoLostWakeup, TypeOK
<1>2. QED
  BY <1>1, ProcessorInvariant, PTL

(* Without a rejected statement, an inflight row is one the running cycle  *)
(* works on: what a crash left inflight is requeued before the first claim. *)
THEOREM InflightRowsAreOwned == Spec => []InflightIsOwned
<1>1. ProcessorInv => InflightIsOwned
  BY DEF ProcessorInv, Owned, InflightIsOwned
<1>2. QED
  BY <1>1, ProcessorInvariant, PTL

(* A restart drops the bases that a crash between the two statements of a  *)
(* resolution left behind, whatever executes or arrives during start().    *)
THEOREM RestartsRepair == Spec => []RestartDropsRemnants
<1>1. ProcessorInv => RestartDropsRemnants
  BY DEF ProcessorInv
<1>2. QED
  BY <1>1, ProcessorInvariant, PTL

=============================================================================
