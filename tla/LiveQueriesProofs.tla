------------------------- MODULE LiveQueriesProofs -------------------------
(***************************************************************************)
(* Proofs about module LiveQueries, for any sets of operations, root       *)
(* fields and entities, and any number of writes, dispatches and errors.   *)
(***************************************************************************)
EXTENDS LiveQueries, TLAPS, FiniteSetTheorems, SequenceTheorems

-----------------------------------------------------------------------------
(* Sequences.                                                              *)

(* A finite set can be enumerated, so the CHOOSE of SetToSeq picks an      *)
(* enumeration.                                                            *)
LEMMA SetToSeqIsEnumeration ==
    ASSUME NEW S, IsFiniteSet(S)
    PROVE  /\ Cardinality(S) \in Nat
           /\ SetToSeq(S) \in [1 .. Cardinality(S) -> S]
           /\ \A i, j \in 1 .. Cardinality(S) : SetToSeq(S)[i] = SetToSeq(S)[j] => i = j
           /\ \A x \in S : \E i \in 1 .. Cardinality(S) : SetToSeq(S)[i] = x
<1> DEFINE n == Cardinality(S)
<1>1. n \in Nat /\ ExistsBijection(1 .. n, S)
  BY FS_CardinalityType
<1>2. \E f \in [1 .. n -> S] : IsInjective(f)
  BY <1>1 DEF ExistsBijection, Bijection, Injection, IsInjective
<1>3. SetToSeq(S) \in [1 .. n -> S] /\ IsInjective(SetToSeq(S))
  BY <1>2 DEF SetToSeq
<1>4. SetToSeq(S) \in Injection(1 .. n, S)
  BY <1>3 DEF Injection
<1>5. IsFiniteSet(1 .. n) /\ Cardinality(1 .. n) = n
  BY <1>1, FS_Interval
<1>6. SetToSeq(S) \in Surjection(1 .. n, S)
  BY <1>4, <1>5, FS_Injection
<1>7. QED
  BY <1>1, <1>3, <1>6 DEF Surjection, IsInjective

(* What is left of a sequence without its element i.                       *)
LEMMA RemoveAtProperties ==
    ASSUME NEW T, NEW s \in Seq(T), NEW i \in DOMAIN s
    PROVE  /\ RemoveAt(s, i) \in Seq(T)
           /\ Len(RemoveAt(s, i)) = Len(s) - 1
           /\ \A k \in 1 .. Len(s) - 1 :
                 RemoveAt(s, i)[k] = IF k < i THEN s[k] ELSE s[k + 1]
<1> DEFINE a == SubSeq(s, 1, i - 1)
           b == SubSeq(s, i + 1, Len(s))
<1>1. Len(s) \in Nat /\ i \in 1 .. Len(s) /\ \A k \in 1 .. Len(s) : s[k] \in T
  BY LenProperties, ElementOfSeq
<1>2. /\ a \in Seq(T) /\ Len(a) = i - 1
      /\ \A k \in 1 .. i - 1 : a[k] = s[k]
  <2>1. \A k \in 1 .. i - 1 : s[k] \in T
    BY <1>1
  <2>2. 1 \in Int /\ i - 1 \in Int
    BY <1>1
  <2>3. /\ a \in Seq(T)
        /\ Len(a) = IF 1 <= i - 1 THEN i - 1 - 1 + 1 ELSE 0
        /\ \A k \in 1 .. i - 1 - 1 + 1 : a[k] = s[1 + k - 1]
    BY <2>1, <2>2, SubSeqProperties
  <2>4. QED
    BY <1>1, <2>3
<1>3. /\ b \in Seq(T) /\ Len(b) = Len(s) - i
      /\ \A k \in 1 .. Len(s) - i : b[k] = s[i + k]
  <2>1. \A k \in i + 1 .. Len(s) : s[k] \in T
    BY <1>1
  <2>2. i + 1 \in Int /\ Len(s) \in Int
    BY <1>1
  <2>3. /\ b \in Seq(T)
        /\ Len(b) = IF i + 1 <= Len(s) THEN Len(s) - (i + 1) + 1 ELSE 0
        /\ \A k \in 1 .. Len(s) - (i + 1) + 1 : b[k] = s[i + 1 + k - 1]
    BY <2>1, <2>2, SubSeqProperties
  <2>4. QED
    BY <1>1, <2>3
<1> HIDE DEF a, b
<1>4. /\ a \o b \in Seq(T) /\ Len(a \o b) = Len(a) + Len(b)
      /\ \A k \in 1 .. Len(a) + Len(b) :
            (a \o b)[k] = IF k <= Len(a) THEN a[k] ELSE b[k - Len(a)]
  BY <1>2, <1>3, ConcatProperties
<1>5. RemoveAt(s, i) = a \o b
  BY DEF RemoveAt, a, b
<1>6. Len(a) + Len(b) = Len(s) - 1
  BY <1>1, <1>2, <1>3
<1>7. ASSUME NEW k \in 1 .. Len(s) - 1
      PROVE  (a \o b)[k] = IF k < i THEN s[k] ELSE s[k + 1]
  <2>1. CASE k < i
    BY <1>1, <1>2, <1>4, <1>6, <2>1
  <2>2. CASE ~ (k < i)
    <3>1. k - (i - 1) \in 1 .. Len(s) - i /\ i + (k - (i - 1)) = k + 1
      BY <1>1, <2>2
    <3>2. (a \o b)[k] = b[k - (i - 1)]
      <4>1. k \in 1 .. Len(a) + Len(b) /\ ~ (k <= Len(a)) /\ Len(a) = i - 1
        BY <1>1, <1>2, <1>6, <2>2
      <4>2. QED
        BY <1>4, <4>1
    <3>3. QED
      BY <1>3, <2>2, <3>1, <3>2
  <2>3. QED
    BY <2>1, <2>2
<1>8. QED
  BY <1>4, <1>5, <1>6, <1>7

-----------------------------------------------------------------------------
(* Types.                                                                  *)

(* What a run has found agrees with its stage: it points to an entity when *)
(* it reads one, and has a value only of an entity.                        *)
SoundExec ==
    {x \in Exec : /\ x.step = "root" => x.ptr = Missing /\ x.val = 0
                  /\ x.step = "entity" => x.ptr # Missing /\ x.val = 0
                  /\ x.step = "failed" => x.ptr = Missing /\ x.val = 0
                  /\ x.val # 0 => x.ptr # Missing}

TypeInv == TypeOK /\ execs \in Seq(SoundExec)

LEMMA NewExecType ==
    ASSUME NEW o \in Op, NEW p \in Policy
    PROVE  NewExec(o, p) \in SoundExec
BY ConstantsAssumption DEF NewExec, Exec, SoundExec

(* The runs of a set of operations: one for each, all with cache-only.     *)
LEMMA ReexecutionsOf ==
    ASSUME NEW S \in SUBSET Op
    PROVE  /\ Reexecutions(S) \in Seq(SoundExec)
           /\ \A i \in DOMAIN Reexecutions(S) :
                 \E o \in S : Reexecutions(S)[i] = NewExec(o, "cache-only")
           /\ \A o \in S : \E i \in DOMAIN Reexecutions(S) :
                 Reexecutions(S)[i] = NewExec(o, "cache-only")
           /\ \A i, j \in DOMAIN Reexecutions(S) :
                 Reexecutions(S)[i].op = Reexecutions(S)[j].op => i = j
<1> DEFINE n == Cardinality(S)
           keys == SetToSeq(S)
<1>1. IsFiniteSet(S)
  BY FS_Subset, ConstantsAssumption
<1>2. /\ n \in Nat /\ keys \in [1 .. n -> S]
      /\ \A i, j \in 1 .. n : keys[i] = keys[j] => i = j
      /\ \A x \in S : \E i \in 1 .. n : keys[i] = x
  BY <1>1, SetToSeqIsEnumeration
<1>3. Reexecutions(S) = [i \in 1 .. n |-> NewExec(keys[i], "cache-only")]
  BY DEF Reexecutions
<1> HIDE DEF n, keys
<1>4. \A i \in 1 .. n : keys[i] \in S /\ NewExec(keys[i], "cache-only") \in SoundExec
  BY <1>2, NewExecType DEF Policy
<1>5. Reexecutions(S) \in [1 .. n -> SoundExec]
  BY <1>3, <1>4
<1>6. Reexecutions(S) \in Seq(SoundExec)
  BY <1>2, <1>5
<1>7. \A i \in 1 .. n : Reexecutions(S)[i].op = keys[i]
  BY <1>3 DEF NewExec
<1>8. QED
  BY <1>2, <1>3, <1>4, <1>5, <1>6, <1>7

LEMMA FlushType ==
    ASSUME live \in SUBSET Op, NEW running \in Seq(SoundExec), NEW keys \in SUBSET Op, NEW mut,
           Flush(running, keys, mut)
    PROVE  execs' \in Seq(SoundExec) /\ stale' \in SUBSET Op
<1>1. keys \cap live \in SUBSET Op
  OBVIOUS
<1>2. QED
  BY <1>1, ReexecutionsOf DEF Flush

LEMMA NotifyType ==
    ASSUME TypeOK, NEW r \in Row, NEW by \in Op \cup {Mutation, Missing}, Notify(r, by)
    PROVE  /\ updates' \in [Table -> Seq([row : Row, by : Op \cup {Mutation, Missing}])]
           /\ lost' \in [Op -> SUBSET Row]
<1> DEFINE U == [row : Row, by : Op \cup {Mutation, Missing}]
           u == [row |-> r, by |-> by]
<1>1. TableOf(r) \in Table
  BY DEF TableOf, Table
<1>2. u \in U /\ updates \in [Table -> Seq(U)]
  BY DEF TypeOK
<1>3. updates' = IF triggers[TableOf(r)] = "ready"
                 THEN [updates EXCEPT ![TableOf(r)] = Append(@, u)] ELSE updates
  BY DEF Notify
<1> HIDE DEF U, u
<1>4. updates' \in [Table -> Seq(U)]
  BY <1>1, <1>2, <1>3, AppendProperties
<1>5. lost' \in [Op -> SUBSET Row]
  <2>1. lost \in [Op -> SUBSET Row]
    BY DEF TypeOK
  <2>2. \A o \in Op : lost[o] \cup {r} \in SUBSET Row
    BY <2>1
  <2>3. QED
    BY <2>1, <2>2 DEF Notify
<1>6. QED
  BY <1>4, <1>5 DEF U


LEMMA SoundIsExec == Seq(SoundExec) \subseteq Seq(Exec)
<1>1. SoundExec \subseteq Exec
  BY DEF SoundExec
<1>2. QED
  BY <1>1, SeqMonotonic

(* What TypeInv says of one run.                                           *)
LEMMA ExecType ==
    ASSUME TypeInv, NEW i \in DOMAIN execs
    PROVE  /\ execs[i] \in SoundExec
           /\ execs[i].op \in Op /\ execs[i].val \in Nat
           /\ execs[i].ptr \in Entity \cup {Missing}
           /\ execs[i].ptr # Missing => execs[i].ptr \in Entity
           /\ RootOf[execs[i].op] \in Query
           /\ execs[i].val # 0 => Rows(execs[i]) \subseteq Row
<1>1. execs[i] \in SoundExec
  BY LenProperties, ElementOfSeq DEF TypeInv
<1>2. RootOf[execs[i].op] \in Query
  BY <1>1, ConstantsAssumption DEF SoundExec, Exec
<1>3. QED
  BY <1>1, <1>2 DEF SoundExec, Exec, Rows, Row

LEMMA ReplacedExec ==
    ASSUME TypeInv, NEW i \in DOMAIN execs, NEW x \in SoundExec
    PROVE  [execs EXCEPT ![i] = x] \in Seq(SoundExec)
<1>1. i \in 1 .. Len(execs)
  BY LenProperties DEF TypeInv
<1>2. QED
  BY <1>1, ExceptSeq DEF TypeInv

LEMMA ReadTypes ==
    ASSUME TypeInv, NEW i \in DOMAIN execs, ReadRoot(i) \/ ReadEntity(i) \/ ReadFails(i)
    PROVE  execs' \in Seq(SoundExec) /\ lost' \in [Op -> SUBSET Row]
<1>1. CASE ReadRoot(i)
  <2> DEFINE e == root[RootOf[execs[i].op]]
             x == [execs[i] EXCEPT !.ptr = e,
                                   !.step = IF e = Missing THEN "finish" ELSE "entity"]
  <2>1. e \in Entity \cup {Missing}
    BY ExecType DEF TypeInv, TypeOK
  <2>2. execs[i].step = "root"
    BY <1>1 DEF ReadRoot, IsNext
  <2>3. x \in SoundExec
    BY <2>1, <2>2, ExecType DEF SoundExec, Exec
  <2>4. execs' = [execs EXCEPT ![i] = x]
    BY <1>1 DEF ReadRoot
  <2>5. lost' \in [Op -> SUBSET Row]
    BY <1>1 DEF ReadRoot, HasRead, TypeInv, TypeOK
  <2>6. QED
    BY <2>3, <2>4, <2>5, ReplacedExec
<1>2. CASE ReadEntity(i)
  <2> DEFINE x == [execs[i] EXCEPT !.val = data[execs[i].ptr], !.step = "finish"]
  <2>1. execs[i].step = "entity"
    BY <1>2 DEF ReadEntity, IsNext
  <2>2. execs[i].ptr \in Entity /\ execs[i].ptr # Missing
    BY <2>1, ExecType DEF SoundExec
  <2>3. x \in SoundExec
    BY <2>1, <2>2, ExecType DEF SoundExec, Exec, TypeInv, TypeOK
  <2>4. execs' = [execs EXCEPT ![i] = x]
    BY <1>2 DEF ReadEntity
  <2>5. lost' \in [Op -> SUBSET Row]
    BY <1>2 DEF ReadEntity, HasRead, TypeInv, TypeOK
  <2>6. QED
    BY <2>3, <2>4, <2>5, ReplacedExec
<1>3. CASE ReadFails(i)
  <2> DEFINE x == [execs[i] EXCEPT !.step = "failed", !.ptr = Missing]
  <2>1. execs[i].step = "root" \/ execs[i].step = "entity"
    BY <1>3 DEF ReadFails, IsNext
  <2>2. x \in SoundExec
    BY <2>1, ExecType DEF SoundExec, Exec
  <2>3. execs' = [execs EXCEPT ![i] = x]
    BY <1>3 DEF ReadFails
  <2>4. lost' \in [Op -> SUBSET Row]
    <3>1. execs[i].op \in Op /\ RootOf[execs[i].op] \in Row
      BY ExecType DEF Row
    <3>2. lost \in [Op -> SUBSET Row] /\ lost[execs[i].op] \cup {RootOf[execs[i].op]} \in SUBSET Row
      BY <3>1 DEF TypeInv, TypeOK
    <3>3. QED
      BY <1>3, <3>2 DEF ReadFails
  <2>5. QED
    BY <2>2, <2>3, <2>4, ReplacedExec
<1>4. QED
  BY <1>1, <1>2, <1>3

LEMMA AppendedExec ==
    ASSUME TypeInv, NEW o \in Op, NEW p \in Policy
    PROVE  Append(execs, NewExec(o, p)) \in Seq(SoundExec)
BY NewExecType, AppendProperties DEF TypeInv

LEMMA UpsertEntityType ==
    ASSUME TypeInv, NEW o \in Op, NEW e \in Entity, NEW v \in Nat, UpsertEntity(o, e, v)
    PROVE  /\ data' \in [Entity -> Nat] /\ base' \in [Entity -> Nat]
           /\ updatedBy' \in [Entity -> Op \cup {Mutation, Missing}]
           /\ updates' \in [Table -> Seq([row : Row, by : Op \cup {Mutation, Missing}])]
           /\ lost' \in [Op -> SUBSET Row]
<1>1. e \in Row /\ o \in Op \cup {Mutation, Missing}
  BY DEF Row
<1>2. data' \in [Entity -> Nat] /\ base' \in [Entity -> Nat]
      /\ updatedBy' \in [Entity -> Op \cup {Mutation, Missing}]
  BY DEF UpsertEntity, TypeInv, TypeOK
<1>3. CASE base[e] = 0
  BY <1>1, <1>2, <1>3, NotifyType DEF UpsertEntity, TypeInv
<1>4. CASE base[e] # 0
  <2>1. lost[o] \cup {e} \in SUBSET Row
    BY <1>1 DEF TypeInv, TypeOK
  <2>2. lost' = [lost EXCEPT ![o] = @ \cup {e}] /\ updates' = updates
    BY <1>4 DEF UpsertEntity
  <2>3. lost' \in [Op -> SUBSET Row]
    BY <2>1, <2>2 DEF TypeInv, TypeOK
  <2>4. updates' \in [Table -> Seq([row : Row, by : Op \cup {Mutation, Missing}])]
    BY <2>2 DEF TypeInv, TypeOK
  <2>5. QED
    BY <1>2, <2>3, <2>4
<1>5. QED
  BY <1>3, <1>4

LEMMA WatchType ==
    ASSUME TypeInv, NEW x \in SoundExec, Rows(x) \subseteq Row, Watch(x)
    PROVE  /\ changeSubs' \in [Op -> SUBSET Row]
           /\ triggers' \in [Table -> {"none", "creating", "ready"}]
           /\ lost' \in [Op -> SUBSET Row]
<1>1. x.op \in Op
  BY DEF SoundExec, Exec
<1>2. lost \in [Op -> SUBSET Row] /\ changeSubs \in [Op -> SUBSET Row]
      /\ triggers \in [Table -> {"none", "creating", "ready"}]
  BY DEF TypeInv, TypeOK
<1>3. lost[x.op] \cup (changeSubs[x.op] \ Rows(x)) \in SUBSET Row
  BY <1>1, <1>2
<1>4. QED
  BY <1>1, <1>2, <1>3 DEF Watch

-----------------------------------------------------------------------------
LEMMA InitTyped == Init => TypeInv
<1> SUFFICES ASSUME Init PROVE TypeInv
  OBVIOUS
<1>1. <<>> \in Seq(SoundExec) /\ <<>> \in Seq(Exec)
      /\ <<>> \in Seq([op : Op, ptr : Entity])
      /\ <<>> \in Seq([row : Row, by : Op \cup {Mutation, Missing}])
  BY EmptySeq
<1>2. NoResult \in Result
  BY DEF NoResult, Result
<1>3. QED
  BY <1>1, <1>2 DEF Init, TypeInv, TypeOK

(* Every action keeps the types.                                           *)
LEMMA NextTyped == TypeInv /\ [Next]_vars => TypeInv'
<1> SUFFICES ASSUME TypeInv, [Next]_vars PROVE TypeInv'
  OBVIOUS
<1> USE SoundIsExec
<1>a. execs \in Seq(SoundExec) /\ TypeOK
  BY DEF TypeInv
<1>1. ASSUME NEW o \in Op, NEW p \in Policy, Dispatch(o, p) PROVE TypeInv'
  <2>1. execs' \in Seq(SoundExec)
    BY <1>1, <1>a, AppendedExec DEF Dispatch
  <2>2. dispatches' \in Nat /\ live' \in SUBSET Op /\ net' \in SUBSET Op
    BY <1>1, <1>a DEF Dispatch, TypeOK
  <2>3. QED
    BY <1>1, <1>a, <2>1, <2>2 DEF Dispatch, TypeInv, TypeOK, entityVars
<1>2. ASSUME NEW o \in Op, Teardown(o) PROVE TypeInv'
  <2> DEFINE T(x) == IF x.op = o THEN [x EXCEPT !.ended = TRUE] ELSE x
  <2>1. \A x \in SoundExec : T(x) \in SoundExec
    BY DEF SoundExec, Exec
  <2>2. Len(execs) \in Nat /\ DOMAIN execs = 1 .. Len(execs)
        /\ execs \in [1 .. Len(execs) -> SoundExec]
    BY <1>a, LenProperties
  <2>3. execs' = [i \in 1 .. Len(execs) |-> T(execs[i])]
    BY <1>2, <2>2 DEF Teardown
  <2> HIDE DEF T
  <2>4. execs' \in [1 .. Len(execs) -> SoundExec]
    BY <2>1, <2>2, <2>3
  <2>5. execs' \in Seq(SoundExec)
    BY <2>2, <2>4
  <2>6. NoResult \in Result
    BY DEF NoResult, Result
  <2>7. QED
    BY <1>2, <1>a, <2>5, <2>6 DEF Teardown, TypeInv, TypeOK, entityVars, boundVars
<1>3. ASSUME NEW i \in DOMAIN execs, ReadRoot(i) PROVE TypeInv'
  <2>1. execs' \in Seq(SoundExec) /\ lost' \in [Op -> SUBSET Row]
    BY <1>3, ReadTypes
  <2>2. QED
    BY <1>3, <1>a, <2>1
       DEF ReadRoot, TypeInv, TypeOK, entityVars, linkVars, watchVars, boundVars
<1>4. ASSUME NEW i \in DOMAIN execs, ReadEntity(i) PROVE TypeInv'
  <2>1. execs' \in Seq(SoundExec) /\ lost' \in [Op -> SUBSET Row]
    BY <1>4, ReadTypes
  <2>2. QED
    BY <1>4, <1>a, <2>1
       DEF ReadEntity, TypeInv, TypeOK, entityVars, linkVars, watchVars, boundVars
<1>4a. ASSUME NEW i \in DOMAIN execs, ReadFails(i) PROVE TypeInv'
  <2>1. execs' \in Seq(SoundExec) /\ lost' \in [Op -> SUBSET Row]
    BY <1>4a, ReadTypes
  <2>2. QED
    BY <1>4a, <1>a, <2>1
       DEF ReadFails, TypeInv, TypeOK, entityVars, linkVars, watchVars, boundVars
<1>5. ASSUME NEW i \in DOMAIN execs, FinishExec(i) PROVE TypeInv'
  <2> DEFINE x == execs[i]
  <2>1. x \in SoundExec /\ x.op \in Op /\ x.val \in Nat /\ x.ptr \in Entity \cup {Missing}
        /\ (x.val # 0 => Rows(x) \subseteq Row)
    BY ExecType
  <2> HIDE DEF x
  <2>2. shown' \in [Op -> Result]
    BY <1>5, <1>a, <2>1 DEF FinishExec, TypeOK, Result, ErrorResult, x
  <2>3. /\ changeSubs' \in [Op -> SUBSET Row]
        /\ triggers' \in [Table -> {"none", "creating", "ready"}]
        /\ lost' \in [Op -> SUBSET Row]
    <3>1. CASE x.val # 0
      BY <1>5, <2>1, <3>1, WatchType DEF FinishExec, x
    <3>2. CASE x.val = 0
      BY <1>5, <1>a, <3>2 DEF FinishExec, TypeOK, x
    <3>3. QED
      BY <3>1, <3>2
  <2>4. RemoveAt(execs, i) \in Seq(SoundExec)
    BY <1>a, RemoveAtProperties
  <2>5. execs' \in Seq(SoundExec) /\ stale' \in SUBSET Op
    BY <1>5, <1>a, <2>4, FlushType DEF FinishExec, TypeOK
  <2>6. net' \in SUBSET Op
    BY <1>5, <1>a, <2>1 DEF FinishExec, TypeOK, x
  <2>7. QED
    BY <1>5, <1>a, <2>2, <2>3, <2>5, <2>6 DEF FinishExec, TypeInv, TypeOK, entityVars,
       boundVars
<1>6. ASSUME NEW o \in Op, NEW e \in Entity, NetResult(o, e) PROVE TypeInv'
  <2>1. clock + 1 \in Nat /\ clock \in Nat
    BY <1>a DEF TypeOK
  <2>2. /\ data' \in [Entity -> Nat] /\ base' \in [Entity -> Nat]
        /\ updatedBy' \in [Entity -> Op \cup {Mutation, Missing}]
        /\ updates' \in [Table -> Seq([row : Row, by : Op \cup {Mutation, Missing}])]
        /\ lost' \in [Op -> SUBSET Row]
    BY <1>6, <2>1, UpsertEntityType DEF NetResult
  <2>3. shown' \in [Op -> Result]
    BY <1>6, <1>a, <2>1 DEF NetResult, TypeOK, Result
  <2>4. persists' \in Seq([op : Op, ptr : Entity])
    <3>1. [op |-> o, ptr |-> e] \in [op : Op, ptr : Entity]
      OBVIOUS
    <3>2. persists \in Seq([op : Op, ptr : Entity])
      BY <1>a DEF TypeOK
    <3>3. persists' = Append(persists, [op |-> o, ptr |-> e])
      BY <1>6 DEF NetResult
    <3>4. QED
      BY <3>1, <3>2, <3>3, AppendProperties
  <2>5. execs' \in Seq(SoundExec) /\ stale' \in SUBSET Op
    BY <1>6, <1>a, AppendedExec, FlushType DEF NetResult, TypeOK, Policy
  <2>6. QED
    BY <1>6, <1>a, <2>1, <2>2, <2>3, <2>4, <2>5 DEF NetResult, TypeInv, TypeOK,
       watchVars
<1>7. ASSUME NEW o \in Op, NetError(o) PROVE TypeInv'
  <2>1. execs' \in Seq(SoundExec) /\ stale' \in SUBSET Op
    BY <1>7, <1>a, FlushType DEF NetError, TypeOK
  <2>2. netErrors' \in Nat /\ net' \in SUBSET Op
    BY <1>7, <1>a DEF NetError, TypeOK
  <2>3. QED
    BY <1>7, <1>a, <2>1, <2>2 DEF NetError, TypeInv, TypeOK, entityVars, watchVars
<1>8. CASE UpsertQuery
  <2> DEFINE p == Head(persists)
  <2>1. p \in [op : Op, ptr : Entity] /\ persists' \in Seq([op : Op, ptr : Entity])
    <3>1. persists \in Seq([op : Op, ptr : Entity]) /\ persists # <<>> /\ persists' = Tail(persists)
      BY <1>8, <1>a DEF UpsertQuery, TypeOK
    <3>2. QED
      BY <3>1, HeadTailProperties
  <2> HIDE DEF p
  <2>2. p.op \in Op /\ p.ptr \in Entity /\ RootOf[p.op] \in Query
    BY <2>1, ConstantsAssumption
  <2>3. root' \in [Query -> Entity \cup {Missing}]
        /\ updatedBy' \in [Entity -> Op \cup {Mutation, Missing}]
    BY <1>8, <1>a, <2>2 DEF UpsertQuery, TypeOK, p
  <2>4. /\ updates' \in [Table -> Seq([row : Row, by : Op \cup {Mutation, Missing}])]
        /\ lost' \in [Op -> SUBSET Row]
    <3>1. CASE root[RootOf[p.op]] # p.ptr
      <4>1. Notify(RootOf[p.op], p.op)
        BY <1>8, <3>1 DEF UpsertQuery, p
      <4>2. RootOf[p.op] \in Row /\ p.op \in Op \cup {Mutation, Missing}
        BY <2>2 DEF Row
      <4>3. QED
        BY <1>a, <4>1, <4>2, NotifyType
    <3>2. CASE root[RootOf[p.op]] = p.ptr
      BY <1>8, <1>a, <3>2 DEF UpsertQuery, Silent, TypeOK, p
    <3>3. QED
      BY <3>1, <3>2
  <2>5. QED
    BY <1>8, <1>a, <2>1, <2>3, <2>4 DEF UpsertQuery, TypeInv, TypeOK, entityVars,
       watchVars, boundVars
<1>9. CASE BeginMutation
  BY <1>9, <1>a DEF BeginMutation, TypeInv, TypeOK, entityVars, linkVars, watchVars,
     boundVars
<1>10. ASSUME NEW e \in Entity, PatchEntity(e) PROVE TypeInv'
  <2>1. e \in Row /\ Mutation \in Op \cup {Mutation, Missing}
    BY DEF Row
  <2>2. /\ updates' \in [Table -> Seq([row : Row, by : Op \cup {Mutation, Missing}])]
        /\ lost' \in [Op -> SUBSET Row]
    BY <1>10, <1>a, <2>1, NotifyType DEF PatchEntity
  <2>3. clock' \in Nat /\ data' \in [Entity -> Nat] /\ base' \in [Entity -> Nat]
        /\ updatedBy' \in [Entity -> Op \cup {Mutation, Missing}]
    BY <1>10, <1>a, <2>1 DEF PatchEntity, TypeOK
  <2>4. QED
    BY <1>10, <1>a, <2>2, <2>3 DEF PatchEntity, TypeInv, TypeOK, watchVars
<1>11. CASE EndMutation
  <2>1. execs' \in Seq(SoundExec) /\ stale' \in SUBSET Op
    BY <1>11, <1>a, FlushType DEF EndMutation, TypeOK
  <2>2. QED
    BY <1>11, <1>a, <2>1 DEF EndMutation, TypeInv, TypeOK, entityVars, linkVars,
       watchVars, boundVars
<1>12. ASSUME NEW e \in Entity, CleanEntity(e) PROVE TypeInv'
  <2>1. e \in Row
    BY DEF Row
  <2>2. updatedBy[e] \in Op \cup {Mutation, Missing}
    BY <1>a, <2>1 DEF TypeOK
  <2>3. /\ updates' \in [Table -> Seq([row : Row, by : Op \cup {Mutation, Missing}])]
        /\ lost' \in [Op -> SUBSET Row]
    BY <1>12, <1>a, <2>1, <2>2, NotifyType DEF CleanEntity
  <2>4. QED
    BY <1>12, <1>a, <2>3 DEF CleanEntity, TypeInv, TypeOK, watchVars, boundVars
<1>13. ASSUME NEW t \in Table, CreateTriggers(t) PROVE TypeInv'
  BY <1>13, <1>a DEF CreateTriggers, TypeInv, TypeOK, entityVars, watchVars, boundVars
<1>14. ASSUME NEW t \in Table, OnTableRowUpdate(t) PROVE TypeInv'
  <2>1. updates' \in [Table -> Seq([row : Row, by : Op \cup {Mutation, Missing}])]
    <3>1. updates[t] \in Seq([row : Row, by : Op \cup {Mutation, Missing}]) /\ updates[t] # <<>>
      BY <1>14, <1>a DEF OnTableRowUpdate, TypeOK
    <3>2. Tail(updates[t]) \in Seq([row : Row, by : Op \cup {Mutation, Missing}])
      BY <3>1, HeadTailProperties
    <3>3. QED
      BY <1>14, <1>a, <3>2 DEF OnTableRowUpdate, TypeOK
  <2>2. stale \cup Matches(Head(updates[t])) \in SUBSET Op
    BY <1>a DEF Matches, TypeOK
  <2>3. execs' \in Seq(SoundExec) /\ stale' \in SUBSET Op
    BY <1>14, <1>a, <2>2, FlushType DEF OnTableRowUpdate, TypeOK
  <2>4. QED
    BY <1>14, <1>a, <2>1, <2>3 DEF OnTableRowUpdate, TypeInv, TypeOK, entityVars,
       watchVars, boundVars
<1>15. CASE UNCHANGED vars
  BY <1>15, <1>a DEF vars, TypeInv, TypeOK, entityVars, linkVars, watchVars, boundVars
<1>16. QED
  BY <1>1, <1>2, <1>3, <1>4, <1>4a, <1>5, <1>6, <1>7, <1>8, <1>9, <1>10, <1>11, <1>12,
     <1>13, <1>14,
     <1>15 DEF Next, Execution, NetAnswer

(* Type correctness: every table, queue and variable of the exchange holds *)
(* a value of its type, and every run one that agrees with its stage.      *)
THEOREM TypeCorrect == Spec => []TypeOK
<1>1. Spec => []TypeInv
  BY InitTyped, NextTyped, PTL DEF Spec
<1>2. TypeInv => TypeOK
  BY DEF TypeInv
<1>3. QED
  BY <1>1, <1>2, PTL

-----------------------------------------------------------------------------
(* The locks.                                                              *)

LEMMA FlushKeepsALock ==
    ASSUME NEW running, NEW keys, NEW mut, Flush(running, keys, mut),
           mut => mutating'
    PROVE  StaleHasALock'
BY DEF Flush, StaleHasALock

(* No lock is ever missing: only Flush releases one, and it leaves stale   *)
(* keys only when another lock is held.                                    *)
LEMMA NextHasALock == TypeInv /\ StaleHasALock /\ [Next]_vars => StaleHasALock'
<1> SUFFICES ASSUME TypeInv, StaleHasALock, [Next]_vars PROVE StaleHasALock'
  OBVIOUS
<1>a. execs \in Seq(SoundExec)
  BY DEF TypeInv
<1>1. ASSUME NEW o \in Op, NEW p \in Policy, Dispatch(o, p) PROVE StaleHasALock'
  <2>1. Append(execs, NewExec(o, p)) # <<>>
    BY <1>a, NewExecType, AppendProperties
  <2>2. QED
    BY <1>1, <2>1 DEF Dispatch, StaleHasALock
<1>2. ASSUME NEW o \in Op, Teardown(o) PROVE StaleHasALock'
  <2>1. DOMAIN execs' = DOMAIN execs /\ stale' = stale /\ mutating' = mutating
    BY <1>2 DEF Teardown
  <2>2. execs # <<>> => DOMAIN execs # {}
    <3>1. execs # <<>> => Len(execs) \in Nat \ {0} /\ DOMAIN execs = 1 .. Len(execs)
      BY <1>a, EmptySeq, LenProperties
    <3>2. QED
      BY <3>1
  <2>3. QED
    BY <2>1, <2>2 DEF StaleHasALock
<1>3. ASSUME NEW i \in DOMAIN execs, ReadRoot(i) \/ ReadEntity(i) \/ ReadFails(i)
      PROVE  StaleHasALock'
  <2>1. i \in DOMAIN execs'
    BY <1>3 DEF ReadRoot, ReadEntity, ReadFails
  <2>2. QED
    BY <2>1 DEF StaleHasALock
<1>4. ASSUME NEW i \in DOMAIN execs, FinishExec(i) PROVE StaleHasALock'
  BY <1>4, FlushKeepsALock DEF FinishExec
<1>5. ASSUME NEW o \in Op, NEW e \in Entity, NetResult(o, e) PROVE StaleHasALock'
  BY <1>5, FlushKeepsALock DEF NetResult
<1>6. ASSUME NEW o \in Op, NetError(o) PROVE StaleHasALock'
  BY <1>6, FlushKeepsALock DEF NetError
<1>7. CASE EndMutation
  BY <1>7, FlushKeepsALock DEF EndMutation
<1>8. ASSUME NEW t \in Table, OnTableRowUpdate(t) PROVE StaleHasALock'
  BY <1>8, FlushKeepsALock DEF OnTableRowUpdate
<1>9. CASE UpsertQuery
  BY <1>9 DEF UpsertQuery, StaleHasALock
<1>10. CASE BeginMutation
  BY <1>10 DEF BeginMutation, StaleHasALock
<1>11. ASSUME NEW e \in Entity, PatchEntity(e) \/ CleanEntity(e) PROVE StaleHasALock'
  BY <1>11 DEF PatchEntity, CleanEntity, StaleHasALock
<1>12. ASSUME NEW t \in Table, CreateTriggers(t) PROVE StaleHasALock'
  BY <1>12 DEF CreateTriggers, StaleHasALock
<1>13. CASE UNCHANGED vars
  BY <1>13 DEF vars, StaleHasALock
<1>14. QED
  BY <1>1, <1>2, <1>3, <1>4, <1>5, <1>6, <1>7, <1>8, <1>9, <1>10, <1>11, <1>12, <1>13
     DEF Next, Execution, NetAnswer

(* A stale operation always has a lock to wait for, for any number of      *)
(* operations that take and release locks in any order.                    *)
THEOREM LocksCoverStaleness == Spec => []StaleHasALock
<1>1. Init => StaleHasALock
  BY DEF Init, StaleHasALock
<1>2. QED
  BY <1>1, InitTyped, NextTyped, NextHasALock, PTL DEF Spec

-----------------------------------------------------------------------------
(* The cache.                                                              *)

(* The root field of an operation is in the cache.                         *)
Cached(o) == root[RootOf[o]] # Missing

(* What one run has found is in the cache; a run with cache-only finds its *)
(* root, unless the statement fails.                                       *)
FoundInCache(x) ==
    /\ x.ptr # Missing => Cached(x.op) /\ data[x.ptr] # 0
    /\ x.policy = "cache-only" => Cached(x.op)
    /\ x.policy = "cache-only" /\ x.step \notin {"root", "failed"} => x.ptr # Missing
    /\ x.step = "finish" /\ x.ptr # Missing => x.val # 0

(* Whatever points to an entity points to one in the cache.                *)
PointersOK ==
    /\ \A q \in Query : root[q] # Missing => data[root[q]] # 0
    /\ \A e \in Entity : base[e] # 0 => data[e] # 0
    /\ \A k \in DOMAIN persists : data[persists[k].ptr] # 0

(* What is watched was found.                                              *)
WatchedAreCached ==
    \A o \in Op : changeSubs[o] # {} => Cached(o)

(* The same of all runs, and of the operations that will be run.           *)
RunsAreCached(runs, keys) ==
    /\ \A i \in DOMAIN runs : FoundInCache(runs[i])
    /\ \A o \in keys : Cached(o)

(* Data that is shown is that of an entity.                                *)
ShownIsData ==
    \A o \in Op : shown[o].val # 0 => shown[o].ptr \in Entity

CacheInv == PointersOK /\ WatchedAreCached /\ ShownIsData /\ RunsAreCached(execs, stale)


LEMMA InitCached == Init => CacheInv
BY DEF Init, CacheInv, PointersOK, WatchedAreCached, ShownIsData, RunsAreCached, NoResult

(* Nothing is ever removed from the cache.                                 *)
LEMMA CacheGrows ==
    ASSUME TypeInv, CacheInv, [Next]_vars
    PROVE  /\ \A q \in Query : root[q] # Missing => root'[q] # Missing
           /\ \A e \in Entity : data[e] # 0 => data'[e] # 0
<1> USE DEF TypeInv, TypeOK
<1>1. CASE UpsertQuery
  <2>1. Head(persists) \in [op : Op, ptr : Entity]
    <3>1. persists \in Seq([op : Op, ptr : Entity]) /\ persists # <<>>
      BY <1>1 DEF UpsertQuery
    <3>2. QED
      BY <3>1, HeadTailProperties
  <2>2. Head(persists).ptr # Missing
    BY <2>1, ConstantsAssumption
  <2>3. QED
    BY <1>1, <2>2 DEF UpsertQuery, entityVars
<1>2. ASSUME NEW o \in Op, NEW e \in Entity, NetResult(o, e)
      PROVE  root' = root /\ \A g \in Entity : data[g] # 0 => data'[g] # 0
  <2>1. clock + 1 # 0
    OBVIOUS
  <2>2. QED
    BY <1>2, <2>1 DEF NetResult, UpsertEntity
<1>3. ASSUME NEW e \in Entity, PatchEntity(e)
      PROVE  root' = root /\ \A g \in Entity : data[g] # 0 => data'[g] # 0
  <2>1. clock + 1 # 0
    OBVIOUS
  <2>2. QED
    BY <1>3, <2>1 DEF PatchEntity
<1>4. ASSUME NEW e \in Entity, CleanEntity(e)
      PROVE  root' = root /\ \A g \in Entity : data[g] # 0 => data'[g] # 0
  BY <1>4 DEF CleanEntity
<1>5. CASE root' = root /\ data' = data
  BY <1>5
<1>6. QED
  BY <1>1, <1>2, <1>3, <1>4, <1>5
     DEF Next, Execution, NetAnswer, Dispatch, Teardown, ReadRoot, ReadEntity, ReadFails,
         FinishExec, NetError, BeginMutation, EndMutation, CreateTriggers, OnTableRowUpdate, entityVars, vars

LEMMA StillCached ==
    ASSUME TypeInv, CacheInv, [Next]_vars, NEW o \in Op, Cached(o)
    PROVE  Cached(o)'
BY CacheGrows, ConstantsAssumption DEF Cached

LEMMA StillFound ==
    ASSUME TypeInv, CacheInv, [Next]_vars, NEW x \in SoundExec, FoundInCache(x)
    PROVE  FoundInCache(x)'
<1>1. x.op \in Op /\ (x.ptr # Missing => x.ptr \in Entity)
  BY DEF SoundExec, Exec
<1>2. QED
  BY <1>1, CacheGrows, StillCached DEF FoundInCache

LEMMA NewIsFound ==
    ASSUME NEW o, NEW p, p = "cache-only" => Cached(o)'
    PROVE  FoundInCache(NewExec(o, p))'
BY DEF FoundInCache, NewExec

(* What Flush runs was stale.                                              *)
LEMMA FlushCached ==
    ASSUME live \in SUBSET Op, NEW running \in Seq(SoundExec), NEW keys \in SUBSET Op, NEW mut,
           Flush(running, keys, mut), RunsAreCached(running, keys)'
    PROVE  RunsAreCached(execs, stale)'
<1>1. CASE execs' = running /\ stale' = keys
  BY <1>1 DEF RunsAreCached
<1>2. CASE stale' = {} /\ execs' = Reexecutions(keys \cap live)
  <2>1. ASSUME NEW i \in DOMAIN execs' PROVE FoundInCache(execs[i])'
    <3>1. PICK o \in keys \cap live : execs'[i] = NewExec(o, "cache-only")
      BY <1>2, <2>1, ReexecutionsOf
    <3>2. FoundInCache(NewExec(o, "cache-only"))'
      BY <3>1, NewIsFound DEF RunsAreCached
    <3>3. QED
      BY <3>1, <3>2 DEF FoundInCache, Cached
  <2>2. QED
    BY <1>2, <2>1 DEF RunsAreCached
<1>3. QED
  BY <1>1, <1>2 DEF Flush

(* The runs that go on, with all their operations.                         *)
LEMMA RunsStayCached ==
    ASSUME TypeInv, CacheInv, [Next]_vars,
           NEW runs, runs = execs, NEW keys, keys = stale
    PROVE  RunsAreCached(runs, keys)'
<1>1. \A i \in DOMAIN runs : runs[i] \in SoundExec /\ FoundInCache(runs[i])
  BY ExecType DEF CacheInv, RunsAreCached
<1>2. \A o \in keys : o \in Op /\ Cached(o)
  BY DEF CacheInv, RunsAreCached, TypeInv, TypeOK
<1>3. \A i \in DOMAIN runs : FoundInCache(runs[i])'
  BY <1>1, StillFound
<1>4. \A o \in keys : Cached(o)'
  BY <1>2, StillCached
<1>5. QED
  BY <1>3, <1>4 DEF RunsAreCached

LEMMA ExecsCached == TypeInv /\ CacheInv /\ [Next]_vars => RunsAreCached(execs, stale)'
<1> SUFFICES ASSUME TypeInv, CacheInv, [Next]_vars PROVE RunsAreCached(execs, stale)'
  OBVIOUS
<1>a. PICK runs, keys : runs = execs /\ keys = stale
  OBVIOUS
<1>b. RunsAreCached(runs, keys)'
  BY <1>a, RunsStayCached
<1>c. runs \in Seq(SoundExec) /\ keys \in SUBSET Op /\ live \in SUBSET Op
  BY <1>a DEF TypeInv, TypeOK
<1>1. ASSUME NEW o \in Op, NEW p \in Policy, Dispatch(o, p) PROVE RunsAreCached(execs, stale)'
  <2>1. FoundInCache(NewExec(o, p))'
    BY <1>1, NewIsFound DEF Dispatch
  <2>2. CASE execs' = runs
    BY <1>1, <1>a, <1>b, <2>2 DEF Dispatch, RunsAreCached
  <2>3. CASE execs' = Append(runs, NewExec(o, p))
    <3>1. \A i \in DOMAIN execs' : (i \in DOMAIN runs /\ execs'[i] = runs[i])
                                     \/ execs'[i] = NewExec(o, p)
      BY <1>c, <2>3, NewExecType, AppendProperties, LenProperties
    <3>2. \A i \in DOMAIN execs' : FoundInCache(execs[i])'
      BY <1>b, <2>1, <3>1 DEF RunsAreCached, FoundInCache, Cached
    <3>3. QED
      BY <1>1, <1>a, <1>b, <3>2 DEF Dispatch, RunsAreCached
  <2>4. QED
    BY <1>1, <1>a, <2>2, <2>3 DEF Dispatch
<1>2. ASSUME NEW o \in Op, Teardown(o) PROVE RunsAreCached(execs, stale)'
  <2>1. DOMAIN execs' = DOMAIN runs
    BY <1>2, <1>a DEF Teardown
  <2>2. ASSUME NEW i \in DOMAIN runs
        PROVE  /\ execs'[i].op = runs[i].op /\ execs'[i].ptr = runs[i].ptr
               /\ execs'[i].val = runs[i].val /\ execs'[i].step = runs[i].step
               /\ execs'[i].policy = runs[i].policy
    <3>1. runs[i] \in Exec
      BY <1>a, ExecType DEF SoundExec
    <3>2. execs'[i] = IF runs[i].op = o THEN [runs[i] EXCEPT !.ended = TRUE] ELSE runs[i]
      BY <1>2, <1>a DEF Teardown
    <3>3. QED
      BY <3>1, <3>2 DEF Exec
  <2>3. QED
    BY <1>2, <1>a, <1>b, <2>1, <2>2 DEF Teardown, RunsAreCached, FoundInCache, Cached
<1>3. ASSUME NEW i \in DOMAIN execs, ReadRoot(i) PROVE RunsAreCached(execs, stale)'
  <2> DEFINE e == root[RootOf[execs[i].op]]
  <2>1. /\ execs[i] \in Exec /\ execs[i].op \in Op /\ RootOf[execs[i].op] \in Query
        /\ execs[i].val = 0
    BY <1>3, ExecType DEF ReadRoot, IsNext, SoundExec
  <2>2. root' = root /\ data' = data /\ stale' = stale
    BY <1>3 DEF ReadRoot, entityVars
  <2>3. e # Missing => data[e] # 0
    BY <2>1 DEF CacheInv, PointersOK
  <2>4. FoundInCache(execs[i])
    BY DEF CacheInv, RunsAreCached
  <2>5. execs' = [execs EXCEPT ![i] = [execs[i] EXCEPT !.ptr = e,
                             !.step = IF e = Missing THEN "finish" ELSE "entity"]]
    BY <1>3 DEF ReadRoot
  <2>6. /\ execs'[i].op = execs[i].op /\ execs'[i].ptr = e /\ execs'[i].val = 0
        /\ execs'[i].step = (IF e = Missing THEN "finish" ELSE "entity")
        /\ execs'[i].policy = execs[i].policy
    BY <2>1, <2>5 DEF Exec
  <2>7. FoundInCache(execs[i])'
    BY <2>2, <2>3, <2>4, <2>6 DEF FoundInCache, Cached
  <2>8. \A k \in DOMAIN execs : k # i => execs'[k] = runs[k]
    BY <1>a, <2>5
  <2>9. DOMAIN execs' = DOMAIN runs
    BY <1>a, <2>5
  <2>10. QED
    BY <1>a, <1>b, <2>2, <2>7, <2>8, <2>9 DEF RunsAreCached, FoundInCache, Cached
<1>4. ASSUME NEW i \in DOMAIN execs, ReadEntity(i) PROVE RunsAreCached(execs, stale)'
  <2>1. /\ execs[i] \in Exec /\ execs[i].op \in Op /\ execs[i].step = "entity"
        /\ execs[i].ptr # Missing
    BY <1>4, ExecType DEF ReadEntity, IsNext, SoundExec
  <2>2. root' = root /\ data' = data /\ stale' = stale
    BY <1>4 DEF ReadEntity, entityVars
  <2>3. FoundInCache(execs[i])
    BY DEF CacheInv, RunsAreCached
  <2>4. execs' = [execs EXCEPT ![i] = [execs[i] EXCEPT !.val = data[execs[i].ptr],
                                                       !.step = "finish"]]
    BY <1>4 DEF ReadEntity
  <2>5. /\ execs'[i].op = execs[i].op /\ execs'[i].ptr = execs[i].ptr
        /\ execs'[i].val = data[execs[i].ptr] /\ execs'[i].step = "finish"
        /\ execs'[i].policy = execs[i].policy
    BY <2>1, <2>4 DEF Exec
  <2>6. FoundInCache(execs[i])'
    BY <2>1, <2>2, <2>3, <2>5 DEF FoundInCache, Cached
  <2>7. \A k \in DOMAIN execs : k # i => execs'[k] = runs[k]
    BY <1>a, <2>4
  <2>8. DOMAIN execs' = DOMAIN runs
    BY <1>a, <2>4
  <2>9. QED
    BY <1>a, <1>b, <2>2, <2>6, <2>7, <2>8 DEF RunsAreCached, FoundInCache, Cached
<1>4a. ASSUME NEW i \in DOMAIN execs, ReadFails(i) PROVE RunsAreCached(execs, stale)'
  <2>1. execs[i] \in Exec /\ execs[i].val = 0
    BY <1>4a, ExecType DEF ReadFails, IsNext, SoundExec
  <2>2. root' = root /\ data' = data /\ stale' = stale
    BY <1>4a DEF ReadFails, entityVars
  <2>3. FoundInCache(execs[i])
    BY DEF CacheInv, RunsAreCached
  <2>4. execs' = [execs EXCEPT ![i] = [execs[i] EXCEPT !.step = "failed", !.ptr = Missing]]
    BY <1>4a DEF ReadFails
  <2>5. /\ execs'[i].op = execs[i].op /\ execs'[i].ptr = Missing
        /\ execs'[i].step = "failed" /\ execs'[i].policy = execs[i].policy
    BY <2>1, <2>4 DEF Exec
  <2>6. FoundInCache(execs[i])'
    BY <2>2, <2>3, <2>5 DEF FoundInCache, Cached
  <2>7. \A k \in DOMAIN execs : k # i => execs'[k] = runs[k]
    BY <1>a, <2>4
  <2>8. DOMAIN execs' = DOMAIN runs
    BY <1>a, <2>4
  <2>9. QED
    BY <1>a, <1>b, <2>2, <2>6, <2>7, <2>8 DEF RunsAreCached, FoundInCache, Cached
<1>5. ASSUME NEW i \in DOMAIN execs, FinishExec(i) PROVE RunsAreCached(execs, stale)'
  <2>1. PICK left : left = RemoveAt(runs, i)
    OBVIOUS
  <2>2. /\ left \in Seq(SoundExec) /\ Len(left) = Len(runs) - 1
        /\ \A k \in 1 .. Len(runs) - 1 : left[k] = IF k < i THEN runs[k] ELSE runs[k + 1]
    BY <1>5, <1>a, <1>c, <2>1, RemoveAtProperties
  <2>3. \A k \in DOMAIN left : \E j \in DOMAIN runs : left[k] = runs[j]
    BY <1>c, <2>2, LenProperties
  <2>4. RunsAreCached(left, keys)'
    BY <1>b, <2>3 DEF RunsAreCached
  <2>5. Flush(left, keys, mutating)
    BY <1>5, <1>a, <2>1 DEF FinishExec
  <2>6. QED
    BY <1>c, <2>2, <2>4, <2>5, FlushCached
<1>6. ASSUME NEW o \in Op, NEW e \in Entity, NetResult(o, e)
      PROVE  RunsAreCached(execs, stale)'
  <2>1. PICK more : more = IF changeSubs[o] = {} THEN Append(runs, NewExec(o, "network-only"))
                                                 ELSE runs
    OBVIOUS
  <2>2. NewExec(o, "network-only") \in SoundExec
    BY NewExecType DEF Policy
  <2>3. FoundInCache(NewExec(o, "network-only"))'
    BY NewIsFound
  <2>4. more \in Seq(SoundExec)
    BY <1>c, <2>1, <2>2, AppendProperties
  <2>5. \A k \in DOMAIN more : (k \in DOMAIN runs /\ more[k] = runs[k])
                                 \/ more[k] = NewExec(o, "network-only")
    BY <1>c, <2>1, <2>2, <2>4, AppendProperties, LenProperties
  <2>6. RunsAreCached(more, keys)'
    BY <1>b, <2>3, <2>5 DEF RunsAreCached
  <2>7. Flush(more, keys, mutating)
    BY <1>6, <1>a, <2>1 DEF NetResult
  <2>8. QED
    BY <1>c, <2>4, <2>6, <2>7, FlushCached
<1>7. ASSUME NEW o \in Op, NetError(o) PROVE RunsAreCached(execs, stale)'
  BY <1>7, <1>a, <1>b, <1>c, FlushCached DEF NetError
<1>8. CASE EndMutation
  BY <1>8, <1>a, <1>b, <1>c, FlushCached DEF EndMutation
<1>9. ASSUME NEW t \in Table, OnTableRowUpdate(t) PROVE RunsAreCached(execs, stale)'
  <2>1. PICK more : more = keys \cup Matches(Head(updates[t]))
    OBVIOUS
  <2>2. more \in SUBSET Op
    BY <1>c, <2>1 DEF Matches
  <2>3. \A o \in more \ keys : Cached(o)'
    BY <1>c, <2>1, StillCached DEF Matches, CacheInv, WatchedAreCached
  <2>4. RunsAreCached(runs, more)'
    BY <1>b, <2>3 DEF RunsAreCached
  <2>5. Flush(runs, more, mutating)
    BY <1>9, <1>a, <2>1 DEF OnTableRowUpdate
  <2>6. QED
    BY <1>c, <2>2, <2>4, <2>5, FlushCached
<1>10. CASE UNCHANGED <<execs, stale>>
  BY <1>10, <1>a, <1>b DEF RunsAreCached
<1>11. QED
  BY <1>1, <1>2, <1>3, <1>4, <1>4a, <1>5, <1>6, <1>7, <1>8, <1>9, <1>10
     DEF Next, Execution, NetAnswer, UpsertQuery, BeginMutation, PatchEntity, CleanEntity,
         CreateTriggers, vars

(* The oldest result that is being persisted, and the others.              *)
LEMMA HeadOfPersists ==
    ASSUME TypeInv, UpsertQuery
    PROVE  /\ Head(persists) = persists[1] /\ 1 \in DOMAIN persists
           /\ persists[1] \in [op : Op, ptr : Entity]
           /\ RootOf[persists[1].op] \in Query /\ persists[1].ptr # Missing
           /\ Len(persists) \in Nat /\ DOMAIN persists = 1 .. Len(persists)
           /\ DOMAIN persists' = 1 .. Len(persists) - 1
           /\ \A k \in DOMAIN persists' :
                 k + 1 \in DOMAIN persists /\ persists'[k] = persists[k + 1]
<1>1. persists \in Seq([op : Op, ptr : Entity]) /\ persists # <<>> /\ persists' = Tail(persists)
  BY DEF TypeInv, TypeOK, UpsertQuery
<1>2. /\ Len(persists) \in Nat \ {0} /\ DOMAIN persists = 1 .. Len(persists)
      /\ persists[1] \in [op : Op, ptr : Entity]
  <2>1. Len(persists) \in Nat \ {0} /\ DOMAIN persists = 1 .. Len(persists)
    BY <1>1, EmptySeq, LenProperties
  <2>2. 1 \in 1 .. Len(persists)
    BY <2>1
  <2>3. QED
    BY <1>1, <2>1, <2>2, ElementOfSeq
<1>3. /\ persists' \in Seq([op : Op, ptr : Entity]) /\ Len(persists') = Len(persists) - 1
      /\ \A k \in 1 .. Len(persists') : persists'[k] = persists[k + 1]
  BY <1>1, HeadTailProperties
<1>4. DOMAIN persists' = 1 .. Len(persists')
  BY <1>3, LenProperties
<1>5. Head(persists) = persists[1]
  BY <1>1
<1>6. QED
  BY <1>2, <1>3, <1>4, <1>5, ConstantsAssumption

LEMMA PointersCached == TypeInv /\ CacheInv /\ [Next]_vars => PointersOK'
<1> SUFFICES ASSUME TypeInv, CacheInv, [Next]_vars PROVE PointersOK'
  OBVIOUS
<1>a. /\ root \in [Query -> Entity \cup {Missing}]
      /\ data \in [Entity -> Nat] /\ base \in [Entity -> Nat] /\ clock \in Nat
      /\ persists \in Seq([op : Op, ptr : Entity])
      /\ \A k \in DOMAIN persists : persists[k].ptr \in Entity
  <2>1. persists \in Seq([op : Op, ptr : Entity])
    BY DEF TypeInv, TypeOK
  <2>2. \A k \in DOMAIN persists : persists[k] \in [op : Op, ptr : Entity]
    BY <2>1, LenProperties, ElementOfSeq
  <2>3. QED
    BY <2>1, <2>2 DEF TypeInv, TypeOK
<1>b. /\ \A q \in Query : root[q] # Missing => root[q] \in Entity /\ data[root[q]] # 0
      /\ \A e \in Entity : base[e] # 0 => data[e] # 0
      /\ \A k \in DOMAIN persists : data[persists[k].ptr] # 0
      /\ \A e \in Entity : data[e] # 0 => data'[e] # 0
  BY <1>a, CacheGrows DEF CacheInv, PointersOK
<1>1. CASE UpsertQuery
  <2>1. data' = data /\ base' = base
    BY <1>1 DEF UpsertQuery, entityVars
  <2>2. root' = [root EXCEPT ![RootOf[persists[1].op]] = persists[1].ptr]
    BY <1>1, HeadOfPersists DEF UpsertQuery
  <2>3. \A q \in Query : root'[q] = root[q] \/ root'[q] = persists[1].ptr
    BY <1>a, <2>2
  <2>4. \A q \in Query : root'[q] # Missing => data'[root'[q]] # 0
    BY <1>1, <1>b, <2>1, <2>3, HeadOfPersists
  <2>5. \A k \in DOMAIN persists' : data'[persists'[k].ptr] # 0
    BY <1>1, <1>b, <2>1, HeadOfPersists
  <2>6. QED
    BY <1>b, <2>1, <2>4, <2>5 DEF PointersOK
<1>2. ASSUME NEW o \in Op, NEW e \in Entity, NetResult(o, e) PROVE PointersOK'
  <2>1. root' = root /\ persists' = Append(persists, [op |-> o, ptr |-> e])
    BY <1>2 DEF NetResult
  <2>2. /\ clock + 1 # 0
        /\ data' = IF base[e] = 0 THEN [data EXCEPT ![e] = clock + 1] ELSE data
        /\ base' = IF base[e] = 0 THEN base ELSE [base EXCEPT ![e] = clock + 1]
    BY <1>2, <1>a DEF NetResult, UpsertEntity
  <2>3. data'[e] # 0
    BY <1>a, <1>b, <2>2
  <2>4. \A g \in Entity : base'[g] # 0 => data'[g] # 0
    BY <1>a, <1>b, <2>2
  <2>5. \A k \in DOMAIN persists' : data'[persists'[k].ptr] # 0
    <3>1. [op |-> o, ptr |-> e] \in [op : Op, ptr : Entity]
      OBVIOUS
    <3>2. \A k \in DOMAIN persists' : (k \in DOMAIN persists /\ persists'[k] = persists[k])
                                        \/ persists'[k] = [op |-> o, ptr |-> e]
      BY <1>a, <2>1, <3>1, AppendProperties, LenProperties
    <3>3. QED
      BY <1>a, <1>b, <2>3, <3>2
  <2>6. QED
    BY <1>b, <2>1, <2>4, <2>5 DEF PointersOK
<1>3. ASSUME NEW e \in Entity, PatchEntity(e) PROVE PointersOK'
  <2>1. root' = root /\ persists' = persists /\ clock + 1 # 0
    BY <1>3, <1>a DEF PatchEntity
  <2>2. \A g \in Entity : base'[g] # 0 => data'[g] # 0
    BY <1>3, <1>a, <1>b, <2>1 DEF PatchEntity
  <2>3. QED
    BY <1>a, <1>b, <2>1, <2>2 DEF PointersOK
<1>4. ASSUME NEW e \in Entity, CleanEntity(e) PROVE PointersOK'
  <2>1. root' = root /\ persists' = persists
    BY <1>4 DEF CleanEntity
  <2>2. \A g \in Entity : base'[g] # 0 => data'[g] # 0
    BY <1>4, <1>a, <1>b DEF CleanEntity
  <2>3. QED
    BY <1>a, <1>b, <2>1, <2>2 DEF PointersOK
<1>5. CASE UNCHANGED <<root, data, base, persists>>
  BY <1>5, <1>b DEF PointersOK
<1>6. QED
  BY <1>1, <1>2, <1>3, <1>4, <1>5
     DEF Next, Execution, NetAnswer, Dispatch, Teardown, ReadRoot, ReadEntity, ReadFails,
         FinishExec, NetError, BeginMutation, EndMutation, CreateTriggers, OnTableRowUpdate, entityVars, vars

(* The value of the last step of a run that found its root, and of every   *)
(* run with cache-only.                                                    *)
LEMMA FinishedIsData ==
    ASSUME TypeInv, CacheInv, NEW i \in DOMAIN execs, execs[i].step = "finish",
           execs[i].val # 0 \/ execs[i].policy = "cache-only"
    PROVE  execs[i].val # 0 /\ execs[i].ptr # Missing /\ Cached(execs[i].op)
<1>1. FoundInCache(execs[i])
  BY DEF CacheInv, RunsAreCached
<1>2. execs[i].val # 0 => execs[i].ptr # Missing
  BY ExecType DEF SoundExec
<1>3. QED
  BY <1>1, <1>2 DEF FoundInCache

LEMMA WatchedCached == TypeInv /\ CacheInv /\ [Next]_vars => WatchedAreCached'
<1> SUFFICES ASSUME TypeInv, CacheInv, [Next]_vars, NEW o \in Op,
                    changeSubs'[o] # {}
             PROVE  Cached(o)'
  BY DEF WatchedAreCached
<1>a. changeSubs \in [Op -> SUBSET Row] /\ (changeSubs[o] # {} => Cached(o))
  BY DEF TypeInv, TypeOK, CacheInv, WatchedAreCached
<1>1. ASSUME NEW i \in DOMAIN execs, FinishExec(i), changeSubs' # changeSubs
      PROVE  Cached(o)
  <2>1. execs[i].val # 0 /\ execs[i].step = "finish"
    BY <1>1, ExecType DEF FinishExec, IsNext, SoundExec
  <2>2. Cached(execs[i].op) /\ execs[i].op \in Op
    BY <2>1, FinishedIsData, ExecType
  <2>3. changeSubs' = [changeSubs EXCEPT ![execs[i].op] = Rows(execs[i])]
    BY <1>1, <2>1 DEF FinishExec, Watch
  <2>4. QED
    BY <1>a, <2>2, <2>3
<1>2. ASSUME NEW p \in Op, Teardown(p) PROVE Cached(o)
  BY <1>2, <1>a DEF Teardown
<1>3. Cached(o)
  BY <1>a, <1>1, <1>2
     DEF Next, Execution, NetAnswer, Dispatch, ReadRoot, ReadEntity, ReadFails, NetResult, NetError,
         UpsertQuery, BeginMutation, PatchEntity, EndMutation, CleanEntity, CreateTriggers,
         OnTableRowUpdate, watchVars, linkVars, vars
<1>4. QED
  BY <1>3, StillCached

(* A step shows data or nothing new; it takes data away only when the      *)
(* operation is torn down or a re-execution has failed.                    *)
FailedRun(o) ==
    \E i \in DOMAIN execs : /\ execs[i].op = o /\ execs[i].policy = "cache-only"
                            /\ execs[i].step = "failed"

LEMMA ShowsData ==
    ASSUME TypeInv, CacheInv, [Next]_vars, NEW o \in Op
    PROVE  \/ shown'[o] = shown[o]
           \/ shown'[o].val # 0 /\ shown'[o].ptr \in Entity
           \/ shown'[o].val = 0 /\ (o \notin live' \/ FailedRun(o))
<1>a. shown \in [Op -> Result] /\ clock \in Nat
  BY DEF TypeInv, TypeOK
<1>1. ASSUME NEW i \in DOMAIN execs, FinishExec(i)
      PROVE  \/ shown'[o] = shown[o]
             \/ shown'[o].val # 0 /\ shown'[o].ptr \in Entity
             \/ shown'[o].val = 0 /\ FailedRun(o)
  <2>1. execs[i].step = "finish" \/ execs[i].step = "failed"
    BY <1>1 DEF FinishExec, IsNext
  <2>2. execs[i].op \in Op /\ (execs[i].ptr # Missing => execs[i].ptr \in Entity)
        /\ (execs[i].step = "failed" => execs[i].val = 0)
    BY ExecType DEF SoundExec
  <2>3. CASE execs[i].step = "finish" /\ (execs[i].val # 0 \/ execs[i].policy = "cache-only")
    <3>1. execs[i].val # 0 /\ execs[i].ptr \in Entity
      BY <2>2, <2>3, FinishedIsData
    <3>2. QED
      BY <1>1, <1>a, <2>2, <2>3, <3>1 DEF FinishExec
  <2>4. CASE execs[i].step = "failed" /\ execs[i].policy = "cache-only"
    <3>1. shown'[o] = shown[o] \/ (shown'[o] = ErrorResult /\ execs[i].op = o)
      BY <1>1, <1>a, <2>2, <2>4 DEF FinishExec
    <3>2. QED
      BY <2>4, <3>1 DEF FailedRun, ErrorResult
  <2>5. CASE ~ (execs[i].val # 0 \/ execs[i].policy = "cache-only")
    BY <1>1, <2>5 DEF FinishExec
  <2>6. QED
    BY <2>1, <2>2, <2>3, <2>4, <2>5
<1>2. ASSUME NEW p \in Op, NEW e \in Entity, NetResult(p, e)
      PROVE  shown'[o] = shown[o] \/ (shown'[o].val # 0 /\ shown'[o].ptr \in Entity)
  <2>1. clock + 1 # 0
    BY <1>a
  <2>2. QED
    BY <1>2, <1>a, <2>1 DEF NetResult
<1>3. ASSUME NEW p \in Op, Teardown(p)
      PROVE  shown'[o] = shown[o] \/ (shown'[o].val = 0 /\ o \notin live')
  <2>1. shown' = [shown EXCEPT ![p] = NoResult] /\ live' = live \ {p}
    BY <1>3 DEF Teardown
  <2>2. CASE o = p
    BY <1>a, <2>1, <2>2 DEF NoResult
  <2>3. CASE o # p
    BY <1>a, <2>1, <2>3
  <2>4. QED
    BY <2>2, <2>3
<1>4. CASE shown' = shown
  BY <1>4
<1>5. QED
  BY <1>1, <1>2, <1>3, <1>4
     DEF Next, Execution, NetAnswer, Dispatch, ReadRoot, ReadEntity, ReadFails, NetError,
         UpsertQuery, BeginMutation, PatchEntity, EndMutation, CleanEntity, CreateTriggers,
         OnTableRowUpdate, vars

LEMMA NextCached == TypeInv /\ CacheInv /\ [Next]_vars => CacheInv'
<1> SUFFICES ASSUME TypeInv, CacheInv, [Next]_vars PROVE CacheInv'
  OBVIOUS
<1>1. ShownIsData'
  BY ShowsData DEF CacheInv, ShownIsData
<1>2. QED
  BY <1>1, ExecsCached, PointersCached, WatchedCached DEF CacheInv

(* A root field never points to an entity that is not in the cache.        *)
THEOREM RootsDoNotDangle == Spec => []NoDanglingRoot
<1>1. CacheInv => NoDanglingRoot
  BY DEF CacheInv, PointersOK, NoDanglingRoot
<1>2. QED
  BY <1>1, InitTyped, NextTyped, InitCached, NextCached, PTL DEF Spec

(* The data a live query shows is never replaced by the error of a missing *)
(* row: whatever happens between two executions, or between the statements *)
(* of one, a re-execution ends in an error only if a read of it failed.    *)
THEOREM ErrorsAreOfFailedReads == Spec => OnlyFailedReadsShowErrors
<1>1. ASSUME TypeInv, CacheInv, [Next]_vars
      PROVE  [\A o \in Op : shown[o].val # 0 /\ o \in live' /\ shown'[o].val = 0 =>
                 \E i \in DOMAIN execs : /\ execs[i].op = o /\ execs[i].policy = "cache-only"
                                         /\ execs[i].step = "failed"]_vars
  BY <1>1, ShowsData DEF FailedRun
<1>2. QED
  BY <1>1, InitTyped, NextTyped, InitCached, NextCached, PTL DEF Spec,
     OnlyFailedReadsShowErrors

-----------------------------------------------------------------------------
(* Live operations.                                                        *)

(* At most one run of an operation has not ended, and its operation is live. *)
OneRunEach(runs) ==
    /\ \A i, j \in DOMAIN runs :
          ~ runs[i].ended /\ ~ runs[j].ended /\ runs[i].op = runs[j].op => i = j
    /\ \A i \in DOMAIN runs : ~ runs[i].ended => runs[i].op \in live

(* Nothing is kept of an operation that is not live.                       *)
ForgottenByTeardown ==
    /\ net \subseteq live
    /\ \A o \in Op \ live : shown[o] = NoResult /\ changeSubs[o] = {} /\ lost[o] = {}

LiveInv == OneRunEach(execs) /\ ForgottenByTeardown


LEMMA InitLive == Init => LiveInv
BY DEF Init, LiveInv, OneRunEach, ForgottenByTeardown

LEMMA FlushOneRun ==
    ASSUME live \in SUBSET Op, live' = live, NEW running \in Seq(SoundExec),
           NEW keys \in SUBSET Op, NEW mut, Flush(running, keys, mut), OneRunEach(running)'
    PROVE  OneRunEach(execs)'
<1>1. CASE execs' = running
  BY <1>1 DEF OneRunEach
<1>2. CASE execs' = Reexecutions(keys \cap live)
  <2>1. \A i \in DOMAIN execs' : \E o \in keys \cap live : execs'[i] = NewExec(o, "cache-only")
    BY <1>2, ReexecutionsOf
  <2>2. \A i \in DOMAIN execs' : execs'[i].op \in live'
    BY <2>1 DEF NewExec
  <2>3. \A i, j \in DOMAIN execs' : execs'[i].op = execs'[j].op => i = j
    BY <1>2, ReexecutionsOf
  <2>4. QED
    BY <2>2, <2>3 DEF OneRunEach
<1>3. QED
  BY <1>1, <1>2 DEF Flush

(* A read changes what one run has found, and neither its operation nor    *)
(* whether it has ended.                                                   *)
LEMMA ReadChangesOne ==
    ASSUME TypeInv, NEW i \in DOMAIN execs, ReadRoot(i) \/ ReadEntity(i) \/ ReadFails(i)
    PROVE  /\ DOMAIN execs' = DOMAIN execs
           /\ \A k \in DOMAIN execs : k # i => execs'[k] = execs[k]
           /\ execs'[i].op = execs[i].op /\ execs'[i].ended = execs[i].ended
           /\ ReadRoot(i) =>
                 /\ execs[i].step = "root" /\ execs'[i].val = execs[i].val
                 /\ execs'[i].ptr = root[RootOf[execs[i].op]]
                 /\ execs'[i].step = IF root[RootOf[execs[i].op]] = Missing
                                     THEN "finish" ELSE "entity"
           /\ ReadEntity(i) =>
                 /\ execs[i].step = "entity" /\ execs'[i].ptr = execs[i].ptr
                 /\ execs'[i].val = data[execs[i].ptr] /\ execs'[i].step = "finish"
           /\ ReadFails(i) =>
                 /\ execs[i].step \in {"root", "entity"} /\ execs'[i].step = "failed"
                 /\ execs'[i].ptr = Missing /\ execs'[i].policy = execs[i].policy
<1>1. execs[i] \in Exec
  BY ExecType DEF SoundExec
<1>2. CASE ReadRoot(i)
  <2> DEFINE e == root[RootOf[execs[i].op]]
  <2>1. execs[i].step = "root" /\ ~ ReadEntity(i) /\ execs'[i].step # "failed"
    BY <1>1, <1>2 DEF ReadRoot, ReadEntity, IsNext, Exec
  <2>2. execs' = [execs EXCEPT ![i] = [execs[i] EXCEPT !.ptr = e,
                             !.step = IF e = Missing THEN "finish" ELSE "entity"]]
    BY <1>2 DEF ReadRoot
  <2> HIDE DEF e
  <2>3. ~ ReadFails(i)
    BY <1>1, <2>1 DEF ReadFails, Exec
  <2>4. QED
    BY <1>1, <2>1, <2>2, <2>3 DEF Exec, e
<1>3. CASE ReadEntity(i)
  <2>1. execs[i].step = "entity" /\ ~ ReadRoot(i) /\ execs'[i].step # "failed"
    BY <1>1, <1>3 DEF ReadRoot, ReadEntity, IsNext, Exec
  <2>2. execs' = [execs EXCEPT ![i] = [execs[i] EXCEPT !.val = data[execs[i].ptr],
                                                       !.step = "finish"]]
    BY <1>3 DEF ReadEntity
  <2>3. ~ ReadFails(i)
    BY <1>1, <2>1 DEF ReadFails, Exec
  <2>4. QED
    BY <1>1, <2>1, <2>2, <2>3 DEF Exec
<1>4. CASE ReadFails(i)
  <2>1. execs[i].step \in {"root", "entity"}
    BY <1>4 DEF ReadFails, IsNext
  <2>2. execs' = [execs EXCEPT ![i] = [execs[i] EXCEPT !.step = "failed", !.ptr = Missing]]
    BY <1>4 DEF ReadFails
  <2>3. execs'[i].step = "failed"
    BY <1>1, <2>2 DEF Exec
  <2>4. ~ ReadRoot(i) /\ ~ ReadEntity(i)
    BY <1>1, <2>3 DEF ReadRoot, ReadEntity, Exec
  <2>5. QED
    BY <1>1, <2>1, <2>2, <2>4 DEF Exec
<1>5. QED
  BY <1>2, <1>3, <1>4

LEMMA ExecsOneRun == TypeInv /\ LiveInv /\ [Next]_vars => OneRunEach(execs)'
<1> SUFFICES ASSUME TypeInv, LiveInv, [Next]_vars PROVE OneRunEach(execs)'
  OBVIOUS
<1>a. PICK runs : runs = execs
  OBVIOUS
<1>b. /\ runs \in Seq(SoundExec) /\ live \in SUBSET Op /\ stale \in SUBSET Op
      /\ \A i \in DOMAIN runs : runs[i] \in Exec
      /\ Len(runs) \in Nat /\ DOMAIN runs = 1 .. Len(runs)
  BY <1>a, ExecType, LenProperties DEF TypeInv, TypeOK, SoundExec
<1>c. /\ \A i, j \in DOMAIN runs :
            ~ runs[i].ended /\ ~ runs[j].ended /\ runs[i].op = runs[j].op => i = j
      /\ \A i \in DOMAIN runs : ~ runs[i].ended => runs[i].op \in live
  BY <1>a DEF LiveInv, OneRunEach
<1>1. ASSUME NEW o \in Op, NEW p \in Policy, Dispatch(o, p) PROVE OneRunEach(execs)'
  <2>1. live' = live \cup {o}
    BY <1>1 DEF Dispatch
  <2>2. CASE execs' = runs
    BY <1>c, <2>1, <2>2 DEF OneRunEach
  <2>3. CASE execs' = Append(runs, NewExec(o, p))
    <3>1. /\ DOMAIN execs' = 1 .. Len(runs) + 1
          /\ execs'[Len(runs) + 1] = NewExec(o, p)
          /\ \A i \in 1 .. Len(runs) : execs'[i] = runs[i]
      BY <1>b, <2>3, NewExecType, AppendProperties, LenProperties
    <3>2. \A i \in DOMAIN runs : ~ runs[i].ended => runs[i].op # o
      BY <1>1, <1>a, <1>c DEF Dispatch
    <3>3. NewExec(o, p).op = o
      BY DEF NewExec
    <3>4. \A i, j \in DOMAIN execs' :
             ~ execs'[i].ended /\ ~ execs'[j].ended /\ execs'[i].op = execs'[j].op => i = j
      BY <1>b, <1>c, <3>1, <3>2, <3>3
    <3>5. \A i \in DOMAIN execs' : ~ execs'[i].ended => execs'[i].op \in live'
      BY <1>b, <1>c, <2>1, <3>1, <3>3
    <3>6. QED
      BY <3>4, <3>5 DEF OneRunEach
  <2>4. QED
    BY <1>1, <1>a, <2>2, <2>3 DEF Dispatch
<1>2. ASSUME NEW o \in Op, Teardown(o) PROVE OneRunEach(execs)'
  <2>1. DOMAIN execs' = DOMAIN runs /\ live' = live \ {o}
    BY <1>2, <1>a DEF Teardown
  <2>2. ASSUME NEW i \in DOMAIN runs
        PROVE  /\ execs'[i].op = runs[i].op
               /\ ~ execs'[i].ended => ~ runs[i].ended /\ runs[i].op # o
    <3>1. execs'[i] = IF runs[i].op = o THEN [runs[i] EXCEPT !.ended = TRUE] ELSE runs[i]
      BY <1>2, <1>a DEF Teardown
    <3>2. QED
      BY <1>b, <3>1 DEF Exec
  <2>3. QED
    BY <1>c, <2>1, <2>2 DEF OneRunEach
<1>3. ASSUME NEW i \in DOMAIN execs, ReadRoot(i) \/ ReadEntity(i) \/ ReadFails(i)
      PROVE  OneRunEach(execs)'
  <2>1. DOMAIN execs' = DOMAIN runs /\ live' = live
    BY <1>3, <1>a DEF ReadRoot, ReadEntity, ReadFails, watchVars
  <2>2. ASSUME NEW k \in DOMAIN runs
        PROVE  execs'[k].op = runs[k].op /\ execs'[k].ended = runs[k].ended
    BY <1>3, <1>a, ReadChangesOne
  <2>3. QED
    BY <1>c, <2>1, <2>2 DEF OneRunEach
<1>4. ASSUME NEW i \in DOMAIN execs, FinishExec(i) PROVE OneRunEach(execs)'
  <2>1. PICK left, keys, mut : left = RemoveAt(runs, i) /\ keys = stale /\ mut = mutating
    OBVIOUS
  <2>2. /\ left \in Seq(SoundExec) /\ Len(left) = Len(runs) - 1
        /\ \A k \in 1 .. Len(runs) - 1 : left[k] = IF k < i THEN runs[k] ELSE runs[k + 1]
    BY <1>4, <1>a, <1>b, <2>1, RemoveAtProperties
  <2>3. DOMAIN left = 1 .. Len(runs) - 1
    BY <2>2, LenProperties
  <2>4. live' = live
    BY <1>4 DEF FinishExec
  <2>5. OneRunEach(left)'
    <3>1. \A j \in DOMAIN left :
             left[j] = runs[IF j < i THEN j ELSE j + 1]
               /\ (IF j < i THEN j ELSE j + 1) \in DOMAIN runs
      BY <1>a, <1>b, <1>4, <2>2, <2>3
    <3>2. \A j, k \in DOMAIN left :
             (IF j < i THEN j ELSE j + 1) = (IF k < i THEN k ELSE k + 1) => j = k
      BY <1>a, <1>b, <2>3
    <3>3. \A j, k \in DOMAIN left :
             ~ left[j].ended /\ ~ left[k].ended /\ left[j].op = left[k].op => j = k
      BY <1>c, <3>1, <3>2
    <3>4. \A j \in DOMAIN left : ~ left[j].ended => left[j].op \in live'
      BY <1>c, <2>4, <3>1
    <3>5. QED
      BY <3>3, <3>4 DEF OneRunEach
  <2>6. Flush(left, keys, mut)
    BY <1>4, <1>a, <2>1 DEF FinishExec
  <2>7. QED
    BY <1>b, <2>1, <2>2, <2>4, <2>5, <2>6, FlushOneRun
<1>5. ASSUME NEW o \in Op, NEW e \in Entity, NetResult(o, e) PROVE OneRunEach(execs)'
  <2>1. PICK more, keys, mut :
           /\ more = IF changeSubs[o] = {} THEN Append(runs, NewExec(o, "network-only")) ELSE runs
           /\ keys = stale /\ mut = mutating
    OBVIOUS
  <2>2. NewExec(o, "network-only") \in SoundExec /\ NewExec(o, "network-only").ended
    BY NewExecType DEF Policy, NewExec
  <2>3. more \in Seq(SoundExec)
    BY <1>b, <2>1, <2>2, AppendProperties
  <2>4. \A k \in DOMAIN more : (k \in DOMAIN runs /\ more[k] = runs[k]) \/ more[k].ended
    BY <1>b, <2>1, <2>2, <2>3, AppendProperties, LenProperties
  <2>5. live' = live
    BY <1>5 DEF NetResult, watchVars
  <2>6. OneRunEach(more)'
    BY <1>c, <2>4, <2>5 DEF OneRunEach
  <2>7. Flush(more, keys, mut)
    BY <1>5, <1>a, <2>1 DEF NetResult
  <2>8. QED
    BY <1>b, <2>1, <2>3, <2>5, <2>6, <2>7, FlushOneRun
<1>6. CASE live' = live /\ \E keys \in SUBSET Op, mut \in {TRUE, FALSE, mutating} :
                             Flush(execs, keys, mut)
  <2>1. OneRunEach(runs)'
    BY <1>c, <1>6 DEF OneRunEach
  <2>2. QED
    BY <1>6, <1>a, <1>b, <2>1, FlushOneRun
<1>7. ASSUME NEW o \in Op, NetError(o) PROVE OneRunEach(execs)'
  BY <1>7, <1>6, <1>b DEF NetError, watchVars
<1>8. CASE EndMutation
  BY <1>8, <1>6, <1>b DEF EndMutation, watchVars
<1>9. ASSUME NEW t \in Table, OnTableRowUpdate(t) PROVE OneRunEach(execs)'
  <2>1. stale \cup Matches(Head(updates[t])) \in SUBSET Op
    BY <1>b DEF Matches
  <2>2. QED
    BY <1>9, <1>6, <2>1 DEF OnTableRowUpdate, watchVars
<1>10. CASE UNCHANGED <<execs, live>>
  BY <1>10, <1>a, <1>c DEF OneRunEach
<1>11. QED
  BY <1>1, <1>2, <1>3, <1>4, <1>5, <1>7, <1>8, <1>9, <1>10
     DEF Next, Execution, NetAnswer, UpsertQuery, BeginMutation, PatchEntity, CleanEntity,
         CreateTriggers, watchVars, vars

(* Only what is live loses rows.                                           *)
LEMMA NotifyForgets ==
    ASSUME TypeInv, NEW r, NEW by, Notify(r, by)
    PROVE  \A o \in Op \ live : lost'[o] = lost[o]
BY DEF Notify

LEMMA NextForgets == TypeInv /\ LiveInv /\ [Next]_vars => ForgottenByTeardown'
<1> SUFFICES ASSUME TypeInv, LiveInv, [Next]_vars PROVE ForgottenByTeardown'
  OBVIOUS
<1>a. /\ net \subseteq live /\ live \in SUBSET Op
      /\ shown \in [Op -> Result] /\ changeSubs \in [Op -> SUBSET Row]
      /\ lost \in [Op -> SUBSET Row]
      /\ \A o \in Op \ live : shown[o] = NoResult /\ changeSubs[o] = {} /\ lost[o] = {}
      /\ \A i \in DOMAIN execs : execs[i].op \in Op /\ (~ execs[i].ended => execs[i].op \in live)
  BY ExecType DEF LiveInv, ForgottenByTeardown, OneRunEach, TypeInv, TypeOK
<1>1. ASSUME NEW o \in Op, NEW p \in Policy, Dispatch(o, p) PROVE ForgottenByTeardown'
  BY <1>1, <1>a DEF Dispatch, ForgottenByTeardown
<1>2. ASSUME NEW o \in Op, Teardown(o) PROVE ForgottenByTeardown'
  <2>1. /\ live' = live \ {o} /\ net' = net \ {o}
        /\ shown' = [shown EXCEPT ![o] = NoResult]
        /\ changeSubs' = [changeSubs EXCEPT ![o] = {}]
        /\ lost' = [lost EXCEPT ![o] = {}]
    BY <1>2 DEF Teardown
  <2>2. ASSUME NEW q \in Op \ live'
        PROVE  shown'[q] = NoResult /\ changeSubs'[q] = {} /\ lost'[q] = {}
    <3>1. CASE q = o
      BY <1>a, <2>1, <3>1
    <3>2. CASE q # o
      BY <1>a, <2>1, <2>2, <3>2
    <3>3. QED
      BY <3>1, <3>2
  <2>3. QED
    BY <1>a, <2>1, <2>2 DEF ForgottenByTeardown
<1>3. ASSUME NEW i \in DOMAIN execs, ReadRoot(i) \/ ReadEntity(i) \/ ReadFails(i)
      PROVE  ForgottenByTeardown'
  BY <1>3, <1>a
     DEF ReadRoot, ReadEntity, ReadFails, HasRead, ForgottenByTeardown, linkVars, watchVars
<1>4. ASSUME NEW i \in DOMAIN execs, FinishExec(i) PROVE ForgottenByTeardown'
  <2>1. live' = live /\ net' \subseteq live
    BY <1>4, <1>a DEF FinishExec, Forwards
  <2>2. ASSUME NEW q \in Op \ live
        PROVE  shown'[q] = NoResult /\ changeSubs'[q] = {} /\ lost'[q] = {}
    <3>1. shown'[q] = shown[q]
      BY <1>4, <1>a DEF FinishExec
    <3>2. changeSubs'[q] = changeSubs[q] /\ lost'[q] = lost[q]
      BY <1>4, <1>a DEF FinishExec, Watch
    <3>3. QED
      BY <1>a, <3>1, <3>2
  <2>3. QED
    BY <2>1, <2>2 DEF ForgottenByTeardown
<1>5. ASSUME NEW o \in Op, NEW e \in Entity, NetResult(o, e) PROVE ForgottenByTeardown'
  <2>1. o \in live /\ live' = live /\ net' = net \ {o} /\ changeSubs' = changeSubs
    BY <1>5, <1>a DEF NetResult, watchVars
  <2>2. ASSUME NEW q \in Op \ live PROVE shown'[q] = shown[q] /\ lost'[q] = lost[q]
    <3>1. shown'[q] = shown[q]
      BY <1>5, <1>a, <2>1 DEF NetResult
    <3>2. lost'[q] = lost[q]
      BY <1>5, <1>a, <2>1, NotifyForgets DEF NetResult, UpsertEntity
    <3>3. QED
      BY <3>1, <3>2
  <2>3. QED
    BY <1>a, <2>1, <2>2 DEF ForgottenByTeardown
<1>6. CASE UpsertQuery
  BY <1>6, <1>a, NotifyForgets DEF UpsertQuery, Silent, ForgottenByTeardown, watchVars
<1>7. ASSUME NEW e \in Entity, PatchEntity(e) \/ CleanEntity(e) PROVE ForgottenByTeardown'
  BY <1>7, <1>a, NotifyForgets DEF PatchEntity, CleanEntity, ForgottenByTeardown,
     watchVars
<1>8. ASSUME NEW o \in Op, NetError(o) PROVE ForgottenByTeardown'
  BY <1>8, <1>a DEF NetError, ForgottenByTeardown, watchVars
<1>9. CASE UNCHANGED <<net, live, shown, changeSubs, lost>>
  BY <1>9, <1>a DEF ForgottenByTeardown
<1>10. QED
  BY <1>1, <1>2, <1>3, <1>4, <1>5, <1>6, <1>7, <1>8, <1>9
     DEF Next, Execution, NetAnswer, BeginMutation, EndMutation, CreateTriggers,
         OnTableRowUpdate, linkVars, watchVars, vars

LEMMA NextLive == TypeInv /\ LiveInv /\ [Next]_vars => LiveInv'
BY ExecsOneRun, NextForgets DEF LiveInv
=============================================================================
