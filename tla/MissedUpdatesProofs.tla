------------------------ MODULE MissedUpdatesProofs ------------------------
(***************************************************************************)
(* That a live query misses no row update (NoMissedUpdate).  The invariant *)
(* follows each change of a row from the write to the query that depends   *)
(* on it: it is a row update on its way, a stale key, or one of the writes *)
(* the code cannot report (the history variable lost).  It holds of what   *)
(* is shown and of what a run has read so far, since the one becomes the   *)
(* other.                                                                  *)
(***************************************************************************)
EXTENDS LiveQueriesProofs

(* A row update of r by another operation is on its way.                   *)
Coming(o, r) ==
    \E i \in DOMAIN updates[TableOf(r)] :
        updates[TableOf(r)][i].row = r /\ updates[TableOf(r)][i].by # o

(* A change of r is known to be lost, or o will hear of it.                *)
Tracked(o, r) == r \in lost[o] \/ (r \in changeSubs[o] /\ Coming(o, r))

HasReadRow(x, r) ==
    \/ r = RootOf[x.op] /\ x.step \in {"entity", "finish"}
    \/ r = x.ptr /\ r # Missing /\ x.step = "finish"

(* A row that changed since a run read it is tracked, or the operation is  *)
(* stale already (keys).                                                   *)
RunTracked(x, keys) ==
    ~ x.ended => \A r \in Row :
        HasReadRow(x, r) /\ Now(r) # Seen(x, r) => x.op \in keys \/ Tracked(x.op, r)

(* A run that will replace what is shown of row r by what it has read, or  *)
(* by an error: a run with cache-only always does, any other one only of   *)
(* what it has read so far.                                                *)
Answers(x, r) ==
    /\ ~ x.ended
    /\ \/ x.policy = "cache-only"
       \/ x.step = "entity" /\ r = RootOf[x.op]
       \/ x.step = "finish" /\ x.ptr # Missing

(* The root of what o shows is the last one of o that will be written.     *)
BeingPersisted(o) ==
    \E k \in DOMAIN persists :
        /\ persists[k].op = o /\ persists[k].ptr = shown[o].ptr
        /\ \A j \in DOMAIN persists : persists[j].op = o => j <= k

(* A row that changed since it was shown is tracked, or the operation is   *)
(* stale, about to be answered again, or about to write the row itself.    *)
ShownTracked(o, runs, keys) ==
    \A r \in Row :
        (r = RootOf[o] \/ r = shown[o].ptr) /\ Now(r) # Seen(shown[o], r) =>
            \/ o \in keys
            \/ Tracked(o, r)
            \/ r = RootOf[o] /\ BeingPersisted(o)
            \/ \E i \in DOMAIN runs : runs[i].op = o /\ Answers(runs[i], r)

RunsTracked(runs, keys) ==
    /\ \A i \in DOMAIN runs : RunTracked(runs[i], keys)
    /\ \A o \in live : shown[o].val # 0 => ShownTracked(o, runs, keys)

(* A result with a root that is not in the cache is still being persisted. *)
RootIsComing ==
    \A o \in live : shown[o].val # 0 /\ ~ Cached(o) => BeingPersisted(o)

TrackInv == RunsTracked(execs, stale) /\ RootIsComing

(* All that the proof of NoMissedUpdate rests on.                          *)
Known == TypeInv /\ CacheInv /\ LiveInv /\ TrackInv

LEMMA InitTracked == Init => TrackInv
BY DEF Init, TrackInv, RunsTracked, RootIsComing

(* The invariant is strong enough.                                         *)
LEMMA TrackedIsEnough == Known => NoMissedUpdate
<1> SUFFICES ASSUME Known, NEW o \in live, shown[o].val # 0, ~ InHand(o),
                    NEW r \in Outdated(o)
             PROVE  r \in lost[o]
  BY DEF NoMissedUpdate
<1>1. /\ o \in Op /\ shown[o] \in Result /\ RootOf[o] \in Query
      /\ shown[o].ptr \in Entity
  BY ConstantsAssumption DEF Known, TypeInv, TypeOK, CacheInv, ShownIsData
<1>2. r = RootOf[o] \/ r = shown[o].ptr
  BY DEF Outdated
<1>3. r \in Row
  BY <1>1, <1>2 DEF Row, Result
<1>4. Now(r) # Seen(shown[o], r)
  BY DEF Outdated
<1>5. ShownTracked(o, execs, stale)
  BY DEF Known, TrackInv, RunsTracked
<1>6. \/ o \in stale
      \/ Tracked(o, r)
      \/ BeingPersisted(o)
      \/ \E i \in DOMAIN execs : execs[i].op = o /\ Answers(execs[i], r)
  BY <1>2, <1>3, <1>4, <1>5 DEF ShownTracked
<1>7. o \notin stale /\ ~ BeingPersisted(o)
      /\ ~ \E i \in DOMAIN execs : execs[i].op = o /\ Answers(execs[i], r)
  BY DEF InHand, BeingPersisted, Answers
<1>8. ~ (r \in changeSubs[o] /\ Coming(o, r))
  BY DEF InHand, Coming, TableOf, Table
<1>9. QED
  BY <1>6, <1>7, <1>8 DEF Tracked

LEMMA RowTable ==
    ASSUME TypeInv, NEW r \in Row
    PROVE  /\ TableOf(r) \in Table
           /\ updates[TableOf(r)] \in Seq([row : Row, by : Op \cup {Mutation, Missing}])
           /\ Len(updates[TableOf(r)]) \in Nat
           /\ DOMAIN updates[TableOf(r)] = 1 .. Len(updates[TableOf(r)])
<1>1. TableOf(r) \in Table
  BY DEF TableOf, Table
<1>2. updates[TableOf(r)] \in Seq([row : Row, by : Op \cup {Mutation, Missing}])
  BY <1>1 DEF TypeInv, TypeOK
<1>3. QED
  BY <1>1, <1>2, LenProperties

(* A change is tracked for every live operation, and tracks of earlier     *)
(* changes are kept.                                                       *)
LEMMA NotifyTracks ==
    ASSUME TypeInv, NEW r \in Row, NEW by \in Op \cup {Mutation, Missing}, Notify(r, by),
           changeSubs' = changeSubs
    PROVE  /\ \A o \in live : Tracked(o, r)'
           /\ \A o \in Op, q \in Row : Tracked(o, q) => Tracked(o, q)'
<1> DEFINE t == TableOf(r)
           U == [row : Row, by : Op \cup {Mutation, Missing}]
           u == [row |-> r, by |-> by]
<1>a. /\ t \in Table /\ updates \in [Table -> Seq(U)] /\ live \in SUBSET Op
      /\ lost \in [Op -> SUBSET Row] /\ u \in U
  BY RowTable DEF TypeInv, TypeOK
<1>b. updates' = IF triggers[t] = "ready" THEN [updates EXCEPT ![t] = Append(@, u)] ELSE updates
  BY DEF Notify
<1>c. u.row = r /\ u.by = by
  OBVIOUS
<1> HIDE DEF t, U, u
<1>1. /\ Len(updates[t]) \in Nat /\ DOMAIN updates[t] = 1 .. Len(updates[t])
      /\ Append(updates[t], u) \in Seq(U)
      /\ DOMAIN Append(updates[t], u) = 1 .. Len(updates[t]) + 1
      /\ Append(updates[t], u)[Len(updates[t]) + 1] = u
      /\ \A i \in 1 .. Len(updates[t]) : Append(updates[t], u)[i] = updates[t][i]
  BY <1>a, AppendProperties, LenProperties
<1>2. ASSUME NEW o \in live PROVE Tracked(o, r)'
  <2>1. CASE triggers[t] = "ready" /\ r \in changeSubs[o] /\ o # by
    <3>1. updates'[t] = Append(updates[t], u)
      BY <1>a, <1>b, <2>1
    <3>2. /\ Len(updates[t]) + 1 \in DOMAIN updates'[t]
          /\ updates'[t][Len(updates[t]) + 1].row = r
          /\ updates'[t][Len(updates[t]) + 1].by # o
      BY <1>1, <1>c, <2>1, <3>1
    <3>3. QED
      BY <2>1, <3>2 DEF Tracked, Coming, t
  <2>2. CASE ~ (triggers[t] = "ready" /\ r \in changeSubs[o] /\ o # by)
    <3>1. lost'[o] = lost[o] \cup {r}
      BY <1>a, <2>2 DEF Notify, t
    <3>2. QED
      BY <3>1 DEF Tracked
  <2>3. QED
    BY <2>1, <2>2
<1>3. ASSUME NEW o \in Op, NEW q \in Row, Tracked(o, q) PROVE Tracked(o, q)'
  <2>1. lost[o] \subseteq lost'[o]
    BY DEF Notify
  <2>2. ASSUME Coming(o, q) PROVE Coming(o, q)'
    <3>1. TableOf(q) \in Table
      BY DEF TableOf, Table
    <3>2. \A i \in DOMAIN updates[TableOf(q)] :
             i \in DOMAIN updates'[TableOf(q)] /\ updates'[TableOf(q)][i] = updates[TableOf(q)][i]
      <4>1. CASE TableOf(q) = t /\ triggers[t] = "ready"
        BY <1>a, <1>b, <1>1, <4>1
      <4>2. CASE ~ (TableOf(q) = t /\ triggers[t] = "ready")
        BY <1>a, <1>b, <3>1, <4>2
      <4>3. QED
        BY <4>1, <4>2
    <3>3. QED
      BY <2>2, <3>2 DEF Coming
  <2>3. QED
    BY <1>3, <2>1, <2>2 DEF Tracked
<1>4. QED
  BY <1>2, <1>3

LEMMA UpsertTracks ==
    ASSUME TypeInv, NEW o \in Op, NEW e \in Entity, NEW v, UpsertEntity(o, e, v),
           changeSubs' = changeSubs
    PROVE  /\ data' # data => \A p \in live : Tracked(p, e)'
           /\ \A p \in Op, q \in Row : Tracked(p, q) => Tracked(p, q)'
           /\ base[e] # 0 => e \in lost'[o]
<1>1. e \in Row /\ o \in Op \cup {Mutation, Missing} /\ lost \in [Op -> SUBSET Row]
  BY DEF Row, TypeInv, TypeOK
<1>2. CASE base[e] = 0
  BY <1>1, <1>2, NotifyTracks DEF UpsertEntity
<1>3. CASE base[e] # 0
  BY <1>1, <1>3 DEF UpsertEntity, Tracked, Coming
<1>4. QED
  BY <1>2, <1>3

(* A row that a step changes is tracked for every live operation.          *)
LEMMA ChangeIsTracked ==
    ASSUME TypeInv, [Next]_vars, NEW o \in live, NEW r \in Row, Now(r)' # Now(r)
    PROVE  Tracked(o, r)'
<1>a. /\ root \in [Query -> Entity \cup {Missing}] /\ data \in [Entity -> Nat]
      /\ updatedBy \in [Entity -> Op \cup {Mutation, Missing}]
  BY DEF TypeInv, TypeOK
<1>1. CASE UpsertQuery
  <2> DEFINE q == RootOf[persists[1].op]
  <2>1. q \in Query /\ persists[1].op \in Op
    BY <1>1, HeadOfPersists
  <2>2. root' = [root EXCEPT ![q] = persists[1].ptr] /\ data' = data /\ changeSubs' = changeSubs
    BY <1>1, HeadOfPersists DEF UpsertQuery, entityVars, watchVars
  <2> HIDE DEF q
  <2>3. r = q /\ root[q] # persists[1].ptr
    BY <1>a, <2>1, <2>2 DEF Now
  <2>4. Notify(q, persists[1].op)
    BY <1>1, <2>3, HeadOfPersists DEF UpsertQuery, q
  <2>5. QED
    BY <2>1, <2>2, <2>3, <2>4, NotifyTracks
<1>2. ASSUME NEW p \in Op, NEW e \in Entity, NetResult(p, e) PROVE Tracked(o, r)'
  <2>1. root' = root /\ changeSubs' = changeSubs
    BY <1>2 DEF NetResult, watchVars
  <2>2. r = e /\ data' # data
    <3>1. r \notin Query /\ data'[r] # data[r]
      BY <2>1 DEF Now
    <3>2. \A g \in Entity : g # e => data'[g] = data[g]
      BY <1>2, <1>a DEF NetResult, UpsertEntity
    <3>3. QED
      BY <3>1, <3>2 DEF Row
  <2>3. UpsertEntity(p, e, clock + 1)
    BY <1>2 DEF NetResult
  <2>4. QED
    BY <2>1, <2>2, <2>3, UpsertTracks
<1>3. ASSUME NEW e \in Entity, PatchEntity(e) \/ CleanEntity(e) PROVE Tracked(o, r)'
  <2>1. root' = root /\ changeSubs' = changeSubs
    BY <1>3 DEF PatchEntity, CleanEntity, watchVars
  <2>2. r = e
    <3>1. r \notin Query /\ data'[r] # data[r]
      BY <2>1 DEF Now
    <3>2. \A g \in Entity : g # e => data'[g] = data[g]
      BY <1>3, <1>a DEF PatchEntity, CleanEntity
    <3>3. QED
      BY <3>1, <3>2 DEF Row
  <2>3. updatedBy[e] \in Op \cup {Mutation, Missing} /\ e \in Row
    BY <1>a DEF Row
  <2>4. \E by \in Op \cup {Mutation, Missing} : Notify(e, by)
    BY <1>3, <2>3 DEF PatchEntity, CleanEntity
  <2>5. QED
    BY <2>1, <2>2, <2>3, <2>4, NotifyTracks
<1>4. CASE root' = root /\ data' = data
  BY <1>4 DEF Now
<1>5. QED
  BY <1>1, <1>2, <1>3, <1>4
     DEF Next, Execution, NetAnswer, Dispatch, Teardown, ReadRoot, ReadEntity, ReadFails,
         FinishExec, NetError, BeginMutation, EndMutation, CreateTriggers, OnTableRowUpdate, entityVars, vars

(* The step that takes a row update away marks the operations it matches.  *)
LEMMA DeliveryTracks ==
    ASSUME TypeInv, NEW t \in Table, OnTableRowUpdate(t), NEW o \in live, NEW r \in Row,
           Tracked(o, r)
    PROVE  o \in Matches(Head(updates[t])) \/ Tracked(o, r)'
<1>1. /\ updates' = [updates EXCEPT ![t] = Tail(@)] /\ updates[t] # <<>>
      /\ lost' = lost /\ changeSubs' = changeSubs
  BY DEF OnTableRowUpdate, watchVars
<1>2. CASE r \in lost[o]
  BY <1>1, <1>2 DEF Tracked
<1>3. CASE r \notin lost[o]
  <2>1. r \in changeSubs[o] /\ Coming(o, r)
    BY <1>3 DEF Tracked
  <2>2. PICK i \in DOMAIN updates[TableOf(r)] :
           updates[TableOf(r)][i].row = r /\ updates[TableOf(r)][i].by # o
    BY <2>1 DEF Coming
  <2>3. CASE t # TableOf(r)
    <3>1. updates'[TableOf(r)] = updates[TableOf(r)]
      BY <1>1, <2>3
    <3>2. QED
      BY <1>1, <2>1, <2>2, <3>1 DEF Tracked, Coming
  <2>4. CASE t = TableOf(r)
    <3>1. /\ updates[t] \in Seq([row : Row, by : Op \cup {Mutation, Missing}])
          /\ Len(updates[t]) \in Nat /\ DOMAIN updates[t] = 1 .. Len(updates[t])
      BY <2>4, RowTable
    <3>2. updates'[t] = Tail(updates[t])
      BY <1>1 DEF TypeInv, TypeOK
    <3>3. /\ DOMAIN Tail(updates[t]) = 1 .. Len(updates[t]) - 1
          /\ \A k \in 1 .. Len(updates[t]) - 1 : Tail(updates[t])[k] = updates[t][k + 1]
      BY <1>1, <3>1, HeadTailProperties, LenProperties
    <3>4. CASE i = 1
      <4>1. Head(updates[t]) = updates[t][1]
        BY <1>1, <3>1
      <4>2. QED
        BY <2>1, <2>2, <2>4, <3>4, <4>1 DEF Matches
    <3>5. CASE i # 1
      <4>1. /\ i - 1 \in DOMAIN updates'[t]
            /\ updates'[t][i - 1] = updates[t][i]
        BY <2>2, <2>4, <3>1, <3>2, <3>3, <3>5
      <4>2. QED
        BY <1>1, <2>1, <2>2, <2>4, <4>1 DEF Tracked, Coming
    <3>6. QED
      BY <3>4, <3>5
  <2>5. QED
    BY <2>3, <2>4
<1>4. QED
  BY <1>2, <1>3

(* A track of a row is kept as long as the operation does not read the row *)
(* again, until the row update is delivered.                               *)
LEMMA TrackStays ==
    ASSUME TypeInv, [Next]_vars, NEW o \in live, o \in live', NEW r \in Row, Tracked(o, r),
           lost[o] \subseteq lost'[o],
           \A t \in Table : OnTableRowUpdate(t) => o \notin Matches(Head(updates[t]))
    PROVE  Tracked(o, r)'
<1>a. /\ lost \in [Op -> SUBSET Row] /\ changeSubs \in [Op -> SUBSET Row]
      /\ updatedBy \in [Entity -> Op \cup {Mutation, Missing}]
      /\ o \in Op
  BY DEF TypeInv, TypeOK
<1>1. ASSUME NEW p \in Op, Teardown(p) PROVE Tracked(o, r)'
  <2>1. p # o
    BY <1>1 DEF Teardown
  <2>2. lost'[o] = lost[o] /\ changeSubs'[o] = changeSubs[o] /\ updates' = updates
    BY <1>1, <1>a, <2>1 DEF Teardown
  <2>3. QED
    BY <2>2 DEF Tracked, Coming
<1>2. ASSUME NEW i \in DOMAIN execs, ReadRoot(i) \/ ReadEntity(i) \/ ReadFails(i)
      PROVE  Tracked(o, r)'
  <2>1. changeSubs' = changeSubs /\ updates' = updates
    BY <1>2 DEF ReadRoot, ReadEntity, ReadFails, watchVars, linkVars
  <2>2. QED
    BY <2>1 DEF Tracked, Coming
<1>3. ASSUME NEW i \in DOMAIN execs, FinishExec(i) PROVE Tracked(o, r)'
  <2>1. updates' = updates
    BY <1>3 DEF FinishExec
  <2>2. r \in changeSubs[o] => r \in changeSubs'[o] \/ r \in lost'[o]
    BY <1>3, <1>a DEF FinishExec, Watch
  <2>3. QED
    BY <2>1, <2>2 DEF Tracked, Coming
<1>4. ASSUME NEW p \in Op, NEW e \in Entity, NetResult(p, e) PROVE Tracked(o, r)'
  <2>1. UpsertEntity(p, e, clock + 1) /\ changeSubs' = changeSubs
    BY <1>4 DEF NetResult, watchVars
  <2>2. QED
    BY <1>a, <2>1, UpsertTracks
<1>5. CASE UpsertQuery
  <2> DEFINE q == RootOf[persists[1].op]
  <2>1. q \in Row /\ persists[1].op \in Op /\ changeSubs' = changeSubs
    BY <1>5, HeadOfPersists DEF UpsertQuery, watchVars, Row
  <2>2. Notify(q, persists[1].op) \/ Silent
    BY <1>5, HeadOfPersists DEF UpsertQuery
  <2> HIDE DEF q
  <2>3. CASE Notify(q, persists[1].op)
    BY <1>a, <2>1, <2>3, NotifyTracks
  <2>4. CASE Silent
    BY <2>1, <2>4 DEF Silent, Tracked, Coming
  <2>5. QED
    BY <2>2, <2>3, <2>4
<1>6. ASSUME NEW e \in Entity, PatchEntity(e) \/ CleanEntity(e) PROVE Tracked(o, r)'
  <2>1. updatedBy[e] \in Op \cup {Mutation, Missing} /\ e \in Row
    BY <1>a DEF Row
  <2>2. changeSubs' = changeSubs
        /\ \E by \in Op \cup {Mutation, Missing} : Notify(e, by)
    BY <1>6, <2>1 DEF PatchEntity, CleanEntity, watchVars
  <2>3. QED
    BY <1>a, <2>1, <2>2, NotifyTracks
<1>7. ASSUME NEW t \in Table, OnTableRowUpdate(t) PROVE Tracked(o, r)'
  BY <1>7, DeliveryTracks
<1>8. CASE UNCHANGED <<lost, changeSubs, updates>>
  BY <1>8 DEF Tracked, Coming
<1>9. QED
  BY <1>1, <1>2, <1>3, <1>4, <1>5, <1>6, <1>7, <1>8
     DEF Next, Execution, NetAnswer, Dispatch, NetError, BeginMutation, EndMutation,
         CreateTriggers, linkVars, watchVars, vars

(* The last result of an operation stays the last until it is written.     *)
LEMMA PersistedStays ==
    ASSUME TypeInv, [Next]_vars, NEW o \in Op, shown'[o] = shown[o], BeingPersisted(o),
           ~ \E e \in Entity : NetResult(o, e)
    PROVE  BeingPersisted(o)' \/ root'[RootOf[o]] = shown[o].ptr
<1>a. PICK k \in DOMAIN persists :
         /\ persists[k].op = o /\ persists[k].ptr = shown[o].ptr
         /\ \A j \in DOMAIN persists : persists[j].op = o => j <= k
  BY DEF BeingPersisted
<1>1. CASE UpsertQuery
  <2>1. CASE k = 1
    <3>1. root' = [root EXCEPT ![RootOf[persists[1].op]] = persists[1].ptr]
          /\ RootOf[persists[1].op] \in Query
      BY <1>1, HeadOfPersists DEF UpsertQuery
    <3>2. QED
      BY <1>a, <2>1, <3>1 DEF TypeInv, TypeOK
  <2>2. CASE k # 1
    <3>1. k - 1 \in DOMAIN persists' /\ persists'[k - 1] = persists[k]
      BY <1>1, <1>a, <2>2, HeadOfPersists
    <3>2. \A j \in DOMAIN persists' : persists'[j].op = o => j <= k - 1
      BY <1>1, <1>a, HeadOfPersists
    <3>3. QED
      BY <1>a, <3>1, <3>2 DEF BeingPersisted
  <2>3. QED
    BY <2>1, <2>2
<1>2. ASSUME NEW p \in Op, NEW e \in Entity, NetResult(p, e) PROVE BeingPersisted(o)'
  <2>1. p # o /\ persists' = Append(persists, [op |-> p, ptr |-> e])
    BY <1>2 DEF NetResult
  <2>2. persists \in Seq([op : Op, ptr : Entity])
        /\ [op |-> p, ptr |-> e] \in [op : Op, ptr : Entity]
    BY DEF TypeInv, TypeOK
  <2>3. /\ Len(persists) \in Nat /\ DOMAIN persists = 1 .. Len(persists)
        /\ DOMAIN persists' = 1 .. Len(persists) + 1
        /\ persists'[Len(persists) + 1] = [op |-> p, ptr |-> e]
        /\ \A j \in 1 .. Len(persists) : persists'[j] = persists[j]
    BY <2>1, <2>2, AppendProperties, LenProperties
  <2>4. persists'[Len(persists) + 1].op # o
    BY <2>1, <2>3
  <2>5. \A j \in DOMAIN persists' : persists'[j].op = o => j <= k
    BY <1>a, <2>3, <2>4
  <2>6. QED
    BY <1>a, <2>3, <2>5 DEF BeingPersisted
<1>3. CASE persists' = persists
  BY <1>a, <1>3 DEF BeingPersisted
<1>4. QED
  BY <1>1, <1>2, <1>3
     DEF Next, Execution, NetAnswer, Dispatch, Teardown, ReadRoot, ReadEntity, ReadFails,
         FinishExec, NetError, BeginMutation, PatchEntity, EndMutation, CleanEntity, CreateTriggers,
         OnTableRowUpdate, vars

(* A new result is the last of its operation.                              *)
LEMMA ResultIsPersisted ==
    ASSUME TypeInv, NEW o \in Op, NEW e \in Entity, NetResult(o, e)
    PROVE  BeingPersisted(o)' /\ shown'[o] = [ptr |-> e, val |-> clock + 1]
<1>1. /\ shown' = [shown EXCEPT ![o] = [ptr |-> e, val |-> clock + 1]]
      /\ persists' = Append(persists, [op |-> o, ptr |-> e])
  BY DEF NetResult
<1>2. /\ persists \in Seq([op : Op, ptr : Entity]) /\ shown \in [Op -> Result]
      /\ [op |-> o, ptr |-> e] \in [op : Op, ptr : Entity]
  BY DEF TypeInv, TypeOK
<1>3. /\ Len(persists) \in Nat
      /\ DOMAIN persists' = 1 .. Len(persists) + 1
      /\ persists'[Len(persists) + 1] = [op |-> o, ptr |-> e]
  BY <1>1, <1>2, AppendProperties, LenProperties
<1>4. shown'[o] = [ptr |-> e, val |-> clock + 1]
  BY <1>1, <1>2
<1>5. /\ Len(persists) + 1 \in DOMAIN persists'
      /\ persists'[Len(persists) + 1].op = o
      /\ persists'[Len(persists) + 1].ptr = shown'[o].ptr
      /\ \A j \in DOMAIN persists' : j <= Len(persists) + 1
  BY <1>3, <1>4
<1>6. QED
  BY <1>4, <1>5 DEF BeingPersisted

(* A run that goes on without reading stays tracked.                       *)
LEMMA RunStays ==
    ASSUME Known, [Next]_vars, NEW x \in SoundExec, RunTracked(x, stale),
           ~ x.ended => x.op \in live /\ x.op \in live',
           ~ x.ended => lost[x.op] \subseteq lost'[x.op],
           NEW keys, stale \subseteq keys,
           \A t \in Table : OnTableRowUpdate(t) => Matches(Head(updates[t])) \subseteq keys
    PROVE  RunTracked(x, keys)'
<1> SUFFICES ASSUME ~ x.ended, NEW r \in Row, HasReadRow(x, r), Now(r)' # Seen(x, r)
             PROVE  x.op \in keys \/ Tracked(x.op, r)'
  BY DEF RunTracked, HasReadRow, Seen
<1>1. CASE Now(r)' # Now(r)
  BY <1>1, ChangeIsTracked DEF Known
<1>2. CASE Now(r)' = Now(r)
  <2>1. x.op \in stale \/ Tracked(x.op, r)
    BY <1>2 DEF RunTracked
  <2>2. CASE x.op \in stale
    BY <2>2
  <2>3. CASE Tracked(x.op, r) /\ x.op \notin keys
    BY <2>3, TrackStays DEF Known
  <2>4. QED
    BY <2>1, <2>2, <2>3
<1>3. QED
  BY <1>1, <1>2

(* A result that stays shown, of an operation that does not read, stays    *)
(* tracked by the runs that are left.                                      *)
LEMMA ShownStays ==
    ASSUME Known, [Next]_vars, NEW o \in live, o \in live',
           shown'[o] = shown[o], shown[o].val # 0,
           NEW keys, stale \subseteq keys,
           \A t \in Table : OnTableRowUpdate(t) => Matches(Head(updates[t])) \subseteq keys,
           lost[o] \subseteq lost'[o],
           ~ \E e \in Entity : NetResult(o, e),
           NEW left,
           \A i \in DOMAIN execs, r \in Row : execs[i].op = o /\ Answers(execs[i], r) =>
              \E j \in DOMAIN left : left[j] = execs[i]
    PROVE  ShownTracked(o, left, keys)'
<1>a. o \in Op /\ RootOf[o] \in Query
  BY ConstantsAssumption DEF Known, TypeInv, TypeOK
<1>b. PICK now : now = shown[o]
  OBVIOUS
<1> SUFFICES ASSUME NEW r \in Row, r = RootOf[o] \/ r = now.ptr, Now(r)' # Seen(now, r)
             PROVE  \/ o \in keys
                    \/ Tracked(o, r)'
                    \/ r = RootOf[o] /\ BeingPersisted(o)'
                    \/ \E i \in DOMAIN left : left[i].op = o /\ Answers(left[i], r)'
  BY <1>b DEF ShownTracked, Seen
<1>1. CASE Now(r)' # Now(r)
  BY <1>1, ChangeIsTracked DEF Known
<1>2. CASE Now(r)' = Now(r)
  <2>1. ShownTracked(o, execs, stale)
    BY DEF Known, TrackInv, RunsTracked
  <2>2. \/ o \in stale
        \/ Tracked(o, r)
        \/ r = RootOf[o] /\ BeingPersisted(o)
        \/ \E i \in DOMAIN execs : execs[i].op = o /\ Answers(execs[i], r)
    BY <1>b, <1>2, <2>1 DEF ShownTracked
  <2>3. CASE Tracked(o, r) /\ o \notin keys
    BY <2>3, TrackStays DEF Known
  <2>4. CASE r = RootOf[o] /\ BeingPersisted(o)
    <3>1. BeingPersisted(o)' \/ root'[RootOf[o]] = shown[o].ptr
      BY <1>a, <2>4, PersistedStays DEF Known
    <3>2. root'[RootOf[o]] # shown[o].ptr
      BY <1>a, <1>b, <2>4 DEF Now, Seen
    <3>3. QED
      BY <2>4, <3>1, <3>2
  <2>5. CASE \E i \in DOMAIN execs : execs[i].op = o /\ Answers(execs[i], r)
    <3>1. PICK i \in DOMAIN execs : execs[i].op = o /\ Answers(execs[i], r)
      BY <2>5
    <3>2. PICK j \in DOMAIN left : left[j] = execs[i]
      BY <3>1
    <3>3. left[j].op = o /\ Answers(left[j], r)'
      BY <3>1, <3>2 DEF Answers
    <3>4. QED
      BY <3>3
  <2>6. QED
    BY <2>2, <2>3, <2>4, <2>5
<1>3. QED
  BY <1>1, <1>2

(* RunsTracked of copies of the new values.                                *)
LEMMA CopiesTracked ==
    ASSUME NEW runs, NEW keys, runs = execs', keys = stale', RunsTracked(runs, keys)'
    PROVE  RunsTracked(execs, stale)'
<1>1. ASSUME NEW i \in DOMAIN execs' PROVE RunTracked(execs[i], stale)'
  <2>1. RunTracked(runs[i], keys)'
    BY <1>1 DEF RunsTracked
  <2>2. QED
    BY <2>1 DEF RunTracked, HasReadRow, Seen
<1>2. ASSUME NEW o \in live', shown'[o].val # 0 PROVE ShownTracked(o, execs, stale)'
  <2>1. ShownTracked(o, runs, keys)'
    BY <1>2 DEF RunsTracked
  <2>2. QED
    BY <2>1 DEF ShownTracked, Answers
<1>3. QED
  BY <1>1, <1>2 DEF RunsTracked

(* The runs of what was stale answer for it.                               *)
LEMMA FlushTracked ==
    ASSUME live \in SUBSET Op, live' = live, NEW running \in Seq(SoundExec),
           NEW keys \in SUBSET Op, NEW mut, Flush(running, keys, mut),
           \A o \in keys : Cached(o)', RunsTracked(running, keys)'
    PROVE  RunsTracked(execs, stale)'
<1>1. CASE execs' = running /\ stale' = keys
  BY <1>1, CopiesTracked
<1>2. CASE running = <<>> /\ stale' = {} /\ execs' = Reexecutions(keys \cap live)
  <2>1. PICK runs, none : runs = execs' /\ none = {}
    OBVIOUS
  <2>2. \A i \in DOMAIN runs : \E o \in keys \cap live : runs[i] = NewExec(o, "cache-only")
    BY <1>2, <2>1, ReexecutionsOf
  <2>3. ASSUME NEW o \in keys \cap live
        PROVE  \E i \in DOMAIN runs : runs[i] = NewExec(o, "cache-only")
    <3>1. \E i \in DOMAIN Reexecutions(keys \cap live) :
              Reexecutions(keys \cap live)[i] = NewExec(o, "cache-only")
      BY ReexecutionsOf
    <3>2. QED
      BY <1>2, <2>1, <3>1
  <2>4. ASSUME NEW i \in DOMAIN runs PROVE RunTracked(runs[i], none)'
    <3>1. PICK o \in keys \cap live : runs[i] = NewExec(o, "cache-only")
      BY <2>2
    <3>2. runs[i].step = "root" /\ runs[i].ptr = Missing
      BY <3>1 DEF NewExec
    <3>3. \A r \in Row : ~ HasReadRow(runs[i], r)
      BY <3>2 DEF HasReadRow
    <3>4. QED
      BY <3>3 DEF RunTracked, HasReadRow
  <2>5. ASSUME NEW o \in live', shown'[o].val # 0 PROVE ShownTracked(o, runs, none)'
    <3>1. ShownTracked(o, running, keys)'
      BY <2>5 DEF RunsTracked
    <3>2. CASE o \in keys
      <4>1. PICK i \in DOMAIN runs : runs[i] = NewExec(o, "cache-only")
        BY <2>3, <2>5, <3>2
      <4>2. NewExec(o, "cache-only").op = o /\ NewExec(o, "cache-only").policy = "cache-only"
        BY DEF NewExec
      <4>3. NewExec(o, "cache-only").ended = FALSE
        BY "cache-only" # "network-only" DEF NewExec
      <4>4. \A r \in Row : Answers(runs[i], r)'
        BY <4>1, <4>2, <4>3 DEF Answers
      <4>5. QED
        BY <4>1, <4>2, <4>4 DEF ShownTracked
    <3>3. CASE o \notin keys
      <4>1. DOMAIN running = {}
        BY <1>2
      <4>2. QED
        BY <3>1, <3>3, <4>1 DEF ShownTracked
    <3>4. QED
      BY <3>2, <3>3
  <2>6. RunsTracked(runs, none)'
    BY <2>4, <2>5 DEF RunsTracked
  <2>7. QED
    BY <1>2, <2>1, <2>6, CopiesTracked
<1>3. QED
  BY <1>1, <1>2 DEF Flush

(* The step that takes a row update away does nothing else to the rows.    *)
LEMMA DeliveryTakes ==
    ASSUME TypeInv, NEW t \in Table, OnTableRowUpdate(t)
    PROVE  /\ updates' # updates
           /\ data' = data /\ base' = base /\ root' = root /\ clock' = clock
           /\ persists' = persists /\ net' = net /\ live' = live /\ shown' = shown
<1>1. /\ updates[t] \in Seq([row : Row, by : Op \cup {Mutation, Missing}])
      /\ updates[t] # <<>> /\ updates'[t] = Tail(updates[t])
  BY DEF OnTableRowUpdate, TypeInv, TypeOK
<1>2. Len(updates'[t]) = Len(updates[t]) - 1 /\ Len(updates[t]) \in Nat
  BY <1>1, HeadTailProperties, LenProperties
<1>3. updates'[t] # updates[t]
  BY <1>2
<1>4. QED
  BY <1>3 DEF OnTableRowUpdate, entityVars, boundVars, watchVars

(* The runs that go on without reading, and those that have not read yet.  *)
LEMMA RunsStay ==
    ASSUME Known, [Next]_vars, live \subseteq live', \A o \in live : lost[o] \subseteq lost'[o],
           NEW keys, stale \subseteq keys,
           \A t \in Table : OnTableRowUpdate(t) => Matches(Head(updates[t])) \subseteq keys,
           NEW left,
           \A k \in DOMAIN left :
              \/ \E i \in DOMAIN execs : left[k] = execs[i]
              \/ left[k].step = "root" /\ left[k].ptr = Missing
    PROVE  \A k \in DOMAIN left : RunTracked(left[k], keys)'
<1> SUFFICES ASSUME NEW k \in DOMAIN left PROVE RunTracked(left[k], keys)'
  OBVIOUS
<1>1. CASE \E i \in DOMAIN execs : left[k] = execs[i]
  <2>1. PICK i \in DOMAIN execs : left[k] = execs[i]
    BY <1>1
  <2>2. PICK x : x = execs[i]
    OBVIOUS
  <2>3. x \in SoundExec /\ RunTracked(x, stale)
    BY <2>2, ExecType DEF Known, TrackInv, RunsTracked
  <2>4. ~ x.ended => x.op \in live
    BY <2>2 DEF Known, LiveInv, OneRunEach
  <2>5. RunTracked(x, keys)'
    BY <2>3, <2>4, RunStays
  <2>6. QED
    BY <2>1, <2>2, <2>5
<1>2. CASE left[k].step = "root" /\ left[k].ptr = Missing
  <2>1. \A r \in Row : ~ HasReadRow(left[k], r)
    BY <1>2 DEF HasReadRow
  <2>2. QED
    BY <2>1 DEF RunTracked, HasReadRow
<1>3. QED
  BY <1>1, <1>2

(* A step that neither reads nor shows nor adds a run.                     *)
LEMMA QuietStep ==
    ASSUME Known, [Next]_vars, live' = live, shown' = shown,
           \A o \in Op : lost[o] \subseteq lost'[o],
           ~ \E o \in Op, e \in Entity : NetResult(o, e),
           NEW keys, stale \subseteq keys,
           \A t \in Table : OnTableRowUpdate(t) => Matches(Head(updates[t])) \subseteq keys,
           NEW runs, runs = execs
    PROVE  RunsTracked(runs, keys)'
<1>1. live \in SUBSET Op
  BY DEF Known, TypeInv, TypeOK
<1>2. \A k \in DOMAIN runs : RunTracked(runs[k], keys)'
  BY <1>1, RunsStay
<1>3. ASSUME NEW o \in live', shown'[o].val # 0 PROVE ShownTracked(o, runs, keys)'
  BY <1>1, <1>3, ShownStays
<1>4. QED
  BY <1>2, <1>3 DEF RunsTracked

(* A result whose root is not in the cache is still being persisted: only  *)
(* the network shows a root that was not there.                            *)
LEMMA RootsCome == Known /\ [Next]_vars => RootIsComing'
<1> SUFFICES ASSUME Known, [Next]_vars, NEW o \in live', shown'[o].val # 0, ~ Cached(o)'
             PROVE  BeingPersisted(o)'
  BY DEF RootIsComing
<1>a. /\ o \in Op /\ RootOf[o] \in Query
      /\ shown \in [Op -> Result]
  BY NextTyped, ConstantsAssumption DEF Known, TypeInv, TypeOK
<1>b. ~ Cached(o)
  BY <1>a, StillCached DEF Known
<1>1. CASE \E e \in Entity : NetResult(o, e)
  BY <1>1, <1>a, ResultIsPersisted DEF Known
<1>2. CASE shown'[o] = shown[o] /\ ~ \E e \in Entity : NetResult(o, e)
  <2>1. o \in live
    BY <1>2, <1>a DEF Known, LiveInv, ForgottenByTeardown, NoResult
  <2>2. BeingPersisted(o)
    BY <1>2, <1>b, <2>1 DEF Known, TrackInv, RootIsComing
  <2>3. BeingPersisted(o)' \/ root'[RootOf[o]] = shown[o].ptr
    BY <1>a, <1>2, <2>2, PersistedStays DEF Known
  <2>4. shown[o].ptr # Missing
    BY <1>a, <1>2, ConstantsAssumption DEF Known, CacheInv, ShownIsData
  <2>5. QED
    BY <2>3, <2>4 DEF Cached
<1>3. ASSUME NEW i \in DOMAIN execs, FinishExec(i) PROVE shown'[o] = shown[o]
  <2>1. execs[i].step = "finish" \/ execs[i].step = "failed"
    BY <1>3 DEF FinishExec, IsNext
  <2>2. CASE execs[i].step = "finish" /\ (execs[i].val # 0 \/ execs[i].policy = "cache-only")
    <3>1. execs[i].op # o
      BY <1>b, <2>2, FinishedIsData DEF Known
    <3>2. QED
      BY <1>3, <1>a, <3>1 DEF FinishExec
  <2>3. CASE execs[i].step = "failed"
    <3>1. shown' = shown \/ shown' = [shown EXCEPT ![execs[i].op] = ErrorResult]
      BY <1>3, <2>3 DEF FinishExec
    <3>2. shown'[o] # ErrorResult
      BY DEF ErrorResult
    <3>3. QED
      BY <1>a, <3>1, <3>2 DEF Known, TypeInv, TypeOK
  <2>4. CASE ~ (execs[i].val # 0 \/ execs[i].policy = "cache-only")
    BY <1>3, <2>4 DEF FinishExec
  <2>5. QED
    BY <2>1, <2>2, <2>3, <2>4
<1>4. ASSUME NEW p \in Op, Teardown(p) PROVE shown'[o] = shown[o]
  <2>1. p # o
    BY <1>4 DEF Teardown
  <2>2. QED
    BY <1>4, <1>a, <2>1 DEF Teardown
<1>5. ASSUME NEW p \in Op, NEW e \in Entity, NetResult(p, e), p # o PROVE shown'[o] = shown[o]
  BY <1>5, <1>a DEF NetResult
<1>6. shown'[o] = shown[o] \/ \E e \in Entity : NetResult(o, e)
  BY <1>3, <1>4, <1>5
     DEF Next, Execution, NetAnswer, Dispatch, ReadRoot, ReadEntity, ReadFails, NetError,
         UpsertQuery, BeginMutation, PatchEntity, EndMutation, CleanEntity, CreateTriggers,
         OnTableRowUpdate, vars
<1>7. QED
  BY <1>1, <1>2, <1>6

(* What the actions do, one after the other.                               *)
LEMMA DispatchTracks ==
    ASSUME Known, [Next]_vars, NEW o \in Op, NEW p \in Policy, Dispatch(o, p)
    PROVE  RunsTracked(execs, stale)'
<1>a. PICK more, keys : more = execs' /\ keys = stale
  OBVIOUS
<1>b. /\ keys = stale' /\ live \subseteq live' /\ shown' = shown /\ lost' = lost
      /\ updates' = updates /\ persists' = persists /\ clock' = clock
  BY <1>a DEF Dispatch
<1>c. ~ \E t \in Table : OnTableRowUpdate(t)
  BY <1>b, DeliveryTakes DEF Known
<1>1. /\ \A k \in DOMAIN more : (\E i \in DOMAIN execs : more[k] = execs[i])
                                  \/ (more[k].step = "root" /\ more[k].ptr = Missing)
      /\ \A i \in DOMAIN execs : \E k \in DOMAIN more : more[k] = execs[i]
  <2>1. CASE more = execs
    BY <2>1
  <2>2. CASE more = Append(execs, NewExec(o, p))
    <3>1. /\ Len(execs) \in Nat /\ DOMAIN execs = 1 .. Len(execs)
          /\ DOMAIN more = 1 .. Len(execs) + 1
          /\ more[Len(execs) + 1] = NewExec(o, p)
          /\ \A i \in 1 .. Len(execs) : more[i] = execs[i]
      BY <2>2, NewExecType, AppendProperties, LenProperties DEF Known, TypeInv
    <3>2. NewExec(o, p).step = "root" /\ NewExec(o, p).ptr = Missing
      BY DEF NewExec
    <3>3. QED
      BY <3>1, <3>2
  <2>3. QED
    BY <1>a, <2>1, <2>2 DEF Dispatch
<1>2. \A k \in DOMAIN more : RunTracked(more[k], keys)'
  BY <1>a, <1>b, <1>c, <1>1, RunsStay
<1>3. ASSUME NEW q \in live', shown'[q].val # 0 PROVE ShownTracked(q, more, keys)'
  <2>1. q \in Op
    BY <1>3, NextTyped DEF Known, TypeInv, TypeOK
  <2>2. q \in live
    BY <1>3, <1>b, <2>1 DEF Known, LiveInv, ForgottenByTeardown, NoResult
  <2>3. ~ \E e \in Entity : NetResult(q, e)
    <3>1. ASSUME NEW e \in Entity, NetResult(q, e) PROVE FALSE
      BY <1>b, <3>1 DEF NetResult, Known, TypeInv, TypeOK
    <3>2. QED
      BY <3>1
  <2>4. QED
    BY <1>a, <1>b, <1>c, <1>1, <1>3, <2>2, <2>3, ShownStays
<1>4. RunsTracked(more, keys)'
  BY <1>2, <1>3 DEF RunsTracked
<1>5. QED
  BY <1>a, <1>b, <1>4, CopiesTracked

LEMMA TeardownTracks ==
    ASSUME Known, [Next]_vars, NEW p \in Op, Teardown(p)
    PROVE  RunsTracked(execs, stale)'
<1>a. PICK more, keys : more = execs' /\ keys = stale
  OBVIOUS
<1>b. /\ keys = stale' /\ live' = live \ {p} /\ updates' = updates /\ clock' = clock
      /\ shown' = [shown EXCEPT ![p] = NoResult] /\ lost' = [lost EXCEPT ![p] = {}]
      /\ DOMAIN more = DOMAIN execs
  BY <1>a DEF Teardown, boundVars
<1>c. ~ \E t \in Table : OnTableRowUpdate(t)
  BY <1>b, DeliveryTakes DEF Known
<1>d. /\ shown \in [Op -> Result] /\ lost \in [Op -> SUBSET Row] /\ live \in SUBSET Op
      /\ clock \in Nat
  BY DEF Known, TypeInv, TypeOK
<1>1. ASSUME NEW i \in DOMAIN execs
      PROVE  IF execs[i].op = p THEN more[i].ended ELSE more[i] = execs[i]
  <2>1. execs[i] \in Exec
    BY ExecType DEF Known, SoundExec
  <2>2. more[i] = IF execs[i].op = p THEN [execs[i] EXCEPT !.ended = TRUE] ELSE execs[i]
    BY <1>a DEF Teardown
  <2>3. QED
    BY <2>1, <2>2 DEF Exec
<1>2. ASSUME NEW i \in DOMAIN more PROVE RunTracked(more[i], keys)'
  <2>1. CASE execs[i].op = p
    BY <1>b, <1>1, <1>2, <2>1 DEF RunTracked
  <2>2. CASE execs[i].op # p
    <3>1. PICK x : x = execs[i]
      OBVIOUS
    <3>2. x \in SoundExec /\ RunTracked(x, stale) /\ (~ x.ended => x.op \in live)
      BY <1>b, <1>2, <3>1, ExecType
         DEF Known, TrackInv, RunsTracked, LiveInv, OneRunEach
    <3>3. ~ x.ended => x.op \in live' /\ lost'[x.op] = lost[x.op]
      BY <1>b, <1>d, <2>2, <3>1, <3>2
    <3>4. RunTracked(x, keys)'
      BY <1>a, <1>c, <3>2, <3>3, RunStays
    <3>5. more[i] = x
      BY <1>1, <1>2, <1>b, <2>2, <3>1
    <3>6. QED
      BY <3>4, <3>5
  <2>3. QED
    BY <2>1, <2>2
<1>3. ASSUME NEW q \in live', shown'[q].val # 0 PROVE ShownTracked(q, more, keys)'
  <2>1. q \in live /\ q # p /\ shown'[q] = shown[q] /\ lost'[q] = lost[q]
    BY <1>b, <1>d
  <2>2. ~ \E e \in Entity : NetResult(q, e)
    <3>1. ASSUME NEW e \in Entity, NetResult(q, e) PROVE FALSE
      BY <1>b, <1>d, <3>1 DEF NetResult
    <3>2. QED
      BY <3>1
  <2>3. \A i \in DOMAIN execs : execs[i].op = q => more[i] = execs[i]
    BY <1>1, <2>1
  <2>4. QED
    BY <1>a, <1>b, <1>c, <1>3, <2>1, <2>2, <2>3, ShownStays
<1>4. RunsTracked(more, keys)'
  BY <1>2, <1>3 DEF RunsTracked
<1>5. QED
  BY <1>a, <1>b, <1>4, CopiesTracked

(* A statement of one run: the other runs and the results of the other     *)
(* operations stay tracked.                                                *)
LEMMA OthersStay ==
    ASSUME Known, [Next]_vars, NEW i \in DOMAIN execs,
           ReadRoot(i) \/ ReadEntity(i) \/ ReadFails(i),
           NEW more, more = execs', NEW keys, keys = stale
    PROVE  /\ DOMAIN more = DOMAIN execs
           /\ \A k \in DOMAIN more : k # i => RunTracked(more[k], keys)'
           /\ \A o \in live :
                 shown[o].val # 0 /\ (execs[i].ended \/ execs[i].op # o)
                    => ShownTracked(o, more, keys)'
<1>a. /\ live' = live /\ shown' = shown /\ updates' = updates /\ clock' = clock
      /\ DOMAIN more = DOMAIN execs
      /\ \A k \in DOMAIN execs : k # i => more[k] = execs[k]
  BY DEF ReadRoot, ReadEntity, ReadFails, watchVars, linkVars, boundVars
<1>b. lost \in [Op -> SUBSET Row] /\ live \in SUBSET Op /\ clock \in Nat
  BY DEF Known, TypeInv, TypeOK
<1>c. \A o \in live : execs[i].ended \/ execs[i].op # o => lost'[o] = lost[o]
  BY <1>b DEF ReadRoot, ReadEntity, ReadFails, HasRead
<1>d. ~ \E t \in Table : OnTableRowUpdate(t)
  BY <1>a, DeliveryTakes DEF Known
<1>1. ASSUME NEW k \in DOMAIN more, k # i PROVE RunTracked(more[k], keys)'
  <2>1. PICK x : x = execs[k]
    OBVIOUS
  <2>2. x \in SoundExec /\ RunTracked(x, stale) /\ (~ x.ended => x.op \in live)
    BY <1>a, <1>1, <2>1, ExecType DEF Known, TrackInv, RunsTracked, LiveInv, OneRunEach
  <2>3. ~ x.ended => execs[i].ended \/ execs[i].op # x.op
    BY <1>a, <1>1, <2>1 DEF Known, LiveInv, OneRunEach
  <2>4. ~ x.ended => lost'[x.op] = lost[x.op]
    BY <1>c, <2>2, <2>3
  <2>5. RunTracked(x, keys)'
    BY <1>a, <1>d, <2>2, <2>4, RunStays
  <2>6. QED
    BY <1>a, <1>1, <2>1, <2>5
<1>2. ASSUME NEW o \in live, shown[o].val # 0, execs[i].ended \/ execs[i].op # o
      PROVE  ShownTracked(o, more, keys)'
  <2>1. ~ \E e \in Entity : NetResult(o, e)
    <3>1. ASSUME NEW e \in Entity, NetResult(o, e) PROVE FALSE
      BY <1>a, <1>b, <3>1 DEF NetResult
    <3>2. QED
      BY <3>1
  <2>2. \A j \in DOMAIN execs, r \in Row :
           execs[j].op = o /\ Answers(execs[j], r) => more[j] = execs[j]
    BY <1>a, <1>2 DEF Answers
  <2>3. lost'[o] = lost[o]
    BY <1>c, <1>2
  <2>4. QED
    BY <1>a, <1>d, <1>2, <2>1, <2>2, <2>3, ShownStays
<1>3. QED
  BY <1>a, <1>1, <1>2

(* The root has just been read.  A run that did not find it answers for    *)
(* nothing: then the root of what is shown is still to be written.         *)
LEMMA ReadRootTracks ==
    ASSUME Known, [Next]_vars, NEW i \in DOMAIN execs, ReadRoot(i)
    PROVE  RunsTracked(execs, stale)'
<1>a. PICK more, keys, x, y : more = execs' /\ keys = stale /\ x = execs[i] /\ y = more[i]
  OBVIOUS
<1> DEFINE q == RootOf[x.op]
<1>b. /\ keys = stale' /\ live' = live /\ shown' = shown /\ updates' = updates
      /\ root' = root /\ data' = data /\ changeSubs' = changeSubs /\ persists' = persists
      /\ x.step = "root" /\ more = [execs EXCEPT ![i] = y]
      /\ lost' = IF x.ended THEN lost ELSE [lost EXCEPT ![x.op] = @ \ {q}]
  BY <1>a DEF ReadRoot, IsNext, entityVars, watchVars, linkVars, HasRead
<1>c. /\ x \in Exec /\ x.op \in Op /\ q \in Query /\ q \in Row
      /\ y.op = x.op /\ y.ended = x.ended /\ y.policy = x.policy /\ y.ptr = root[q]
      /\ y.step = IF root[q] = Missing THEN "finish" ELSE "entity"
  <2>1. x \in Exec /\ x.op \in Op /\ q \in Query
    BY <1>a, ExecType DEF Known, SoundExec
  <2>2. y = [x EXCEPT !.ptr = root[q],
                      !.step = IF root[q] = Missing THEN "finish" ELSE "entity"]
    BY <1>a DEF ReadRoot
  <2>3. QED
    BY <2>1, <2>2 DEF Exec, Row
<1>d. lost \in [Op -> SUBSET Row] /\ live \in SUBSET Op /\ shown \in [Op -> Result]
  BY DEF Known, TypeInv, TypeOK
<1> HIDE DEF q
<1>1. RunTracked(y, keys)'
  <2>1. ASSUME NEW r \in Row, HasReadRow(y, r) PROVE Now(r)' = Seen(y, r)
    <3>1. r = q
      BY <1>c, <2>1 DEF HasReadRow, q
    <3>2. QED
      BY <1>b, <1>c, <3>1 DEF Now, Seen
  <2>2. QED
    BY <2>1 DEF RunTracked, HasReadRow, Seen
<1>2. ASSUME NEW o \in live, shown[o].val # 0, x.op = o, ~ x.ended
      PROVE  ShownTracked(o, more, keys)'
  <2>1. y.op = o /\ i \in DOMAIN more /\ ~ y.ended
    BY <1>b, <1>c, <1>2
  <2>2. x.policy = "cache-only" => \A r \in Row : Answers(y, r)'
    BY <1>c, <2>1 DEF Answers
  <2>3. PICK now : now = shown[o]
    OBVIOUS
  <2>4. ASSUME NEW r \in Row, r = now.ptr, r # RootOf[o], Now(r)' # Seen(now, r),
               o \notin keys, x.policy # "cache-only"
        PROVE  Tracked(o, r)'
    <3>1. Now(r) # Seen(now, r)
      BY <1>b, <2>4 DEF Now
    <3>2. ShownTracked(o, execs, stale)
      BY <1>2 DEF Known, TrackInv, RunsTracked
    <3>3. ~ \E j \in DOMAIN execs : execs[j].op = o /\ Answers(execs[j], r)
      <4>1. ~ Answers(x, r)
        BY <1>b, <2>4 DEF Answers
      <4>2. \A j \in DOMAIN execs : execs[j].op = o /\ ~ execs[j].ended => j = i
        BY <1>a, <1>2 DEF Known, LiveInv, OneRunEach
      <4>3. QED
        BY <1>a, <4>1, <4>2 DEF Answers
    <3>4. Tracked(o, r)
      BY <1>a, <2>3, <2>4, <3>1, <3>2, <3>3 DEF ShownTracked
    <3>5. r \in lost[o] => r \in lost'[o]
      BY <1>b, <1>d, <1>2, <2>4 DEF q
    <3>6. QED
      BY <1>b, <3>4, <3>5 DEF Tracked, Coming
  <2>5. CASE root[q] # Missing
    <3>1. Answers(y, RootOf[o])'
      BY <1>c, <1>2, <2>1, <2>5 DEF Answers, q
    <3>2. ASSUME NEW r \in Row, r = RootOf[o] \/ r = now.ptr, Now(r)' # Seen(now, r)
          PROVE  \/ o \in keys
                 \/ Tracked(o, r)'
                 \/ \E j \in DOMAIN more : more[j].op = o /\ Answers(more[j], r)'
      BY <1>a, <2>1, <2>2, <2>4, <3>1, <3>2
    <3>3. shown'[o] = now
      BY <1>b, <2>3
    <3>4. QED
      BY <3>2, <3>3 DEF ShownTracked, Seen
  <2>6. CASE root[q] = Missing
    <3>1. BeingPersisted(o)'
      <4>1. BeingPersisted(o)
        BY <1>2, <2>6 DEF Known, TrackInv, RootIsComing, Cached, q
      <4>2. QED
        BY <1>b, <4>1 DEF BeingPersisted
    <3>2. ASSUME NEW r \in Row, r = RootOf[o] \/ r = now.ptr, Now(r)' # Seen(now, r)
          PROVE  \/ o \in keys
                 \/ Tracked(o, r)'
                 \/ r = RootOf[o] /\ BeingPersisted(o)'
                 \/ \E j \in DOMAIN more : more[j].op = o /\ Answers(more[j], r)'
      BY <1>a, <2>1, <2>2, <2>4, <3>1, <3>2
    <3>3. shown'[o] = now
      BY <1>b, <2>3
    <3>4. QED
      BY <3>2, <3>3 DEF ShownTracked, Seen
  <2>7. QED
    BY <2>5, <2>6
<1>3. \A k \in DOMAIN more : RunTracked(more[k], keys)'
  BY <1>a, <1>1, OthersStay
<1>4. \A o \in live' : shown'[o].val # 0 => ShownTracked(o, more, keys)'
  BY <1>a, <1>b, <1>2, OthersStay
<1>5. RunsTracked(more, keys)'
  BY <1>3, <1>4 DEF RunsTracked
<1>6. QED
  BY <1>a, <1>b, <1>5, CopiesTracked

(* The entity has just been read, in a run that found its root.            *)
LEMMA ReadEntityTracks ==
    ASSUME Known, [Next]_vars, NEW i \in DOMAIN execs, ReadEntity(i)
    PROVE  RunsTracked(execs, stale)'
<1>a. PICK more, keys, x, y : more = execs' /\ keys = stale /\ x = execs[i] /\ y = more[i]
  OBVIOUS
<1>b. /\ keys = stale' /\ live' = live /\ shown' = shown /\ updates' = updates
      /\ root' = root /\ data' = data /\ changeSubs' = changeSubs
      /\ x.step = "entity" /\ i \in DOMAIN more
      /\ lost' = IF x.ended THEN lost ELSE [lost EXCEPT ![x.op] = @ \ {x.ptr}]
  BY <1>a DEF ReadEntity, IsNext, entityVars, watchVars, linkVars, HasRead
<1>c. /\ x.op \in Op /\ RootOf[x.op] \in Query /\ x.ptr \in Entity /\ x.ptr # Missing
      /\ y.op = x.op /\ y.ended = x.ended /\ y.ptr = x.ptr /\ y.val = data[x.ptr]
      /\ y.step = "finish"
  <2>1. x \in SoundExec /\ x \in Exec /\ RootOf[x.op] \in Query
    BY <1>a, ExecType DEF Known, SoundExec
  <2>2. x.ptr # Missing
    BY <1>b, <2>1 DEF SoundExec
  <2>3. y = [x EXCEPT !.val = data[x.ptr], !.step = "finish"]
    BY <1>a DEF ReadEntity
  <2>4. QED
    BY <2>1, <2>2, <2>3 DEF Exec
<1>d. lost \in [Op -> SUBSET Row] /\ live \in SUBSET Op /\ x.ptr \notin Query
  BY <1>c, ConstantsAssumption DEF Known, TypeInv, TypeOK
<1>1. RunTracked(y, keys)'
  <2> SUFFICES ASSUME ~ x.ended, NEW r \in Row, HasReadRow(y, r), Now(r)' # Seen(y, r)
               PROVE  x.op \in keys \/ Tracked(x.op, r)'
    BY <1>c DEF RunTracked, HasReadRow, Seen
  <2>1. r # x.ptr
    BY <1>b, <1>c, <1>d DEF Now, Seen
  <2>2. r = RootOf[x.op]
    BY <1>c, <2>1 DEF HasReadRow
  <2>3. HasReadRow(x, r) /\ Now(r) # Seen(x, r)
    BY <1>b, <1>c, <2>2 DEF HasReadRow, Now, Seen
  <2>4. RunTracked(x, stale)
    BY <1>a DEF Known, TrackInv, RunsTracked
  <2>5. x.op \in keys \/ Tracked(x.op, r)
    BY <1>a, <2>3, <2>4 DEF RunTracked
  <2>6. r \in lost[x.op] => r \in lost'[x.op]
    BY <1>b, <1>c, <1>d, <2>1
  <2>7. QED
    BY <1>b, <2>5, <2>6 DEF Tracked, Coming
<1>2. ASSUME NEW o \in live, x.op = o, ~ x.ended PROVE ShownTracked(o, more, keys)'
  <2>1. y.op = o /\ \A r \in Row : Answers(y, r)'
    BY <1>c, <1>2 DEF Answers
  <2>2. QED
    BY <1>a, <1>b, <2>1 DEF ShownTracked
<1>3. \A k \in DOMAIN more : RunTracked(more[k], keys)'
  BY <1>a, <1>1, OthersStay
<1>4. \A o \in live' : shown'[o].val # 0 => ShownTracked(o, more, keys)'
  BY <1>a, <1>b, <1>2, OthersStay
<1>5. RunsTracked(more, keys)'
  BY <1>3, <1>4 DEF RunsTracked
<1>6. QED
  BY <1>a, <1>b, <1>5, CopiesTracked

(* A read has failed.  A run with cache-only will show its error; after    *)
(* any other one what is shown stays, and its root counts as lost.         *)
LEMMA ReadFailsTracks ==
    ASSUME Known, [Next]_vars, NEW i \in DOMAIN execs, ReadFails(i)
    PROVE  RunsTracked(execs, stale)'
<1>a. PICK more, keys, x, y : more = execs' /\ keys = stale /\ x = execs[i] /\ y = more[i]
  OBVIOUS
<1>b. /\ keys = stale' /\ live' = live /\ shown' = shown /\ updates' = updates
      /\ root' = root /\ data' = data /\ changeSubs' = changeSubs /\ i \in DOMAIN more
      /\ lost' = IF x.ended THEN lost ELSE [lost EXCEPT ![x.op] = @ \cup {RootOf[x.op]}]
  BY <1>a DEF ReadFails, entityVars, watchVars, linkVars
<1>c. /\ x.op \in Op /\ x.step \in {"root", "entity"} /\ y.policy = x.policy
      /\ y.op = x.op /\ y.ended = x.ended /\ y.ptr = Missing /\ y.step = "failed"
  BY <1>a, ExecType, ReadChangesOne DEF Known
<1>d. lost \in [Op -> SUBSET Row] /\ live \in SUBSET Op
  BY DEF Known, TypeInv, TypeOK
<1>1. RunTracked(y, keys)'
  <2>1. \A r \in Row : ~ HasReadRow(y, r)
    BY <1>c DEF HasReadRow
  <2>2. QED
    BY <2>1 DEF RunTracked, HasReadRow
<1>2. ASSUME NEW o \in live, shown[o].val # 0, x.op = o, ~ x.ended
      PROVE  ShownTracked(o, more, keys)'
  <2>1. PICK now : now = shown[o]
    OBVIOUS
  <2>2. ASSUME NEW r \in Row, r = RootOf[o] \/ r = now.ptr, Now(r)' # Seen(now, r)
        PROVE  \/ o \in keys
               \/ Tracked(o, r)'
               \/ r = RootOf[o] /\ BeingPersisted(o)'
               \/ \E j \in DOMAIN more : more[j].op = o /\ Answers(more[j], r)'
    <3>1. CASE x.policy = "cache-only"
      <4>1. y.op = o /\ Answers(y, r)'
        BY <1>c, <1>2, <3>1 DEF Answers
      <4>2. QED
        BY <1>a, <1>b, <4>1
    <3>2. CASE r = RootOf[o]
      <4>1. r \in lost'[o]
        BY <1>b, <1>d, <1>2, <3>2
      <4>2. QED
        BY <4>1 DEF Tracked
    <3>3. CASE x.policy # "cache-only" /\ r # RootOf[o] /\ o \notin keys
      <4>1. Now(r) # Seen(now, r)
        BY <1>b, <2>2 DEF Now
      <4>2. ShownTracked(o, execs, stale)
        BY <1>2 DEF Known, TrackInv, RunsTracked
      <4>3. ~ \E j \in DOMAIN execs : execs[j].op = o /\ Answers(execs[j], r)
        <5>1. ~ Answers(x, r)
          BY <1>c, <1>2, <3>3 DEF Answers
        <5>2. \A j \in DOMAIN execs : execs[j].op = o /\ ~ execs[j].ended => j = i
          BY <1>a, <1>2 DEF Known, LiveInv, OneRunEach
        <5>3. QED
          BY <1>a, <5>1, <5>2 DEF Answers
      <4>4. Tracked(o, r)
        BY <1>a, <2>1, <2>2, <3>3, <4>1, <4>2, <4>3 DEF ShownTracked
      <4>5. r \in lost[o] => r \in lost'[o]
        BY <1>b, <1>d
      <4>6. QED
        BY <1>b, <4>4, <4>5 DEF Tracked, Coming
    <3>4. QED
      BY <3>1, <3>2, <3>3
  <2>3. shown'[o] = now
    BY <1>b, <2>1
  <2>4. QED
    BY <2>2, <2>3 DEF ShownTracked, Seen
<1>3. \A k \in DOMAIN more : RunTracked(more[k], keys)'
  BY <1>a, <1>1, OthersStay
<1>4. \A o \in live' : shown'[o].val # 0 => ShownTracked(o, more, keys)'
  BY <1>a, <1>b, <1>2, OthersStay
<1>5. RunsTracked(more, keys)'
  BY <1>3, <1>4 DEF RunsTracked
<1>6. QED
  BY <1>a, <1>b, <1>5, CopiesTracked

(* The end of a run: what it delivers is tracked as the run was.           *)
LEMMA FinishTracks ==
    ASSUME Known, [Next]_vars, NEW i \in DOMAIN execs, FinishExec(i)
    PROVE  RunsTracked(execs, stale)'
<1>a. PICK left, keys, x : left = RemoveAt(execs, i) /\ keys = stale /\ x = execs[i]
  OBVIOUS
<1> DEFINE emits == ~ x.ended /\ (x.val # 0 \/ x.policy = "cache-only")
<1>b. /\ live' = live /\ updates' = updates /\ root' = root /\ data' = data /\ clock' = clock
      /\ x.step \in {"finish", "failed"} /\ Flush(left, keys, mutating)
      /\ shown' = IF ~ emits THEN shown
                  ELSE IF x.step = "failed" THEN [shown EXCEPT ![x.op] = ErrorResult]
                  ELSE [shown EXCEPT ![x.op] = [ptr |-> x.ptr, val |-> x.val]]
  BY <1>a DEF FinishExec, IsNext, entityVars, boundVars
<1>c. /\ live \in SUBSET Op /\ lost \in [Op -> SUBSET Row] /\ shown \in [Op -> Result]
      /\ keys \in SUBSET Op /\ clock \in Nat /\ execs \in Seq(SoundExec)
      /\ x \in SoundExec /\ x \in Exec /\ x.op \in Op
      /\ RootOf[x.op] \in Query
  BY <1>a, ExecType DEF Known, TypeInv, TypeOK, SoundExec
<1>d. ~ \E t \in Table : OnTableRowUpdate(t)
  BY <1>b, DeliveryTakes DEF Known
<1>e. \A o \in Op : lost[o] \subseteq lost'[o]
  BY <1>c DEF FinishExec, Watch
<1>f. emits /\ x.step = "finish" => x.val # 0 /\ x.ptr # Missing
  BY <1>a, <1>b, FinishedIsData DEF Known
<1>g. \A r \in Row : Answers(x, r) => emits
  <2>1. x.step = "finish" /\ x.ptr # Missing => x.val # 0
    BY <1>a DEF Known, CacheInv, RunsAreCached, FoundInCache
  <2>2. QED
    BY <1>b, <2>1 DEF Answers
<1> HIDE DEF emits
<1>1. /\ left \in Seq(SoundExec)
      /\ \A k \in DOMAIN left : \E j \in DOMAIN execs : left[k] = execs[j]
      /\ \A j \in DOMAIN execs : j # i => \E k \in DOMAIN left : left[k] = execs[j]
  <2>1. /\ left \in Seq(SoundExec) /\ Len(left) = Len(execs) - 1
        /\ \A k \in 1 .. Len(execs) - 1 : left[k] = IF k < i THEN execs[k] ELSE execs[k + 1]
    BY <1>a, <1>c, RemoveAtProperties
  <2>2. /\ DOMAIN left = 1 .. Len(execs) - 1 /\ DOMAIN execs = 1 .. Len(execs)
        /\ Len(execs) \in Nat
    BY <1>c, <2>1, LenProperties
  <2>3. ASSUME NEW k \in DOMAIN left PROVE \E j \in DOMAIN execs : left[k] = execs[j]
    <3>1. k \in 1 .. Len(execs) - 1 /\ k \in DOMAIN execs /\ k + 1 \in DOMAIN execs
      BY <2>2
    <3>2. left[k] = execs[k] \/ left[k] = execs[k + 1]
      BY <2>1, <3>1
    <3>3. QED
      BY <3>1, <3>2
  <2>4. ASSUME NEW j \in DOMAIN execs, j # i PROVE \E k \in DOMAIN left : left[k] = execs[j]
    <3>1. CASE j < i
      <4>1. j \in DOMAIN left /\ left[j] = execs[j]
        BY <2>1, <2>2, <3>1
      <4>2. QED
        BY <4>1
    <3>2. CASE j > i
      <4>1. j - 1 \in DOMAIN left /\ left[j - 1] = execs[j]
        BY <2>1, <2>2, <3>2
      <4>2. QED
        BY <4>1
    <3>3. QED
      BY <2>2, <2>4, <3>1, <3>2
  <2>5. QED
    BY <2>1, <2>3, <2>4
<1>2. \A k \in DOMAIN left : RunTracked(left[k], keys)'
  BY <1>a, <1>b, <1>c, <1>d, <1>e, <1>1, RunsStay
<1>3. ASSUME NEW o \in live', shown'[o].val # 0 PROVE ShownTracked(o, left, keys)'
  <2>0. ~ (emits /\ x.op = o /\ x.step = "failed")
    <3>1. ASSUME emits, x.op = o, x.step = "failed" PROVE shown'[o] = ErrorResult
      BY <1>b, <1>c, <3>1
    <3>2. QED
      BY <1>3, <3>1 DEF ErrorResult
  <2>1. CASE emits /\ x.op = o
    <3>0. x.step = "finish"
      BY <1>b, <2>0, <2>1
    <3>1. /\ x.op \in live /\ lost[x.op] \subseteq lost'[x.op] /\ RunTracked(x, stale)
      BY <1>a, <1>b, <1>c, <1>e, <1>3, <2>1 DEF Known, TrackInv, RunsTracked
    <3>2. RunTracked(x, keys)'
      BY <1>a, <1>b, <1>c, <1>d, <3>1, RunStays
    <3>3. PICK now : now = [ptr |-> x.ptr, val |-> x.val]
      OBVIOUS
    <3>4. shown'[o] = now
      BY <1>b, <1>c, <2>1, <3>0, <3>3
    <3>5. ASSUME NEW r \in Row, r = RootOf[o] \/ r = now.ptr, Now(r)' # Seen(now, r)
          PROVE  o \in keys \/ Tracked(o, r)'
      <4>1. HasReadRow(x, r) /\ Seen(x, r) = Seen(now, r)
        BY <1>f, <2>1, <3>0, <3>3, <3>5 DEF HasReadRow, Seen
      <4>2. ~ x.ended
        BY <2>1 DEF emits
      <4>3. QED
        BY <2>1, <3>2, <3>5, <4>1, <4>2 DEF RunTracked, HasReadRow, Seen
    <3>6. QED
      BY <3>4, <3>5 DEF ShownTracked, Seen
  <2>2. CASE ~ (emits /\ x.op = o)
    <3>1. o \in live /\ shown'[o] = shown[o] /\ lost[o] \subseteq lost'[o]
      BY <1>b, <1>c, <1>e, <1>3, <2>2
    <3>2. ~ \E e \in Entity : NetResult(o, e)
      <4>1. ASSUME NEW e \in Entity, NetResult(o, e) PROVE FALSE
        BY <1>b, <1>c, <4>1 DEF NetResult
      <4>2. QED
        BY <4>1
    <3>3. ASSUME NEW j \in DOMAIN execs, NEW r \in Row, execs[j].op = o, Answers(execs[j], r)
          PROVE  \E k \in DOMAIN left : left[k] = execs[j]
      <4>1. j # i
        BY <1>a, <1>g, <2>2, <3>3
      <4>2. QED
        BY <1>1, <3>3, <4>1
    <3>4. QED
      BY <1>a, <1>b, <1>d, <1>3, <3>1, <3>2, <3>3, ShownStays
  <2>3. QED
    BY <2>1, <2>2
<1>4. RunsTracked(left, keys)'
  BY <1>2, <1>3 DEF RunsTracked
<1>5. \A o \in keys : Cached(o)'
  BY <1>a, <1>c, StillCached DEF Known, CacheInv, RunsAreCached
<1>6. QED
  BY <1>b, <1>c, <1>1, <1>4, <1>5, FlushTracked

(* A result: its root is being persisted, and its entity holds its value,  *)
(* or is known to hold another one.                                        *)
LEMMA NetResultTracks ==
    ASSUME Known, [Next]_vars, NEW o \in Op, NEW e \in Entity, NetResult(o, e)
    PROVE  RunsTracked(execs, stale)'
<1>a. PICK keys, more :
         /\ keys = stale
         /\ more = IF changeSubs[o] = {} THEN Append(execs, NewExec(o, "network-only"))
                                         ELSE execs
  OBVIOUS
<1>b. /\ live' = live /\ root' = root /\ changeSubs' = changeSubs /\ clock' = clock + 1
      /\ net' = net \ {o} /\ o \in net
      /\ shown' = [shown EXCEPT ![o] = [ptr |-> e, val |-> clock + 1]]
      /\ UpsertEntity(o, e, clock + 1) /\ Flush(more, keys, mutating)
  BY <1>a DEF NetResult, watchVars
<1>c. /\ live \in SUBSET Op /\ lost \in [Op -> SUBSET Row] /\ shown \in [Op -> Result]
      /\ keys \in SUBSET Op /\ clock \in Nat /\ execs \in Seq(SoundExec)
      /\ data \in [Entity -> Nat] /\ net \in SUBSET Op
  BY <1>a DEF Known, TypeInv, TypeOK
<1>d. ~ \E t \in Table : OnTableRowUpdate(t)
  BY <1>b, <1>c, DeliveryTakes DEF Known
<1>e. \A p \in Op : lost[p] \subseteq lost'[p]
  BY <1>b, <1>c DEF UpsertEntity, Notify
<1>1. /\ more \in Seq(SoundExec)
      /\ \A k \in DOMAIN more : (\E i \in DOMAIN execs : more[k] = execs[i])
                                  \/ (more[k].step = "root" /\ more[k].ptr = Missing)
      /\ \A i \in DOMAIN execs : \E k \in DOMAIN more : more[k] = execs[i]
  <2>1. CASE more = execs
    BY <1>c, <2>1
  <2>2. CASE more = Append(execs, NewExec(o, "network-only"))
    <3>1. NewExec(o, "network-only") \in SoundExec
      BY NewExecType DEF Policy
    <3>2. /\ Len(execs) \in Nat /\ DOMAIN execs = 1 .. Len(execs)
          /\ DOMAIN more = 1 .. Len(execs) + 1 /\ more \in Seq(SoundExec)
          /\ more[Len(execs) + 1] = NewExec(o, "network-only")
          /\ \A i \in 1 .. Len(execs) : more[i] = execs[i]
      BY <1>c, <2>2, <3>1, AppendProperties, LenProperties
    <3>3. NewExec(o, "network-only").step = "root" /\ NewExec(o, "network-only").ptr = Missing
      BY DEF NewExec
    <3>4. QED
      BY <3>2, <3>3
  <2>3. QED
    BY <1>a, <2>1, <2>2
<1>2. \A k \in DOMAIN more : RunTracked(more[k], keys)'
  BY <1>a, <1>b, <1>c, <1>d, <1>e, <1>1, RunsStay
<1>3. ASSUME NEW p \in live', shown'[p].val # 0 PROVE ShownTracked(p, more, keys)'
  <2>1. CASE p = o
    <3>1. PICK now : now = [ptr |-> e, val |-> clock + 1]
      OBVIOUS
    <3>2. BeingPersisted(p)' /\ shown'[p] = now
      BY <2>1, <3>1, ResultIsPersisted DEF Known
    <3>3. ASSUME NEW r \in Row, r = now.ptr, r # RootOf[p], Now(r)' # Seen(now, r)
          PROVE  Tracked(p, r)'
      <4>1. r = e /\ e \notin Query
        BY <3>1, <3>3, ConstantsAssumption
      <4>2. data'[e] # clock + 1
        BY <3>1, <3>3, <4>1 DEF Now, Seen
      <4>3. base[e] # 0
        BY <1>b, <1>c, <4>2 DEF UpsertEntity
      <4>4. e \in lost'[o]
        BY <1>b, <4>3, UpsertTracks DEF Known
      <4>5. QED
        BY <2>1, <4>1, <4>4 DEF Tracked
    <3>4. ASSUME NEW r \in Row, r = RootOf[p] \/ r = now.ptr, Now(r)' # Seen(now, r)
          PROVE  Tracked(p, r)' \/ (r = RootOf[p] /\ BeingPersisted(p)')
      BY <3>2, <3>3, <3>4
    <3>5. QED
      BY <3>2, <3>4 DEF ShownTracked, Seen
  <2>2. CASE p # o
    <3>1. p \in live /\ shown'[p] = shown[p] /\ lost[p] \subseteq lost'[p]
      BY <1>b, <1>c, <1>e, <1>3, <2>2
    <3>2. ~ \E g \in Entity : NetResult(p, g)
      <4>1. ASSUME NEW g \in Entity, NetResult(p, g) PROVE FALSE
        BY <1>b, <2>2, <4>1 DEF NetResult
      <4>2. QED
        BY <4>1
    <3>3. QED
      BY <1>a, <1>b, <1>d, <1>1, <1>3, <3>1, <3>2, ShownStays
  <2>3. QED
    BY <2>1, <2>2
<1>4. RunsTracked(more, keys)'
  BY <1>2, <1>3 DEF RunsTracked
<1>5. \A p \in keys : Cached(p)'
  BY <1>a, <1>c, StillCached DEF Known, CacheInv, RunsAreCached
<1>6. QED
  BY <1>b, <1>c, <1>1, <1>4, <1>5, FlushTracked

(* The release of a lock, and of a row update, reads and shows nothing.    *)
LEMMA ReleaseTracks ==
    ASSUME Known, [Next]_vars,
           \/ \E o \in Op : NetError(o)
           \/ EndMutation
           \/ \E t \in Table : OnTableRowUpdate(t)
    PROVE  RunsTracked(execs, stale)'
<1>a. PICK runs : runs = execs
  OBVIOUS
<1>b. /\ live \in SUBSET Op /\ stale \in SUBSET Op /\ runs \in Seq(SoundExec)
      /\ netErrors \in Nat /\ mutating \in BOOLEAN /\ clock \in Nat
  BY <1>a DEF Known, TypeInv, TypeOK
<1>c. live' = live /\ shown' = shown /\ lost' = lost /\ clock' = clock
  BY DEF NetError, EndMutation, OnTableRowUpdate, watchVars, boundVars
<1>d. ~ \E o \in Op, e \in Entity : NetResult(o, e)
  <2>1. ASSUME NEW o \in Op, NEW e \in Entity, NetResult(o, e) PROVE FALSE
    BY <1>b, <1>c, <2>1 DEF NetResult
  <2>2. QED
    BY <2>1
<1>e. \A o \in stale : Cached(o)'
  BY <1>b, StillCached DEF Known, CacheInv, RunsAreCached
<1>1. CASE EndMutation \/ \E o \in Op : NetError(o)
  <2>1. updates' = updates /\ \E mut \in BOOLEAN : Flush(runs, stale, mut)
    BY <1>1, <1>a, <1>b DEF NetError, EndMutation, linkVars
  <2>2. ~ \E t \in Table : OnTableRowUpdate(t)
    BY <2>1, DeliveryTakes DEF Known
  <2>3. PICK keys : keys = stale
    OBVIOUS
  <2>4. RunsTracked(runs, keys)'
    BY <1>a, <1>c, <1>d, <2>2, <2>3, QuietStep
  <2>5. QED
    BY <1>b, <1>c, <1>e, <2>1, <2>3, <2>4, FlushTracked
<1>2. ASSUME NEW t \in Table, OnTableRowUpdate(t) PROVE RunsTracked(execs, stale)'
  <2>1. PICK keys : keys = stale \cup Matches(Head(updates[t]))
    OBVIOUS
  <2>2. Flush(runs, keys, mutating) /\ updates' = [updates EXCEPT ![t] = Tail(@)]
    BY <1>2, <1>a, <2>1 DEF OnTableRowUpdate
  <2>3. keys \in SUBSET Op /\ stale \subseteq keys
    BY <1>b, <2>1 DEF Matches
  <2>4. ASSUME NEW s \in Table, OnTableRowUpdate(s) PROVE Matches(Head(updates[s])) \subseteq keys
    <3>1. CASE s = t
      BY <2>1, <3>1
    <3>2. CASE s # t
      <4>1. updates' = [updates EXCEPT ![s] = Tail(@)]
        BY <2>4 DEF OnTableRowUpdate
      <4>2. updates' # updates /\ updates'[s] = updates[s] /\ updates'[s] = Tail(updates[s])
        BY <2>2, <2>4, <3>2, <4>1, DeliveryTakes DEF Known, TypeInv, TypeOK
      <4>3. updates' = updates
        BY <4>1, <4>2 DEF Known, TypeInv, TypeOK
      <4>4. QED
        BY <4>2, <4>3
    <3>3. QED
      BY <3>1, <3>2
  <2>5. RunsTracked(runs, keys)'
    BY <1>a, <1>c, <1>d, <2>3, <2>4, QuietStep
  <2>6. \A o \in keys \ stale : Cached(o)'
    BY <1>b, <2>1, StillCached DEF Matches, Known, CacheInv, WatchedAreCached
  <2>7. QED
    BY <1>b, <1>c, <1>e, <2>2, <2>3, <2>5, <2>6, FlushTracked
<1>3. QED
  BY <1>1, <1>2

(* The steps that change rows, or nothing, and leave the runs alone.       *)
LEMMA WritesTrack ==
    ASSUME Known, [Next]_vars,
           \/ UpsertQuery
           \/ BeginMutation
           \/ \E e \in Entity : PatchEntity(e)
           \/ \E e \in Entity : CleanEntity(e)
           \/ \E t \in Table : CreateTriggers(t)
           \/ UNCHANGED vars
    PROVE  RunsTracked(execs, stale)'
<1>a. PICK runs, keys : runs = execs /\ keys = stale
  OBVIOUS
<1>b. /\ net \in SUBSET Op /\ clock \in Nat /\ lost \in [Op -> SUBSET Row]
      /\ base \in [Entity -> Nat]
  BY DEF Known, TypeInv, TypeOK
<1>c. live' = live /\ shown' = shown /\ execs' = runs /\ stale' = keys /\ net' = net
  BY <1>a DEF UpsertQuery, BeginMutation, PatchEntity, CleanEntity, CreateTriggers,
              watchVars, linkVars, vars
<1>d. ~ \E o \in Op, e \in Entity : NetResult(o, e)
  <2>1. ASSUME NEW o \in Op, NEW e \in Entity, NetResult(o, e) PROVE FALSE
    BY <1>b, <1>c, <2>1 DEF NetResult
  <2>2. QED
    BY <2>1
<1>e. \A o \in Op : lost[o] \subseteq lost'[o]
  <2>1. ASSUME NEW r, NEW by, Notify(r, by) PROVE \A o \in Op : lost[o] \subseteq lost'[o]
    BY <2>1 DEF Notify
  <2>2. CASE lost' = lost
    BY <2>2
  <2>3. lost' = lost \/ \E r, by : Notify(r, by)
    <3>1. CASE UpsertQuery
      BY <3>1, HeadOfPersists DEF UpsertQuery, Silent, Known
    <3>2. ASSUME NEW e \in Entity, PatchEntity(e) \/ CleanEntity(e)
          PROVE  \E r, by : Notify(r, by)
      BY <3>2 DEF PatchEntity, CleanEntity
    <3>3. CASE BeginMutation \/ (\E t \in Table : CreateTriggers(t)) \/ UNCHANGED vars
      BY <3>3 DEF BeginMutation, CreateTriggers, vars
    <3>4. QED
      BY <3>1, <3>2, <3>3
  <2>4. QED
    BY <2>1, <2>2, <2>3
<1>f. ~ \E t \in Table : OnTableRowUpdate(t)
  <2>1. ASSUME NEW t \in Table, OnTableRowUpdate(t), UpsertQuery PROVE FALSE
    <3>1. Len(persists') # Len(persists)
      BY <2>1, HeadOfPersists, LenProperties DEF Known, TypeInv, TypeOK, UpsertQuery
    <3>2. QED
      BY <2>1, <3>1, DeliveryTakes DEF Known
  <2>2. ASSUME NEW t \in Table, OnTableRowUpdate(t), NEW e \in Entity, PatchEntity(e)
        PROVE  FALSE
    BY <1>b, <2>2, DeliveryTakes DEF Known, PatchEntity
  <2>3. ASSUME NEW t \in Table, OnTableRowUpdate(t), NEW e \in Entity, CleanEntity(e)
        PROVE  FALSE
    BY <1>b, <2>3, DeliveryTakes DEF Known, CleanEntity
  <2>4. ASSUME NEW t \in Table, OnTableRowUpdate(t), updates' = updates PROVE FALSE
    BY <2>4, DeliveryTakes DEF Known
  <2>5. QED
    BY <2>1, <2>2, <2>3, <2>4 DEF BeginMutation, CreateTriggers, linkVars, vars
<1>1. RunsTracked(runs, keys)'
  BY <1>a, <1>c, <1>d, <1>e, <1>f, QuietStep
<1>2. QED
  BY <1>c, <1>1, CopiesTracked

LEMMA NextTracked == Known /\ [Next]_vars => TrackInv'
<1> SUFFICES ASSUME Known, [Next]_vars PROVE RunsTracked(execs, stale)'
  BY RootsCome DEF TrackInv
<1>1. ASSUME NEW o \in Op, NEW p \in Policy, Dispatch(o, p) PROVE RunsTracked(execs, stale)'
  BY <1>1, DispatchTracks
<1>2. ASSUME NEW o \in Op, Teardown(o) PROVE RunsTracked(execs, stale)'
  BY <1>2, TeardownTracks
<1>3. ASSUME NEW i \in DOMAIN execs, ReadRoot(i) PROVE RunsTracked(execs, stale)'
  BY <1>3, ReadRootTracks
<1>4. ASSUME NEW i \in DOMAIN execs, ReadEntity(i) PROVE RunsTracked(execs, stale)'
  BY <1>4, ReadEntityTracks
<1>4a. ASSUME NEW i \in DOMAIN execs, ReadFails(i) PROVE RunsTracked(execs, stale)'
  BY <1>4a, ReadFailsTracks
<1>5. ASSUME NEW i \in DOMAIN execs, FinishExec(i) PROVE RunsTracked(execs, stale)'
  BY <1>5, FinishTracks
<1>6. ASSUME NEW o \in Op, NEW e \in Entity, NetResult(o, e) PROVE RunsTracked(execs, stale)'
  BY <1>6, NetResultTracks
<1>7. QED
  BY <1>1, <1>2, <1>3, <1>4, <1>4a, <1>5, <1>6, ReleaseTracks, WritesTrack
     DEF Next, Execution, NetAnswer

(* A live query misses no row update that can match it: whatever differs   *)
(* from what it shows changed while it did not watch the row, or by a      *)
(* write that carries its own key.                                         *)
THEOREM NoUpdateIsMissed == Spec => []NoMissedUpdate
<1>1. Init => Known
  BY InitTyped, InitCached, InitLive, InitTracked DEF Known
<1>2. Known /\ [Next]_vars => Known'
  BY NextTyped, NextCached, NextLive, NextTracked DEF Known
<1>3. QED
  BY <1>1, <1>2, TrackedIsEnough, PTL DEF Spec
=============================================================================
