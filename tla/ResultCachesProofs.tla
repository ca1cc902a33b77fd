-------------------------- MODULE ResultCachesProofs --------------------------
(***************************************************************************)
(* Both caches keep what the client has, and the files are what the next   *)
(* page should start from, for any number of operations, results, flushes  *)
(* and reloads, and any size of the first cache.                           *)
(***************************************************************************)
EXTENDS ResultCaches, TLAPS, SequenceTheorems

Entry == Nat \cup {None}
Registry == [keys : SUBSET Key, evictable : SUBSET Key, timers : SUBSET Key,
             lruQueue : Seq(Key)]
Request == [by : Flush \cup {None}, entry : Entry]

TypeOK ==
    /\ active \subseteq Key
    /\ fast \in Registry /\ cold \in Registry
    /\ pendingWrites \in [Key -> Entry] /\ pendingDeletes \subseteq Key
    /\ io \in [Key -> Seq(Request)]
    /\ files \in [Key -> Entry]
    /\ names \subseteq Key
    /\ last \in [Key -> Entry]
    /\ version \in Nat

(* What a file has once it was given everything that was asked of it.      *)
Outcome(k) == IF io[k] = <<>> THEN files[k] ELSE io[k][Len(io[k])].entry

(* The last result of an operation is in its file, or the last thing asked *)
(* of it, or waits to be written, and the operation is one that is kept:   *)
(* so no flush drops it and none deletes it.                               *)
LastIsWritten ==
    \A k \in Key : last[k] # None =>
        /\ k \in cold.keys
        /\ last[k] = IF pendingWrites[k] # None THEN pendingWrites[k] ELSE Outcome(k)

(* The file of an operation that is not kept waits to be deleted, or ends  *)
(* up empty, or is left from an earlier page for the sweep to find.        *)
RestIsDeleted ==
    \A k \in Key \ cold.keys :
        \/ k \in pendingDeletes
        \/ Outcome(k) = None
        \/ io[k] = <<>> /\ (sweep = "begun" => k \in names)

CachesInv == TypeOK /\ ActiveIsKept /\ LastIsWritten /\ RestIsDeleted

-----------------------------------------------------------------------------
(* Ordered sets and registries *)

(* Deleting what an ordered set has makes it one shorter.                  *)
LEMMA DeleteIsShorter ==
    ASSUME NEW S, NEW s \in Seq(S), NEW x
    PROVE  /\ Delete(s, x) \in Seq(S)
           /\ Len(Delete(s, x)) = IF x \in ToSet(s) THEN Len(s) - 1 ELSE Len(s)
<1>1. CASE x \notin ToSet(s)
  BY <1>1 DEF Delete
<1>2. CASE x \in ToSet(s)
  <2>. DEFINE i == CHOOSE j \in DOMAIN s : s[j] = x
              front == SubSeq(s, 1, i - 1)
              back == SubSeq(s, i + 1, Len(s))
  <2>1. i \in 1..Len(s)
    BY <1>2, LenProperties DEF ToSet
  <2>2. Delete(s, x) = front \o back
    BY <1>2 DEF Delete, RemoveAt
  <2>. HIDE DEF i
  <2>3. front \in Seq(S) /\ Len(front) = i - 1
    BY <2>1, SubSeqProperties
  <2>4. back \in Seq(S) /\ Len(back) = Len(s) - i
    BY <2>1, SubSeqProperties
  <2>. HIDE DEF front, back
  <2>. QED  BY <1>2, <2>1, <2>2, <2>3, <2>4, ConcatProperties, LenProperties
<1>. QED  BY <1>1, <1>2

(* Adding to an ordered set makes it at most one longer.                   *)
LEMMA AddIsLonger ==
    ASSUME NEW S, NEW s \in Seq(S), NEW x \in S
    PROVE  Add(s, x) \in Seq(S) /\ Len(Add(s, x)) \in {Len(s), Len(s) + 1}
BY AppendProperties DEF Add

(* A registry loses by an eviction only what was torn down.                *)
LEMMA EvictKeepsTheRest ==
    ASSUME NEW reg \in Registry, NEW k
    PROVE  /\ evict(reg, k) \in Registry
           /\ evict(reg, k).keys = IF k \in reg.evictable THEN reg.keys \ {k} ELSE reg.keys
           /\ evict(reg, k).evictable = reg.evictable \ {k}
           /\ evict(reg, k).timers = reg.timers
           /\ evict(reg, k).lruQueue = Delete(reg.lruQueue, k)
<1>1. Delete(reg.lruQueue, k) \in Seq(Key)
  BY DeleteIsShorter DEF Registry
<1>2. CASE k \in reg.evictable
  BY <1>1, <1>2 DEF evict, Registry
<1>3. CASE k \notin reg.evictable
  BY <1>1, <1>3 DEF evict, Registry
<1>. QED  BY <1>2, <1>3

LEMMA SpyRegisters ==
    ASSUME NEW reg \in Registry, NEW k \in Key
    PROVE  /\ spy(reg, k) \in Registry
           /\ spy(reg, k).keys = reg.keys \cup {k}
           /\ spy(reg, k).evictable = reg.evictable \ {k}
           /\ spy(reg, k).timers = reg.timers \ {k}
           /\ spy(reg, k).lruQueue = reg.lruQueue
BY DEF spy, Registry

(* The queue keeps to its size, and pushing the oldest operation out of it *)
(* does not lose one that the client has.                                  *)
LEMMA SpyLruRegisters ==
    ASSUME NEW reg \in Registry, NEW k \in Key, Len(reg.lruQueue) <= LruSize
    PROVE  /\ spyLru(reg, k) \in Registry
           /\ spyLru(reg, k).keys \ spyLru(reg, k).evictable
                = (reg.keys \ reg.evictable) \cup {k}
           /\ Len(spyLru(reg, k).lruQueue) <= LruSize
<1>. DEFINE seen == spy(reg, k)
            queue == Add(Delete(seen.lruQueue, k), k)
            queued == [seen EXCEPT !.lruQueue = queue]
<1>1. /\ seen \in Registry /\ seen.lruQueue = reg.lruQueue
      /\ seen.keys = reg.keys \cup {k} /\ seen.evictable = reg.evictable \ {k}
  BY SpyRegisters
<1>2. reg.lruQueue \in Seq(Key) /\ Len(reg.lruQueue) \in Nat
  BY LenProperties DEF Registry
<1>3. queue \in Seq(Key) /\ Len(queue) \in Nat /\ Len(queue) <= LruSize + 1
  <2>1. /\ Delete(reg.lruQueue, k) \in Seq(Key)
        /\ Len(Delete(reg.lruQueue, k)) \in Nat
        /\ Len(Delete(reg.lruQueue, k)) <= LruSize
    BY <1>2, DeleteIsShorter, LenProperties, ConstantsAssumption
  <2>2. queue = Add(Delete(reg.lruQueue, k), k)
    BY <1>1
  <2>3. /\ queue \in Seq(Key)
        /\ Len(queue) \in {Len(Delete(reg.lruQueue, k)), Len(Delete(reg.lruQueue, k)) + 1}
    BY <2>1, <2>2, AddIsLonger
  <2>. HIDE DEF queue
  <2>. QED  BY <2>1, <2>3, ConstantsAssumption
<1>. HIDE DEF seen
<1>4. /\ queued \in Registry /\ queued.lruQueue = queue
      /\ queued.keys = seen.keys /\ queued.evictable = seen.evictable
  BY <1>1, <1>3 DEF Registry
<1>5. spyLru(reg, k) = IF Len(queue) > LruSize THEN evict(queued, Head(queue)) ELSE queued
  BY <1>1, <1>4 DEF spyLru, seen
<1>. HIDE DEF queued
<1>6. CASE Len(queue) > LruSize
  <2>. DEFINE out == evict(queued, Head(queue))
  <2>1. Head(queue) \in ToSet(queue)
    BY <1>3, <1>6, ConstantsAssumption, LenProperties, HeadTailProperties DEF ToSet
  <2>2. out.lruQueue = Delete(queue, Head(queue)) /\ out \in Registry
        /\ out.keys \ out.evictable = queued.keys \ queued.evictable
    <3>. DEFINE oldest == Head(queue)
    <3>. HIDE DEF oldest
    <3>1. /\ evict(queued, oldest) \in Registry
          /\ evict(queued, oldest).keys = IF oldest \in queued.evictable
                                         THEN queued.keys \ {oldest} ELSE queued.keys
          /\ evict(queued, oldest).evictable = queued.evictable \ {oldest}
          /\ evict(queued, oldest).lruQueue = Delete(queued.lruQueue, oldest)
      BY <1>4, EvictKeepsTheRest
    <3>2. evict(queued, oldest).keys \ evict(queued, oldest).evictable
            = queued.keys \ queued.evictable
      BY <3>1
    <3>. QED  BY <1>4, <3>1, <3>2 DEF oldest
  <2>3. Len(Delete(queue, Head(queue))) = Len(queue) - 1
    BY <1>3, <2>1, DeleteIsShorter
  <2>4. spyLru(reg, k) = out
    BY <1>5, <1>6
  <2>. HIDE DEF out, queue
  <2>5. Len(out.lruQueue) <= LruSize
    BY <1>3, <2>2, <2>3, ConstantsAssumption
  <2>6. queued.keys \ queued.evictable = (reg.keys \ reg.evictable) \cup {k}
    BY <1>1, <1>4
  <2>. QED  BY <2>2, <2>4, <2>5, <2>6
<1>7. CASE ~(Len(queue) > LruSize)
  <2>1. spyLru(reg, k) = queued
    BY <1>5, <1>7
  <2>. HIDE DEF queue
  <2>. QED  BY <1>1, <1>3, <1>4, <1>7, <2>1, ConstantsAssumption
<1>. QED  BY <1>6, <1>7

-----------------------------------------------------------------------------
(* The invariant *)

LEMMA InitInv == Init => CachesInv
<1>. SUFFICES ASSUME Init PROVE CachesInv
  OBVIOUS
<1>1. NoRegistry \in Registry
  BY EmptySeq DEF NoRegistry, Registry
<1>2. TypeOK
  BY <1>1, EmptySeq DEF Init, TypeOK, Entry
<1>3. ActiveIsKept
  BY ConstantsAssumption DEF Init, ActiveIsKept, NoRegistry
<1>4. LastIsWritten
  BY DEF Init, LastIsWritten
<1>5. RestIsDeleted
  BY DEF Init, RestIsDeleted
<1>. QED  BY <1>2, <1>3, <1>4, <1>5 DEF CachesInv

LEMMA QueryKeepsInv ==
    ASSUME CachesInv, NEW k \in Key, NEW networkOnly, Query(k, networkOnly)
    PROVE  CachesInv'
<1>1. TypeOK /\ ActiveIsKept /\ LastIsWritten /\ RestIsDeleted
  BY DEF CachesInv
<1>2. /\ fast' \in Registry /\ Len(fast'.lruQueue) <= LruSize
      /\ fast'.keys \ fast'.evictable = (fast.keys \ fast.evictable) \cup {k}
  BY <1>1, SpyLruRegisters DEF Query, TypeOK, ActiveIsKept
<1>3. /\ cold' \in Registry /\ cold'.keys = cold.keys \cup {k}
      /\ cold'.evictable = cold.evictable \ {k} /\ cold'.timers = cold.timers \ {k}
  BY <1>1, SpyRegisters DEF Query, TypeOK
<1>4. TypeOK'
  BY <1>1, <1>2, <1>3 DEF Query, TypeOK
<1>5. ActiveIsKept'
  BY <1>1, <1>2, <1>3 DEF Query, ActiveIsKept
<1>6. LastIsWritten'
  BY <1>1, <1>3 DEF Query, LastIsWritten, Outcome
<1>7. RestIsDeleted'
  BY <1>1, <1>3 DEF Query, RestIsDeleted, Outcome
<1>. QED  BY <1>4, <1>5, <1>6, <1>7 DEF CachesInv

LEMMA TeardownKeepsInv ==
    ASSUME CachesInv, NEW k \in Key, Teardown(k)
    PROVE  CachesInv'
<1>1. TypeOK /\ ActiveIsKept /\ LastIsWritten /\ RestIsDeleted
  BY DEF CachesInv
<1>2. /\ fast' \in Registry /\ fast'.keys = fast.keys
      /\ fast'.evictable = fast.evictable \cup {k} /\ fast'.lruQueue = fast.lruQueue
  BY <1>1 DEF Teardown, TypeOK, Registry
<1>3. /\ cold' \in Registry /\ cold'.keys = cold.keys
      /\ cold'.evictable = cold.evictable \cup {k} /\ cold'.timers = cold.timers \cup {k}
  BY <1>1 DEF Teardown, scheduleEviction, ActiveIsKept, TypeOK, Registry
<1>4. TypeOK'
  BY <1>1, <1>2, <1>3 DEF Teardown, TypeOK
<1>5. ActiveIsKept'
  BY <1>1, <1>2, <1>3 DEF Teardown, ActiveIsKept
<1>6. LastIsWritten' /\ RestIsDeleted'
  BY <1>1, <1>3 DEF Teardown, LastIsWritten, RestIsDeleted, Outcome
<1>. QED  BY <1>4, <1>5, <1>6 DEF CachesInv

LEMMA ResultKeepsInv ==
    ASSUME CachesInv, NEW k \in Key, NEW hit, Result(k, hit)
    PROVE  CachesInv'
<1>1. TypeOK /\ ActiveIsKept /\ LastIsWritten /\ RestIsDeleted
  BY DEF CachesInv
<1>2. version' \in Nat /\ version' \in Entry
  BY <1>1 DEF Result, TypeOK, Entry
<1>3. TypeOK'
  BY <1>1, <1>2 DEF Result, TypeOK, Entry
<1>4. ActiveIsKept'
  BY <1>1 DEF Result, ActiveIsKept
<1>5. LastIsWritten'
  <2>. SUFFICES ASSUME NEW j \in Key, last'[j] # None
                PROVE  /\ j \in cold'.keys
                       /\ last'[j] = IF pendingWrites'[j] # None THEN pendingWrites'[j]
                                                               ELSE Outcome(j)'
    BY DEF LastIsWritten
  <2>1. CASE j = k
    BY <1>1, <1>2, <2>1, ConstantsAssumption DEF Result, TypeOK
  <2>2. CASE j # k
    BY <1>1, <2>2 DEF Result, TypeOK, LastIsWritten, Outcome
  <2>. QED  BY <2>1, <2>2
<1>6. RestIsDeleted'
  BY <1>1 DEF Result, RestIsDeleted, Outcome
<1>. QED  BY <1>3, <1>4, <1>5, <1>6 DEF CachesInv

LEMMA EvictKeepsInv ==
    ASSUME CachesInv, NEW k \in Key, Evict(k)
    PROVE  CachesInv'
<1>1. TypeOK /\ ActiveIsKept /\ LastIsWritten /\ RestIsDeleted
  BY DEF CachesInv
<1>2. /\ cold' \in Registry /\ cold'.keys = cold.keys \ {k}
      /\ cold'.evictable = cold.evictable \ {k} /\ cold'.timers = cold.timers \ {k}
  <2>1. /\ evict(cold, k) \in Registry /\ evict(cold, k).keys = cold.keys \ {k}
        /\ evict(cold, k).evictable = cold.evictable \ {k}
        /\ evict(cold, k).timers = cold.timers
    BY <1>1, EvictKeepsTheRest DEF Evict, TypeOK, ActiveIsKept
  <2>. QED  BY <2>1 DEF Evict, Registry
<1>3. k \notin active
  BY <1>1 DEF Evict, ActiveIsKept
<1>4. TypeOK'
  BY <1>1, <1>2 DEF Evict, clientVars, TypeOK, Entry
<1>5. ActiveIsKept'
  BY <1>1, <1>2, <1>3 DEF Evict, clientVars, ActiveIsKept
<1>6. LastIsWritten'
  BY <1>1, <1>2 DEF Evict, TypeOK, LastIsWritten, Outcome
<1>7. RestIsDeleted'
  BY <1>1, <1>2 DEF Evict, RestIsDeleted, Outcome
<1>. QED  BY <1>4, <1>5, <1>6, <1>7 DEF CachesInv

LEMMA ReadKeepsInv ==
    ASSUME CachesInv, NEW k \in Key, Read(k)
    PROVE  CachesInv'
BY DEF CachesInv, TypeOK, ActiveIsKept, LastIsWritten, RestIsDeleted, Outcome, Read,
       clientVars

(* What a file gets when something is asked of it is that.                 *)
LEMMA AppendedIsLast ==
    ASSUME NEW queue \in Seq(Request), NEW request \in Request
    PROVE  /\ Append(queue, request) \in Seq(Request)
           /\ Append(queue, request) # <<>>
           /\ Append(queue, request)[Len(Append(queue, request))] = request
BY AppendProperties, LenProperties

LEMMA FlushWritesKeepsInv ==
    ASSUME CachesInv, NEW f \in Flush, FlushWrites(f)
    PROVE  CachesInv'
<1>1. TypeOK /\ ActiveIsKept /\ LastIsWritten /\ RestIsDeleted
  BY DEF CachesInv
<1>2. \A k \in Key :
        IF pendingWrites[k] # None /\ k \in cold.keys
        THEN /\ io'[k] \in Seq(Request) /\ io'[k] # <<>>
             /\ io'[k][Len(io'[k])].entry = pendingWrites[k]
        ELSE io'[k] = io[k]
  <2>. SUFFICES ASSUME NEW k \in Key, pendingWrites[k] # None /\ k \in cold.keys
                PROVE  /\ io'[k] \in Seq(Request) /\ io'[k] # <<>>
                       /\ io'[k][Len(io'[k])].entry = pendingWrites[k]
    BY DEF FlushWrites
  <2>. DEFINE request == [by |-> f, entry |-> pendingWrites[k]]
  <2>1. request \in Request /\ request.entry = pendingWrites[k]
    BY <1>1 DEF TypeOK, Request
  <2>2. io'[k] = Append(io[k], request)
    BY DEF FlushWrites
  <2>. HIDE DEF request
  <2>3. io[k] \in Seq(Request)
    BY <1>1 DEF TypeOK
  <2>. QED  BY <2>1, <2>2, <2>3, AppendedIsLast
<1>3. \A k \in Key : io'[k] \in Seq(Request)
  BY <1>1, <1>2 DEF TypeOK
<1>4. io' \in [Key -> Seq(Request)]
  BY <1>3 DEF FlushWrites
<1>5. TypeOK'
  BY <1>1, <1>4 DEF FlushWrites, TypeOK, Entry, clientVars
<1>6. ActiveIsKept'
  BY <1>1 DEF FlushWrites, ActiveIsKept, clientVars
<1>7. \A k \in Key : IF pendingWrites[k] # None /\ k \in cold.keys
                     THEN Outcome(k)' = pendingWrites[k]
                     ELSE Outcome(k)' = Outcome(k)
  BY <1>2 DEF FlushWrites, Outcome
<1>8. LastIsWritten'
  BY <1>1, <1>7 DEF FlushWrites, LastIsWritten
<1>9. RestIsDeleted'
  BY <1>1, <1>2, <1>7 DEF FlushWrites, RestIsDeleted
<1>. QED  BY <1>5, <1>6, <1>8, <1>9 DEF CachesInv

(* A file that is asked to be removed ends up empty, and no other changes. *)
LEMMA RemovedIsEmpty ==
    ASSUME TypeOK, NEW K \in SUBSET Key, io' = RemoveFiles(io, K), files' = files
    PROVE  /\ io' \in [Key -> Seq(Request)]
           /\ \A k \in K : io'[k] # <<>> /\ Outcome(k)' = None
           /\ \A k \in Key \ K : io'[k] = io[k] /\ Outcome(k)' = Outcome(k)
<1>. DEFINE request == [by |-> None, entry |-> None]
<1>1. request \in Request /\ request.entry = None
  BY DEF Request, Entry
<1>2. /\ \A k \in K : io'[k] = Append(io[k], request)
      /\ \A k \in Key \ K : io'[k] = io[k]
      /\ io' = [k \in Key |-> io'[k]]
  BY DEF RemoveFiles
<1>. HIDE DEF request
<1>3. \A k \in K : /\ io'[k] \in Seq(Request) /\ io'[k] # <<>>
                   /\ io'[k][Len(io'[k])].entry = None
  <2>. SUFFICES ASSUME NEW k \in K
                PROVE  /\ io'[k] \in Seq(Request) /\ io'[k] # <<>>
                       /\ io'[k][Len(io'[k])].entry = None
    OBVIOUS
  <2>1. io[k] \in Seq(Request) /\ io'[k] = Append(io[k], request)
    BY <1>2 DEF TypeOK
  <2>. QED  BY <1>1, <2>1, AppendedIsLast
<1>4. io' \in [Key -> Seq(Request)]
  BY <1>2, <1>3 DEF TypeOK
<1>. QED  BY <1>2, <1>3, <1>4 DEF Outcome

LEMMA FlushDeletesKeepsInv ==
    ASSUME CachesInv, NEW f \in Flush, FlushDeletes(f)
    PROVE  CachesInv'
<1>1. TypeOK /\ ActiveIsKept /\ LastIsWritten /\ RestIsDeleted
  BY DEF CachesInv
<1>. DEFINE K == pendingDeletes \ cold.keys
<1>2. K \in SUBSET Key /\ io' = RemoveFiles(io, K) /\ files' = files
  BY <1>1 DEF FlushDeletes, TypeOK
<1>3. /\ io' \in [Key -> Seq(Request)]
      /\ \A k \in K : io'[k] # <<>> /\ Outcome(k)' = None
      /\ \A k \in Key \ K : io'[k] = io[k] /\ Outcome(k)' = Outcome(k)
  BY <1>1, <1>2, RemovedIsEmpty
<1>4. TypeOK'
  BY <1>1, <1>3 DEF FlushDeletes, TypeOK, clientVars
<1>5. ActiveIsKept'
  BY <1>1 DEF FlushDeletes, ActiveIsKept, clientVars
<1>6. LastIsWritten'
  BY <1>1, <1>3 DEF FlushDeletes, LastIsWritten
<1>7. RestIsDeleted'
  BY <1>1, <1>3 DEF FlushDeletes, RestIsDeleted
<1>. QED  BY <1>4, <1>5, <1>6, <1>7 DEF CachesInv

LEMMA FileSystemKeepsInv ==
    ASSUME CachesInv, NEW k \in Key, FileSystem(k)
    PROVE  CachesInv'
<1>1. TypeOK /\ ActiveIsKept /\ LastIsWritten /\ RestIsDeleted
  BY DEF CachesInv
<1>2. io[k] \in Seq(Request) /\ io[k] # <<>>
  BY <1>1 DEF FileSystem, TypeOK
<1>3. /\ Tail(io[k]) \in Seq(Request) /\ Len(Tail(io[k])) = Len(io[k]) - 1
      /\ Head(io[k]) \in Request
      /\ \A i \in 1..Len(Tail(io[k])) : Tail(io[k])[i] = io[k][i + 1]
      /\ Head(io[k]) = io[k][1] /\ Len(io[k]) \in Nat
  BY <1>2, HeadTailProperties, LenProperties
<1>4. files'[k] = Head(io[k]).entry /\ io'[k] = Tail(io[k])
  BY <1>1 DEF FileSystem, TypeOK
<1>5. \A j \in Key \ {k} : files'[j] = files[j] /\ io'[j] = io[j]
  BY <1>1 DEF FileSystem, TypeOK
<1>6. Outcome(k)' = Outcome(k)
  <2>1. CASE Tail(io[k]) = <<>>
    <3>1. Len(io[k]) = 1
      <4>. DEFINE rest == Tail(io[k])
      <4>1. rest \in Seq(Request) /\ rest = <<>>
        BY <1>3, <2>1
      <4>2. Len(rest) = Len(io[k]) - 1 /\ Len(io[k]) \in Nat
        BY <1>3
      <4>. HIDE DEF rest
      <4>. QED  BY <4>1, <4>2, EmptySeq
    <3>. QED  BY <1>2, <1>3, <1>4, <2>1, <3>1 DEF Outcome
  <2>2. CASE Tail(io[k]) # <<>>
    <3>1. Len(Tail(io[k])) \in 1..Len(Tail(io[k]))
      BY <1>3, <2>2, EmptySeq, LenProperties
    <3>. QED  BY <1>2, <1>3, <1>4, <2>2, <3>1 DEF Outcome
  <2>. QED  BY <2>1, <2>2
<1>7. \A j \in Key : Outcome(j)' = Outcome(j)
  BY <1>5, <1>6 DEF Outcome
<1>8. TypeOK'
  BY <1>1, <1>3 DEF FileSystem, TypeOK, clientVars, coldVars, Request
<1>9. ActiveIsKept'
  BY <1>1 DEF FileSystem, ActiveIsKept, clientVars, coldVars
<1>10. LastIsWritten'
  BY <1>1, <1>7 DEF FileSystem, LastIsWritten, coldVars
<1>11. RestIsDeleted'
  <2>1. io[k] # <<>>
    BY DEF FileSystem
  <2>. QED  BY <1>1, <1>5, <1>7, <2>1 DEF FileSystem, RestIsDeleted, coldVars
<1>. QED  BY <1>8, <1>9, <1>10, <1>11 DEF CachesInv

LEMMA SweepKeepsInv ==
    ASSUME CachesInv, Sweep
    PROVE  CachesInv'
<1>1. TypeOK /\ ActiveIsKept /\ LastIsWritten /\ RestIsDeleted
  BY DEF CachesInv
<1>2. TypeOK' /\ ActiveIsKept'
  BY <1>1 DEF Sweep, TypeOK, ActiveIsKept, clientVars
<1>3. LastIsWritten'
  BY <1>1 DEF Sweep, LastIsWritten, Outcome
<1>4. RestIsDeleted'
  BY <1>1 DEF Sweep, RestIsDeleted, Outcome
<1>. QED  BY <1>2, <1>3, <1>4 DEF CachesInv

LEMMA SweepFileKeepsInv ==
    ASSUME CachesInv, NEW k \in Key, SweepFile(k)
    PROVE  CachesInv'
<1>1. TypeOK /\ ActiveIsKept /\ LastIsWritten /\ RestIsDeleted
  BY DEF CachesInv
<1>2. CASE k \in cold.keys
  BY <1>1, <1>2 DEF SweepFile, CachesInv, TypeOK, ActiveIsKept, LastIsWritten,
                    RestIsDeleted, Outcome, clientVars
<1>3. CASE k \notin cold.keys
  <2>1. {k} \in SUBSET Key /\ io' = RemoveFiles(io, {k}) /\ files' = files
    BY <1>3 DEF SweepFile
  <2>2. /\ io' \in [Key -> Seq(Request)]
        /\ io'[k] # <<>> /\ Outcome(k)' = None
        /\ \A j \in Key \ {k} : io'[j] = io[j] /\ Outcome(j)' = Outcome(j)
    BY <1>1, <2>1, RemovedIsEmpty
  <2>3. TypeOK' /\ ActiveIsKept'
    BY <1>1, <2>2 DEF SweepFile, TypeOK, ActiveIsKept, clientVars
  <2>4. LastIsWritten'
    BY <1>1, <1>3, <2>2 DEF SweepFile, LastIsWritten
  <2>5. RestIsDeleted'
    BY <1>1, <2>2 DEF SweepFile, RestIsDeleted
  <2>. QED  BY <2>3, <2>4, <2>5 DEF CachesInv
<1>. QED  BY <1>2, <1>3

LEMMA ReloadKeepsInv ==
    ASSUME CachesInv, Reload
    PROVE  CachesInv'
<1>1. TypeOK
  BY DEF CachesInv
<1>2. NoRegistry \in Registry
  BY EmptySeq DEF NoRegistry, Registry
<1>3. TypeOK'
  BY <1>1, <1>2, EmptySeq DEF Reload, TypeOK, Entry
<1>4. ActiveIsKept'
  BY ConstantsAssumption DEF Reload, ActiveIsKept, NoRegistry
<1>5. LastIsWritten' /\ RestIsDeleted'
  BY DEF Reload, LastIsWritten, RestIsDeleted
<1>. QED  BY <1>3, <1>4, <1>5 DEF CachesInv

LEMMA NextKeepsInv == CachesInv /\ [Next]_vars => CachesInv'
<1>. SUFFICES ASSUME CachesInv, [Next]_vars PROVE CachesInv'
  OBVIOUS
<1>1. CASE UNCHANGED vars
  BY <1>1 DEF vars, clientVars, coldVars, CachesInv, TypeOK, ActiveIsKept,
     LastIsWritten,
              RestIsDeleted, Outcome
<1>2. ASSUME NEW k \in Key, NEW b \in BOOLEAN, Query(k, b)  PROVE CachesInv'
  BY <1>2, QueryKeepsInv
<1>3. ASSUME NEW k \in Key, NEW b \in BOOLEAN, Result(k, b)  PROVE CachesInv'
  BY <1>3, ResultKeepsInv
<1>4. ASSUME NEW k \in Key, Teardown(k)  PROVE CachesInv'
  BY <1>4, TeardownKeepsInv
<1>5. ASSUME NEW k \in Key, Read(k)  PROVE CachesInv'
  BY <1>5, ReadKeepsInv
<1>6. ASSUME NEW k \in Key, Evict(k)  PROVE CachesInv'
  BY <1>6, EvictKeepsInv
<1>7. ASSUME NEW k \in Key, FileSystem(k)  PROVE CachesInv'
  BY <1>7, FileSystemKeepsInv
<1>8. ASSUME NEW k \in Key, SweepFile(k)  PROVE CachesInv'
  BY <1>8, SweepFileKeepsInv
<1>9. ASSUME NEW f \in Flush, FlushWrites(f)  PROVE CachesInv'
  BY <1>9, FlushWritesKeepsInv
<1>10. ASSUME NEW f \in Flush, FlushDeletes(f)  PROVE CachesInv'
  BY <1>10, FlushDeletesKeepsInv
<1>11. CASE Sweep
  BY <1>11, SweepKeepsInv
<1>12. CASE Reload
  BY <1>12, ReloadKeepsInv
<1>. QED  BY <1>1, <1>2, <1>3, <1>4, <1>5, <1>6, <1>7, <1>8, <1>9, <1>10, <1>11, <1>12
          DEF Next

LEMMA InvHolds == Spec => []CachesInv
BY InitInv, NextKeepsInv, PTL DEF Spec

-----------------------------------------------------------------------------
(* The theorems *)

(* Both registries keep every operation the client has, and the queue of   *)
(* the first one its size, whatever is torn down, timed out, pushed out or *)
(* asked again, in whatever order.                                         *)
THEOREM WhatTheClientHasIsKept == Spec => []ActiveIsKept
<1>1. CachesInv => ActiveIsKept
  BY DEF CachesInv
<1>. QED  BY <1>1, InvHolds, PTL

(* Once nothing more is going to happen to a file, it holds the last       *)
(* result of an operation that is kept; the sweep leaves no other.  No     *)
(* flush, however it overlaps with another, with an eviction or with the   *)
(* return of an operation, writes or deletes the wrong one.                *)
THEOREM NextPageStartsFromTheLast == Spec => []FilesAreCurrent
<1>1. CachesInv => FilesAreCurrent
  <2>. SUFFICES ASSUME CachesInv, NEW k \in Key, Settled(k)
                PROVE  /\ last[k] # None => files[k] = last[k]
                       /\ Swept /\ k \notin cold.keys => files[k] = None
    BY DEF FilesAreCurrent
  <2>1. Outcome(k) = files[k] /\ pendingWrites[k] = None /\ k \notin pendingDeletes
    BY DEF Settled, Outcome
  <2>2. last[k] # None => files[k] = last[k]
    BY <2>1 DEF CachesInv, LastIsWritten
  <2>3. Swept /\ k \notin cold.keys => files[k] = None
    BY <2>1 DEF CachesInv, RestIsDeleted, Swept
  <2>. QED  BY <2>2, <2>3
<1>. QED  BY <1>1, InvHolds, PTL

=============================================================================
