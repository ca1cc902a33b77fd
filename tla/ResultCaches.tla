----------------------------- MODULE ResultCaches -----------------------------
(***************************************************************************)
(* The two caches of results in front of the normalized one:               *)
(* fastCacheExchange in memory, and coldStartExchange in files that the    *)
(* next load of the page starts from.  Each keeps track of the operations  *)
(* with makeOperationsRegistry, the first one here with the "lru"          *)
(* eviction, the second one with "delayed".                                *)
(*                                                                         *)
(* The result of an operation is the version of its data.  The file system *)
(* does what it is asked for one file in the order it was asked.           *)
(***************************************************************************)
EXTENDS Naturals, Sequences, OrderedSets

CONSTANTS
    Key,          \* the operations, by key
    None,
    LruSize,
    Flush,        \* names for the flushes under way, so a bound on them
    MaxQueries,   \* bound on the queries made
    MaxResults,   \* bound on the results, whose versions count them
    MaxReloads    \* bound on the reloads of the page

ASSUME ConstantsAssumption ==
    /\ LruSize \in Nat \ {0}
    /\ None \notin Nat /\ None \notin Key
    /\ MaxQueries \in Nat /\ MaxResults \in Nat /\ MaxReloads \in Nat

VARIABLES
    active,         \* the operations that the client has
    asked,          \* those the database was asked since the page loaded
    fast, results,  \* the registry of the fast cache, and its values
    cold,           \* the registry of the cold start
    bypassed,       \* the database has answered
    reads,          \* the files being read
    pendingWrites, pendingDeletes, flushTimer,
    flushes,        \* the flushes that await their writes
    io,             \* of a file: what it was asked for
    files,          \* the files
    sweep, names,   \* "no", "scheduled" or "begun", and the files it has to look at
    last,           \* of a key: the result it had since it was registered
    queries, version, reloads

clientVars == <<active, asked, queries, version, reloads>>
coldVars == <<cold, bypassed, reads, pendingWrites, pendingDeletes, flushTimer,
              flushes, sweep, names, last>>
vars == <<clientVars, fast, results, coldVars, io, files>>

NoRegistry == [keys |-> {}, evictable |-> {}, timers |-> {}, lruQueue |-> <<>>]

Init ==
    /\ active = {} /\ asked = {} /\ fast = NoRegistry /\ cold = NoRegistry
    /\ results = [k \in Key |-> None]
    /\ bypassed = FALSE /\ reads = {}
    /\ pendingWrites = [k \in Key |-> None] /\ pendingDeletes = {}
    /\ flushTimer = FALSE /\ flushes = {}
    /\ sweep = "no" /\ names = {} /\ last = [k \in Key |-> None]
    /\ io = [k \in Key |-> <<>>]
    /\ files = [k \in Key |-> None]
    /\ queries = 0 /\ version = 0 /\ reloads = 0

-----------------------------------------------------------------------------
(* makeOperationsRegistry *)

evict(reg, k) ==
    LET queue == Delete(reg.lruQueue, k)
    IN  IF k \in reg.evictable
        THEN [reg EXCEPT !.keys = @ \ {k}, !.evictable = @ \ {k}, !.lruQueue = queue]
        ELSE [reg EXCEPT !.lruQueue = queue]

(* A timer that fired leaves its id behind, until the next query.          *)
scheduleEviction(reg, k) ==
    [reg EXCEPT !.evictable = @ \cup {k},
                !.timers = IF k \in reg.evictable THEN @ ELSE @ \cup {k}]

spyKeepsEvictable(reg, k) ==   \* mutant: it does not take back the teardown
    [reg EXCEPT !.keys = @ \cup {k}, !.timers = @ \ {k}]
spy(reg, k) ==
    [reg EXCEPT !.keys = @ \cup {k}, !.evictable = @ \ {k}, !.timers = @ \ {k}]

(* The queue had room before, so one eviction makes room again.            *)
spyLru(reg, k) ==
    LET queued == [spy(reg, k) EXCEPT !.lruQueue = Add(Delete(@, k), k)]
    IN  IF Len(queued.lruQueue) > LruSize THEN evict(queued, Head(queued.lruQueue)) ELSE queued

Forget(values, reg) == [k \in Key |-> IF k \in reg.keys THEN values[k] ELSE None]

-----------------------------------------------------------------------------
(* The client and what answers it *)

(* Both caches hear of a query, and every query goes on to the database,   *)
(* whoever answers it before.                                              *)
Query(k, networkOnly) ==
    /\ queries < MaxQueries
    /\ queries' = queries + 1
    /\ active' = active \cup {k} /\ asked' = asked \cup {k}
    /\ fast' = spyLru(fast, k)
    /\ results' = Forget(results, fast')
    /\ cold' = spy(cold, k)
    /\ pendingDeletes' = IF k \in cold.keys THEN pendingDeletes ELSE pendingDeletes \ {k}
    /\ reads' = IF bypassed \/ networkOnly THEN reads ELSE reads \cup {k}
    /\ UNCHANGED <<version, reloads, bypassed, pendingWrites, flushTimer, flushes,
                   sweep, names, last, io, files>>

Teardown(k) ==
    /\ k \in active
    /\ active' = active \ {k}
    /\ fast' = [fast EXCEPT !.evictable = @ \cup {k}]
    /\ cold' = scheduleEviction(cold, k)
    /\ UNCHANGED <<asked, queries, version, reloads, results, bypassed, reads, pendingWrites,
                   pendingDeletes, flushTimer, flushes, sweep, names, last, io, files>>

setIfPresent(values, reg, k, value) ==
    IF k \in reg.keys THEN [values EXCEPT ![k] = value] ELSE values

(* What the fast cache keeps of a result that passes it.                   *)
Keep(k, value) == results' = setIfPresent(results, fast, k, value)

(* The result of an operation, from the database ("hit") or the network;   *)
(* it may come after the operation is torn down.                           *)
Result(k, hit) ==
    /\ version < MaxResults
    /\ k \in asked
    /\ version' = version + 1
    /\ bypassed' = (bypassed \/ hit)
    /\ sweep' = IF hit /\ sweep = "no" THEN "scheduled" ELSE sweep
    /\ pendingWrites' = [pendingWrites EXCEPT ![k] = version']
    /\ flushTimer' = TRUE
    /\ last' = [last EXCEPT ![k] = IF k \in cold.keys THEN version' ELSE None]
    /\ Keep(k, version')
    /\ UNCHANGED <<active, asked, queries, reloads, fast, cold, reads, pendingDeletes,
                   flushes, names, io, files>>

(* A file is read; bypassed is not looked at again.                        *)
Read(k) ==
    /\ k \in reads
    /\ reads' = reads \ {k}
    /\ IF files[k] # None THEN Keep(k, files[k]) ELSE UNCHANGED results
    /\ UNCHANGED <<clientVars, fast, cold, bypassed, pendingWrites, pendingDeletes,
                   flushTimer, flushes, sweep, names, last, io, files>>

-----------------------------------------------------------------------------
(* What coldStartExchange does in the background *)

EvictUnqueued(k) ==   \* mutant: what was to be written still is
    /\ k \in cold.timers
    /\ cold' = [evict(cold, k) EXCEPT !.timers = @ \ {k}]
    /\ last' = [last EXCEPT ![k] = None]
    /\ UNCHANGED <<clientVars, fast, results, bypassed, reads, pendingWrites,
                   pendingDeletes, flushTimer, flushes, sweep, names, io, files>>
(* The timer of a torn down operation fires. *)
Evict(k) ==
    /\ k \in cold.timers
    /\ cold' = [evict(cold, k) EXCEPT !.timers = @ \ {k}]
    /\ pendingWrites' = [pendingWrites EXCEPT ![k] = None]
    /\ pendingDeletes' = pendingDeletes \cup {k}
    /\ flushTimer' = TRUE
    /\ last' = [last EXCEPT ![k] = None]
    /\ UNCHANGED <<clientVars, fast, results, bypassed, reads, flushes, sweep, names, io, files>>

(* flush, until it awaits what it writes ... *)
FlushWrites(f) ==
    /\ flushTimer /\ f \notin flushes
    /\ flushTimer' = FALSE
    /\ flushes' = flushes \cup {f}
    /\ pendingWrites' = [k \in Key |-> None]
    /\ io' = [k \in Key |-> IF pendingWrites[k] # None /\ k \in cold.keys
                            THEN Append(io[k], [by |-> f, entry |-> pendingWrites[k]])
                            ELSE io[k]]
    /\ UNCHANGED <<clientVars, fast, results, cold, bypassed, reads, pendingDeletes,
                   sweep, names, last, files>>

Written(f) == \A k \in Key : \A i \in DOMAIN io[k] : io[k][i].by # f

RemoveFiles(queues, K) ==
    [k \in Key |-> IF k \in K THEN Append(queues[k], [by |-> None, entry |-> None])
                   ELSE queues[k]]

(* ... and from there: what is to be deleted by then, unless it is back.   *)
FlushDeletes(f) ==
    /\ f \in flushes /\ Written(f)
    /\ flushes' = flushes \ {f}
    /\ io' = RemoveFiles(io, pendingDeletes \ cold.keys)
    /\ pendingDeletes' = {}
    /\ UNCHANGED <<clientVars, fast, results, cold, bypassed, reads, pendingWrites,
                   flushTimer, sweep, names, last, files>>

(* The file system does the next thing it was asked for a file.            *)
FileSystem(k) ==
    /\ io[k] # <<>>
    /\ files' = [files EXCEPT ![k] = Head(io[k]).entry]
    /\ io' = [io EXCEPT ![k] = Tail(@)]
    /\ UNCHANGED <<clientVars, fast, results, coldVars>>

(* Once per load, long after the first answer of the database: the files   *)
(* of operations that this page has not made.                              *)
Sweep ==
    /\ sweep = "scheduled"
    /\ sweep' = "begun" /\ names' = {k \in Key : files[k] # None}
    /\ UNCHANGED <<clientVars, fast, results, cold, bypassed, reads, pendingWrites,
                   pendingDeletes, flushTimer, flushes, last, io, files>>

SweepFile(k) ==
    /\ k \in names
    /\ names' = names \ {k}
    /\ io' = IF k \in cold.keys THEN io ELSE RemoveFiles(io, {k})
    /\ UNCHANGED <<clientVars, fast, results, cold, bypassed, reads, pendingWrites,
                   pendingDeletes, flushTimer, flushes, sweep, last, files>>

(* Only the files are left. *)
Reload ==
    /\ reloads < MaxReloads
    /\ reloads' = reloads + 1
    /\ active' = {} /\ asked' = {} /\ fast' = NoRegistry /\ cold' = NoRegistry
    /\ results' = [k \in Key |-> None]
    /\ bypassed' = FALSE /\ reads' = {}
    /\ pendingWrites' = [k \in Key |-> None] /\ pendingDeletes' = {}
    /\ flushTimer' = FALSE /\ flushes' = {}
    /\ sweep' = "no" /\ names' = {} /\ last' = [k \in Key |-> None]
    /\ io' = [k \in Key |-> <<>>]
    /\ UNCHANGED <<queries, version, files>>

Next ==
    \/ \E k \in Key :
          \/ \E b \in BOOLEAN : Query(k, b) \/ Result(k, b)
          \/ Teardown(k) \/ Read(k) \/ Evict(k) \/ FileSystem(k) \/ SweepFile(k)
    \/ \E f \in Flush : FlushWrites(f) \/ FlushDeletes(f)
    \/ Sweep \/ Reload

Spec == Init /\ [][Next]_vars

-----------------------------------------------------------------------------
(* Properties *)

(* An operation that the client has is kept by both caches, whatever was   *)
(* torn down, timed out, pushed out of the queue or asked again before,    *)
(* and what they keep it by does not end it.                               *)
ActiveIsKept ==
    /\ active \subseteq (fast.keys \ fast.evictable) \cap (cold.keys \ cold.evictable)
    /\ cold.timers = cold.evictable
    /\ Len(fast.lruQueue) <= LruSize

(* Nothing more is going to happen to a file. *)
Settled(k) ==
    io[k] = <<>> /\ pendingWrites[k] = None /\ k \notin pendingDeletes
Swept == sweep = "begun" /\ names = {}

(* What the next page starts from: the last result of every operation that *)
(* is kept, and after a sweep nothing of the others.                       *)
FilesAreCurrent ==
    \A k \in Key : Settled(k) =>
        /\ last[k] # None => files[k] = last[k]
        /\ Swept /\ k \notin cold.keys => files[k] = None
=============================================================================
