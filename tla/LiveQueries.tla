---------------------------- MODULE LiveQueries ----------------------------
(***************************************************************************)
(* The live queries of repliqlExchange: a query is executed against the    *)
(* tables `queries` and `entities`, watches the rows it read, and is       *)
(* executed again (cache-only) when one of them changes.                   *)
(*                                                                         *)
(* A query has one root field and reads two rows, one statement each: the  *)
(* row of its root field, which points to an entity, and the row of that   *)
(* entity.  Rows change by network results (persistOperationResult), by    *)
(* optimistic patches and by the clean-up after them.  The triggers report *)
(* changes through a callback per table, whose messages are ordered but    *)
(* travel apart from the answers of the statements.                        *)
(*                                                                         *)
(* Any read may fail: its statement is rejected when the leader of the     *)
(* database resigns, and the row of an entity may lack a field the query   *)
(* selects, since other results and patches write other fields of it.      *)
(* Which fields a row has is not modelled, so a run may miss one at any    *)
(* time.                                                                   *)
(***************************************************************************)
EXTENDS Naturals, Sequences, FiniteSets, SequencesExt

CONSTANTS
    Op,            \* keys of the query operations
    Query,         \* root fields: ids of the rows of `queries`
    Entity,        \* refs of the rows of `entities`
    RootOf,        \* the root field each operation reads
    Missing,       \* no row
    Error,         \* in place of an entity: the result is an error
    Mutation,      \* the key a patch leaves in updatedByOperationKey
    MaxWrites,     \* bound: results, patches and failed requests
    MaxDispatches  \* bound: operations dispatched by the application

ASSUME ConstantsAssumption ==
    /\ IsFiniteSet(Op)
    /\ RootOf \in [Op -> Query]
    /\ Query \cap Entity = {}
    /\ Missing \notin Op \cup Entity /\ Mutation \notin Op
    /\ Error \notin Entity \cup {Missing}
    /\ MaxWrites \in Nat /\ MaxDispatches \in Nat

VARIABLES
    \* -- the database
    root,         \* queries.data: the entity a root field points to
    data, base,   \* entities.data and entities.base: a value, or 0
    updatedBy,    \* entities.updatedByOperationKey (that of a root field is
                  \* only read in the statement that sets it)
    triggers,     \* per table: "none", "creating" or "ready"
    \* -- on their way to the worker
    updates,      \* per table, the row updates its callback has sent
    net,          \* operations with a request on the network
    \* -- the memory of the exchange
    live,         \* keys in liveQueryOperations
    changeSubs,   \* per live operation, the rows it watches
    execs,        \* the runs of executeOperation, oldest first
    mutating,     \* a mutation is being executed
    persists,     \* results whose upsertEntities is not answered yet
    stale,        \* staleOpKeys
    \* -- what the application sees
    shown,        \* per operation, its last result
    lost,         \* history: per operation, the rows that changed since it read
                  \* them by a write it has no row update to match for, or that
                  \* a run read in vain
    \* -- bounds
    clock, dispatches, netErrors

entityVars == <<data, base>>
linkVars == <<triggers, updates, net>>
watchVars == <<live, changeSubs>>
boundVars == <<clock, dispatches, netErrors>>
vars == <<root, entityVars, updatedBy, linkVars, watchVars, execs, mutating,
          persists, stale, shown, lost, boundVars>>

Table == {"queries", "entities"}
Row == Query \cup Entity
TableOf(r) == IF r \in Query THEN "queries" ELSE "entities"
Policy == {"cache-first", "cache-only", "cache-and-network", "network-only"}
Result == [ptr : Entity \cup {Missing, Error}, val : Nat]
NoResult == [ptr |-> Missing, val |-> 0]
ErrorResult == [ptr |-> Error, val |-> 0]

(* One run of executeOperation; `ended` is set by takeUntil(teardown$),    *)
(* and a run after a fetch delivers its result to nobody.                  *)
Exec == [op : Op, policy : Policy, step : {"root", "entity", "finish", "failed"},
         ptr : Entity \cup {Missing}, val : Nat, ended : BOOLEAN]

NewExec(o, p) ==
    [op |-> o, policy |-> p, step |-> "root", ptr |-> Missing, val |-> 0,
     ended |-> p = "network-only"]

Rows(x) == {RootOf[x.op], x.ptr}
Now(r) == IF r \in Query THEN root[r] ELSE data[r]
Seen(x, r) == IF r \in Query THEN x.ptr ELSE x.val

-----------------------------------------------------------------------------
(* The trigger of a table sends a row update for every change; the value   *)
(* of updatedByOperationKey it carries is the one the statement leaves.    *)
Notify(r, by) ==
    /\ updates' = IF triggers[TableOf(r)] = "ready"
                  THEN [updates EXCEPT ![TableOf(r)] = Append(@, [row |-> r, by |-> by])]
                  ELSE updates
    /\ lost' = [o \in Op |->
          IF o \in live /\ ~ (triggers[TableOf(r)] = "ready" /\ r \in changeSubs[o] /\ o # by)
          THEN lost[o] \cup {r} ELSE lost[o]]

Silent == UNCHANGED <<updates, lost>>

(* A run with cache-only of each of the operations S.                      *)
Reexecutions(S) ==
    LET keys == SetToSeq(S)
    IN  [i \in 1 .. Cardinality(S) |-> NewExec(keys[i], "cache-only")]

(* Mutant: the stale keys are cleared before the locks are looked at.      *)
FlushForgetting(running, keys, mut) ==
    /\ stale' = {}
    /\ execs' = IF running # <<>> \/ mut THEN running ELSE Reexecutions(keys \cap live)

(* Mutant: the stale keys are cleared before they are copied.              *)
FlushOfNothing(running, keys, mut) ==
    /\ stale' = IF running # <<>> \/ mut THEN keys ELSE {}
    /\ execs' = running

(* reexecuteStaleOperations, at the release of a lock: with no other lock  *)
(* left, every stale operation that is still live is dispatched again with *)
(* cache-only, and takes its own lock.                                     *)
Flush(running, keys, mut) ==
    IF running # <<>> \/ mut
    THEN stale' = keys /\ execs' = running
    ELSE stale' = {} /\ execs' = Reexecutions(keys \cap live)

-----------------------------------------------------------------------------
Init ==
    /\ root = [q \in Query |-> Missing]
    /\ data = [e \in Entity |-> 0]
    /\ base = [e \in Entity |-> 0]
    /\ updatedBy = [e \in Entity |-> Missing]
    /\ triggers = [t \in Table |-> "none"]
    /\ updates = [t \in Table |-> <<>>]
    /\ net = {}
    /\ live = {}
    /\ changeSubs = [o \in Op |-> {}]
    /\ execs = <<>>
    /\ mutating = FALSE
    /\ persists = <<>>
    /\ stale = {}
    /\ shown = [o \in Op |-> NoResult]
    /\ lost = [o \in Op |-> {}]
    /\ clock = 0 /\ dispatches = 0 /\ netErrors = 0

-----------------------------------------------------------------------------
(* The application.                                                        *)

(* A query is mounted, or fetched again when it is not being worked on.    *)
Dispatch(o, p) ==
    /\ dispatches < MaxDispatches
    /\ p # "cache-only"
    /\ o \in live => /\ o \notin net
                     /\ \A i \in DOMAIN execs : execs[i].op # o
    /\ dispatches' = dispatches + 1
    /\ live' = live \cup {o}
    /\ execs' = IF p = "network-only" THEN execs ELSE Append(execs, NewExec(o, p))
    /\ net' = IF p = "cache-first" THEN net ELSE net \cup {o}
    /\ UNCHANGED <<root, entityVars, updatedBy, triggers, updates, changeSubs, mutating,
                   persists, stale, shown, lost, clock, netErrors>>

(* Its last subscriber is gone: the registry forgets it, its request is    *)
(* cancelled; what is running goes on, but its result is dropped.          *)
Teardown(o) ==
    /\ o \in live
    /\ live' = live \ {o}
    /\ changeSubs' = [changeSubs EXCEPT ![o] = {}]
    /\ net' = net \ {o}
    /\ execs' = [i \in DOMAIN execs |->
                    IF execs[i].op = o THEN [execs[i] EXCEPT !.ended = TRUE] ELSE execs[i]]
    /\ shown' = [shown EXCEPT ![o] = NoResult]
    /\ lost' = [lost EXCEPT ![o] = {}]
    /\ UNCHANGED <<root, entityVars, updatedBy, triggers, updates, mutating, persists,
                   stale, boundVars>>

-----------------------------------------------------------------------------
(* executeOperation of a query.  The statements of one operation are       *)
(* answered in the order they were issued.                                 *)
Stage == [root |-> 1, entity |-> 2, finish |-> 3, failed |-> 3]

IsNext(i, step) ==
    /\ execs[i].step = step
    /\ \A j \in 1 .. i - 1 :
          execs[j].op = execs[i].op => Stage[execs[j].step] > Stage[step]

HasRead(x, r) ==
    lost' = IF x.ended THEN lost ELSE [lost EXCEPT ![x.op] = @ \ {r}]

(* queryById.load of the root field: no row is an error.                   *)
ReadRoot(i) ==
    /\ IsNext(i, "root")
    /\ LET e == root[RootOf[execs[i].op]]
       IN  execs' = [execs EXCEPT ![i].ptr = e,
                                  ![i].step = IF e = Missing THEN "finish" ELSE "entity"]
    /\ HasRead(execs[i], RootOf[execs[i].op])
    /\ UNCHANGED <<root, entityVars, updatedBy, linkVars, watchVars, mutating, persists,
                   stale, shown, boundVars>>

(* entityByRef.load: a row with every field of the query, or no row, whose *)
(* fields are then all "Incomplete data".                                  *)
ReadEntity(i) ==
    /\ IsNext(i, "entity")
    /\ execs' = [execs EXCEPT ![i].val = data[execs[i].ptr], ![i].step = "finish"]
    /\ HasRead(execs[i], execs[i].ptr)
    /\ UNCHANGED <<root, entityVars, updatedBy, linkVars, watchVars, mutating, persists,
                   stale, shown, boundVars>>

(* A statement is rejected, or a field of the entity is "Incomplete data": *)
(* the run has an error, and watches nothing.                              *)
ReadFails(i) ==
    /\ IsNext(i, "root") \/ IsNext(i, "entity")
    /\ execs' = [execs EXCEPT ![i].step = "failed", ![i].ptr = Missing]
    /\ lost' = IF execs[i].ended THEN lost
               ELSE [lost EXCEPT ![execs[i].op] = @ \cup {RootOf[execs[i].op]}]
    /\ UNCHANGED <<root, entityVars, updatedBy, linkVars, watchVars, mutating, persists,
                   stale, shown, boundVars>>

(* watchOperation, unless the operation has been torn down.                *)
Watch(x) ==
    IF x.op \in live
    THEN /\ changeSubs' = [changeSubs EXCEPT ![x.op] = Rows(x)]
         /\ triggers' = [t \in Table |-> IF triggers[t] = "none" THEN "creating"
                                                                 ELSE triggers[t]]
         /\ lost' = [lost EXCEPT ![x.op] = @ \cup (changeSubs[x.op] \ Rows(x))]
    ELSE UNCHANGED <<changeSubs, triggers, lost>>

(* Mutant: a miss is forwarded for the wrong policy.                       *)
ForwardsOthers(x, hit) == ~ x.ended /\ ~ hit /\ x.policy = "cache-and-network"

(* A miss is forwarded to the network, unless the operation already was or *)
(* must not be.                                                            *)
Forwards(x, hit) == ~ x.ended /\ ~ hit /\ x.policy = "cache-first"

(* The end of a run: the rows are watched if there was no error, the lock  *)
(* is released, and the result is delivered (an error only to a run with   *)
(* cache-only), or the operation is forwarded to the network.              *)
FinishExec(i) ==
    LET x == execs[i]
        hit == x.val # 0
        result == IF x.step = "failed" THEN ErrorResult ELSE [ptr |-> x.ptr, val |-> x.val]
    IN  /\ IsNext(i, "finish") \/ IsNext(i, "failed")
        /\ shown' = IF ~ x.ended /\ (hit \/ x.policy = "cache-only")
                    THEN [shown EXCEPT ![x.op] = result] ELSE shown
        /\ IF hit THEN Watch(x) ELSE UNCHANGED <<changeSubs, triggers, lost>>
        /\ Flush(RemoveAt(execs, i), stale, mutating)
        /\ net' = IF Forwards(x, hit) THEN net \cup {x.op} ELSE net
        /\ UNCHANGED <<root, entityVars, updatedBy, updates, live, mutating, persists,
                       boundVars>>

-----------------------------------------------------------------------------
(* Mutant: the row is stamped with its own ref.                            *)
UpsertEntityStampedByRef(o, e, v) ==
    /\ data' = IF base[e] = 0 THEN [data EXCEPT ![e] = v] ELSE data
    /\ base' = IF base[e] = 0 THEN base ELSE [base EXCEPT ![e] = v]
    /\ updatedBy' = [updatedBy EXCEPT ![e] = e]
    /\ IF base[e] = 0 THEN Notify(e, e)
       ELSE lost' = [lost EXCEPT ![o] = @ \cup {e}] /\ UNCHANGED updates

(* upsertEntities with isOptimistic = false.                               *)
UpsertEntity(o, e, v) ==
    /\ data' = IF base[e] = 0 THEN [data EXCEPT ![e] = v] ELSE data
    /\ base' = IF base[e] = 0 THEN base ELSE [base EXCEPT ![e] = v]
    /\ updatedBy' = [updatedBy EXCEPT ![e] = o]
    /\ IF base[e] = 0 THEN Notify(e, o)
       ELSE lost' = [lost EXCEPT ![o] = @ \cup {e}] /\ UNCHANGED updates

(* fetchResults$: the result is delivered as it is; it is written to the   *)
(* database in two statements nobody waits for; an operation that watches  *)
(* nothing is executed to make it watch.                                   *)
NetResult(o, e) ==
    /\ o \in net
    /\ clock + netErrors < MaxWrites
    /\ clock' = clock + 1
    /\ net' = net \ {o}
    /\ shown' = [shown EXCEPT ![o] = [ptr |-> e, val |-> clock + 1]]
    /\ UpsertEntity(o, e, clock + 1)
    /\ persists' = Append(persists, [op |-> o, ptr |-> e])
    /\ Flush(IF changeSubs[o] = {} THEN Append(execs, NewExec(o, "network-only")) ELSE execs,
             stale, mutating)
    /\ UNCHANGED <<root, triggers, watchVars, mutating, dispatches, netErrors>>

(* upsertQueries, when upsertEntities has been answered.                   *)
UpsertQuery ==
    /\ persists # <<>>
    /\ LET p == Head(persists)
           q == RootOf[p.op]
       IN  /\ root' = [root EXCEPT ![q] = p.ptr]
           /\ IF root[q] # p.ptr THEN Notify(q, p.op) ELSE Silent
    /\ persists' = Tail(persists)
    /\ UNCHANGED <<entityVars, updatedBy, triggers, net, watchVars, execs, mutating, stale,
                   shown, boundVars>>

(* A result with an error is dropped.                                      *)
NetError(o) ==
    /\ o \in net
    /\ clock + netErrors < MaxWrites
    /\ netErrors' = netErrors + 1
    /\ net' = net \ {o}
    /\ Flush(execs, stale, mutating)
    /\ UNCHANGED <<root, entityVars, updatedBy, triggers, updates, watchVars, mutating,
                   persists, shown, lost, clock, dispatches>>

-----------------------------------------------------------------------------
(* Optimistic changes.                                                     *)

(* executeOperation of a mutation holds a lock over its patches.           *)
BeginMutation ==
    /\ ~ mutating
    /\ clock + netErrors < MaxWrites
    /\ mutating' = TRUE
    /\ UNCHANGED <<root, entityVars, updatedBy, linkVars, watchVars, execs, persists,
                   stale, shown, lost, boundVars>>

PatchEntity(e) ==
    /\ mutating
    /\ data[e] # 0
    /\ clock + netErrors < MaxWrites
    /\ clock' = clock + 1
    /\ base' = IF base[e] = 0 THEN [base EXCEPT ![e] = data[e]] ELSE base
    /\ data' = [data EXCEPT ![e] = clock + 1]
    /\ updatedBy' = [updatedBy EXCEPT ![e] = Mutation]
    /\ Notify(e, Mutation)
    /\ UNCHANGED <<root, triggers, net, watchVars, execs, mutating, persists, stale, shown,
                   dispatches, netErrors>>

(* Mutant: the lock is released and nothing is flushed.                    *)
EndMutationSilently ==
    /\ mutating
    /\ mutating' = FALSE
    /\ UNCHANGED <<root, entityVars, updatedBy, linkVars, watchVars, execs, persists, stale,
                   shown, lost, boundVars>>

EndMutation ==
    /\ mutating
    /\ mutating' = FALSE
    /\ Flush(execs, stale, FALSE)
    /\ UNCHANGED <<root, entityVars, updatedBy, linkVars, watchVars, persists, shown, lost,
                   boundVars>>

(* Mutant: cleanEntityBases without its test of base.                      *)
CleanEveryEntity(e) ==
    /\ ~ mutating
    /\ data' = [data EXCEPT ![e] = base[e]]
    /\ base' = [base EXCEPT ![e] = 0]
    /\ IF data[e] # 0 THEN Notify(e, updatedBy[e]) ELSE Silent
    /\ UNCHANGED <<root, updatedBy, triggers, net, watchVars, execs, mutating, persists,
                   stale, shown, boundVars>>

(* cleanEntityBases, when the mutation is resolved: it does not touch      *)
(* updatedByOperationKey.                                                  *)
CleanEntity(e) ==
    /\ ~ mutating
    /\ base[e] # 0
    /\ data' = [data EXCEPT ![e] = base[e]]
    /\ base' = [base EXCEPT ![e] = 0]
    /\ Notify(e, updatedBy[e])
    /\ UNCHANGED <<root, updatedBy, triggers, net, watchVars, execs, mutating, persists,
                   stale, shown, boundVars>>

-----------------------------------------------------------------------------
(* Row updates.                                                            *)

(* ReactiveKysely.watchTable: the function and the triggers are created.   *)
CreateTriggers(t) ==
    /\ triggers[t] = "creating"
    /\ triggers' = [triggers EXCEPT ![t] = "ready"]
    /\ UNCHANGED <<root, entityVars, updatedBy, updates, net, watchVars, execs, mutating,
                   persists, stale, shown, lost, boundVars>>

(* The live operations that depend on a row update of another one.         *)
Matches(u) == {o \in live : u.by # o /\ u.row \in changeSubs[o]}

OnTableRowUpdate(t) ==
    /\ updates[t] # <<>>
    /\ updates' = [updates EXCEPT ![t] = Tail(@)]
    /\ Flush(execs, stale \cup Matches(Head(updates[t])), mutating)
    /\ UNCHANGED <<root, entityVars, updatedBy, triggers, net, watchVars, mutating, persists,
                   shown, lost, boundVars>>

-----------------------------------------------------------------------------
Execution ==
    \E i \in DOMAIN execs : ReadRoot(i) \/ ReadEntity(i) \/ FinishExec(i)

NetAnswer(o) == \E e \in Entity : NetResult(o, e)

Next ==
    \/ \E o \in Op, p \in Policy : Dispatch(o, p)
    \/ \E o \in Op : Teardown(o)
    \/ Execution
    \/ \E i \in DOMAIN execs : ReadFails(i)
    \/ \E o \in Op : NetAnswer(o)
    \/ \E o \in Op : NetError(o)
    \/ UpsertQuery
    \/ BeginMutation
    \/ \E e \in Entity : PatchEntity(e)
    \/ EndMutation
    \/ \E e \in Entity : CleanEntity(e)
    \/ \E t \in Table : CreateTriggers(t)
    \/ \E t \in Table : OnTableRowUpdate(t)

Spec == Init /\ [][Next]_vars

(* Of all the statements, row updates and requests under way some is       *)
(* answered, and a mutation ends.                                          *)
Progress ==
    \/ Execution
    \/ UpsertQuery
    \/ \E o \in Op : NetAnswer(o)
    \/ \E t \in Table : OnTableRowUpdate(t)

Fairness == WF_vars(Progress) /\ WF_vars(EndMutation)

LiveSpec == Spec /\ Fairness

-----------------------------------------------------------------------------
(* Properties.                                                             *)

(* Every table and every variable of the exchange holds a value the code   *)
(* can put there.                                                          *)
TypeOK ==
    /\ root \in [Query -> Entity \cup {Missing}]
    /\ data \in [Entity -> Nat]
    /\ base \in [Entity -> Nat]
    /\ updatedBy \in [Entity -> Op \cup {Mutation, Missing}]
    /\ triggers \in [Table -> {"none", "creating", "ready"}]
    /\ updates \in [Table -> Seq([row : Row, by : Op \cup {Mutation, Missing}])]
    /\ net \in SUBSET Op
    /\ live \in SUBSET Op
    /\ changeSubs \in [Op -> SUBSET Row]
    /\ execs \in Seq(Exec)
    /\ mutating \in BOOLEAN
    /\ persists \in Seq([op : Op, ptr : Entity])
    /\ stale \in SUBSET Op
    /\ shown \in [Op -> Result]
    /\ lost \in [Op -> SUBSET Row]
    /\ clock \in Nat /\ dispatches \in Nat /\ netErrors \in Nat

(* A root field never points to an entity that is not in the cache, with   *)
(* any interleaving of the two statements of several results: a query that *)
(* finds its root can be answered.                                         *)
NoDanglingRoot ==
    \A q \in Query : root[q] # Missing => data[root[q]] # 0

(* A stale operation never waits with no lock to wait for: whatever order  *)
(* executions, mutations, results and row updates end in, the last one to  *)
(* release its lock executes it.                                           *)
StaleHasALock ==
    stale # {} => execs # <<>> \/ mutating

(* A live query misses no row update that can match it.  If the data it    *)
(* shows is not what the tables hold, it is stale, being executed or being *)
(* persisted, or such a row update is on its way - unless the row changed  *)
(* while the query did not watch it, or by a write stamped with its own    *)
(* key, or was last read by a run that failed.  A query that shows the     *)
(* error of a failed re-execution is left out.                             *)
InHand(o) ==
    \/ o \in stale
    \/ \E i \in DOMAIN execs : execs[i].op = o /\ ~ execs[i].ended
    \/ \E i \in DOMAIN persists : persists[i].op = o
    \/ \E t \in Table : \E i \in DOMAIN updates[t] :
          updates[t][i].row \in changeSubs[o] /\ updates[t][i].by # o

Outdated(o) == {r \in {RootOf[o], shown[o].ptr} : Now(r) # Seen(shown[o], r)}

NoMissedUpdate ==
    \A o \in live :
        shown[o].val # 0 /\ ~ InHand(o) => Outdated(o) \subseteq lost[o]

(* The data a live query shows is replaced by an error only when a         *)
(* statement of a re-execution was rejected or a field was missing: no     *)
(* order of results, patches, clean-ups and other runs takes the row of    *)
(* its root or of its entity away between two executions or between the    *)
(* two statements of one.                                                  *)
OnlyFailedReadsShowErrors ==
    [][\A o \in Op : shown[o].val # 0 /\ o \in live' /\ shown'[o].val = 0 =>
          \E i \in DOMAIN execs : /\ execs[i].op = o /\ execs[i].policy = "cache-only"
                                  /\ execs[i].step = "failed"]_vars

(* A query that is stale and still live gets a run with cache-only that    *)
(* reads its root after it became stale, once the locks taken meanwhile    *)
(* are released.  Locks end here since dispatches and writes are bounded;  *)
(* locks that always overlap would put the run off for ever.               *)
AboutToRead(o) ==
    \E i \in DOMAIN execs : /\ execs[i].op = o /\ ~ execs[i].ended
                            /\ execs[i].policy = "cache-only" /\ execs[i].step = "root"

StaleIsReexecuted ==
    \A o \in Op : o \in stale ~> o \notin live \/ AboutToRead(o)

(* A query gets a result, from the cache or from the network.              *)
Answered ==
    \A o \in Op : o \in live ~> shown[o] # NoResult \/ o \notin live
                                  \/ netErrors > 0 \/ clock = MaxWrites

=============================================================================
