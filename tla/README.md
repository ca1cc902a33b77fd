# Verification of repliql

TLA+ specifications of the packages of this repository, the TLC runs that check
them on small instances, and TLAPS proofs of what matters most for instances of
every size. `PROJECT.json` lists the runs, the mutants (plausible bugs each
property must detect), the source lines behind each definition, the hazards and
the proved theorems.

    tlc -config MCMutations.cfg MCMutations      # one run
    tlapm MutationsProofs.tla                    # one module of proofs

## 1. The system

repliql is a normalized GraphQL cache for URQL that lives in SQLite inside the
browser. SQLite needs a dedicated worker (OPFS), the cache must be shared by
all tabs (a SharedWorker), so the packages stack like this:

    tab page ── urql client ── proxy exchange ─┐           (shared-exchange, shared-service)
                                               │ Comlink
    shared worker   SharedExchangeService ── coldStart ── repliqlExchange ── Database
                                                              │  Mutations-    │ kysely
                                                              │  Processor     │ (reactive-kysely)
                    conduit Broker ── BridgedDriver ──────────┴────────────────┘
                         │ MessagePort to the leader
    tab's dedicated worker   DriverBridge ── SQLite

| Component | State it keeps | Operations | Interacts with |
|---|---|---|---|
| **MutationsProcessor** (`repliql/src`) | memoised `startPromise`, `cyclePromise`, `queuedCycle`, resolvers of awaited replays | `start`, `initMutation`, `runCycle`, `onMutationResult` | Database statements; `client.reexecuteOperation`; called by repliqlExchange |
| **Database** | tables `entities` (data, base), `queries`, `mutations`, `mutationPatches` | upserts, `patchEntities`, claim / requeue / resolve, `cleanEntityBases`, `reapplyAllMutationPatches` | the kysely driver; every statement may be rejected when the leader tab dies |
| **repliqlExchange** | live operations, change subscriptions, stale keys, locks | local execution, forwarding, persistence of results, re-execution of stale queries | Database, MutationsProcessor, row updates of reactive-kysely, the next exchange |
| **conduit** | `tabs`, `currentLeaderId`, `pendingDispatches`, `inflightByLeader` | register / unregister / heartbeat stop, `callOnLeader`, promotion | pages (envelopes, Web Locks), dedicated workers (ports), listeners of `leaderElected` |
| **kysely-driver-bridge** | driver, memoised init, connections by id; stored callbacks | `init`, acquire / release, transactions, `createCallbackFunction` | conduit (calls and election events) |
| **reactive-kysely** | watched tables, schema promise, row-update subject | `watchTable`, `liveQuery`, compilation and matching of change subscriptions | triggers in SQLite through the bridge |
| **operations registry, fast cache, cold start** | registry of operations with evictions, pending writes and deletes, OPFS files | `spy`, `flush`, `sweep`, `read` | timers, OPFS |
| **shared-exchange / shared-service** | operations with their subscribers, results per tab | subscribe, handoff, teardown when a tab stops | heartbeats, Comlink |
| **utils** | none | execution of a document, normalization, hashing | – |

What makes it hard: everything is asynchronous (a statement is a message to a
worker of another tab and back), nothing is transactional across statements,
tabs die at any time and take the database connection with them, the network
answers late, fails or does not answer, and the same rows are written by local
optimistic patches and by server results.

What makes each component correct:

* mutation queue: order, one at a time, nothing lost or replayed again once
  its answer is recorded, wake-ups never lost, restart repairs every interrupted step;
* tables: an optimistic value stays visible while its mutation is unresolved
  and disappears, leaving exactly what the server said, when it is resolved;
* conduit: one leader while there is a tab, calls run at most once and settle,
  in order, after the callbacks they need;
* live queries: a change that arrives while a query executes is not lost;
* bridge: a transaction is in the database as a whole or not at all, whatever
  happens to the leader, and an id the next leader does not know never covers
  its first error;
* reactive-kysely: a live query is executed again for every change of its
  result, and its listeners end up with what it answers now;
* execution and normalization: what is answered from the tables is what the
  server would answer;
* registries and caches: an operation that the client has is never evicted, and
  a file holds the last result of an operation that is kept;
* shared exchange: the maps of the hub agree, one living tab fetches what
  several have asked for, and another one takes over when it goes.

## 2. Modules

| Module | What it is |
|---|---|
| `Mutations` | the mutation queue, the tables it uses, the execution of mutations |
| `EntityStore` | abstract: what the entities table promises its readers |
| `MutationsProofs` | types, order, optimistic values, refinement, wake-ups, claims and restarts of `Mutations`, proved |
| `Conduit` | pages, broker, ports, dedicated workers, callbacks |
| `RemoteCalls` | abstract: a remote call that runs and settles at most once |
| `ConduitProofs` | invariants, step property and refinement of `Conduit`, proved |
| `LiveQueries` | execution of queries, watches, row updates, stale queries and locks |
| `LiveQueriesProofs` | types, locks and the cache of `LiveQueries`, proved |
| `MissedUpdatesProofs` | that no row update is missed, proved |
| `SelectQuery` | SELECT as data, and what SQLite answers to it (reference) |
| `ChangeSubscription` | from a SELECT to its change subscription, and the decision about a changed row |
| `EntityPointers` | the queries by which repliql finds entities |
| `RowUpdates` | a database that changes row by row under one live query |
| `LiveSource` | the subscribers of a live query and the source they share, over any answer |
| `LiveSourceProofs` | that a quiet source has given every listener the answer, proved |
| `LiveSelect` | `LiveSource` over `RowUpdates`, with the triggers |
| `Execute` | execution of a GraphQL document on the cache |
| `Normalize` | from a response to rows, and the upserts |
| `NormalizedCache` | the two against a server that answers and changes (reference) |
| `OrderedSets` | a JavaScript Set in its order of insertion |
| `SharedExchange` | the hub, the tabs and the ports between them |
| `SharedExchangeProofs` | the maps of the hub, who fetches a subscription, and that no operation is forgotten, proved |
| `DriverBridge` | transactions over the bridge, with leaders that come and go |
| `DriverBridgeProofs` | types, atomicity and errors of `DriverBridge`, proved |
| `ResultCaches` | the operations registry, the fast cache and the cold start |
| `ResultCachesProofs` | what the caches keep and the files hold, proved |

`MC...` modules give the constants of a specification their values for TLC.
`RowUpdates` extends `ChangeSubscription`, which extends `SelectQuery`;
`LiveSelect` composes `RowUpdates` with the subscribers of `LiveSource`; `NormalizedCache`
composes `Execute` and `Normalize`; `ResultCaches` has both exchanges over one
registry, and takes the queue of that registry, like `SharedExchange` its tabs and
subscribers, from `OrderedSets`. `Mutations`, `Conduit` and `LiveQueries` stand for each other's
effects: the first takes what the second does to a statement (a rejection by
`LeaderResignedError`), the third what the first does to entities and locks.

### Mutations

One SQL statement is one step, and what its caller does with the answer another
one: the driver serialises statements on one connection (`Database` opens no
second one) but between a statement and its continuation anything may happen.
The state is the tables (`status` and `rows` for `mutations`, `patch` and
`patchRows` for `mutationPatches`, `present`, `data`, `base` for `entities`),
the connection's `foreign_keys` pragma, and the memory of the worker (`exec`
for each `executeOperation`, `start` for the memoised startup, `calls`, `pc`,
`cur`, `verdict`, `queued` for the cycle, `net` for requests on the network).

* `Begin`, `PatchEntity`, `FinishExec`: `executeOperation` of a mutation. The
  row is inserted before the resolvers run; a resolver may call `patchEntity`
  any number of times, on any entity; at the end `runCycle()` is called without
  being awaited, and a result with errors is also forwarded to the network.
* `Migrated`, `StartRequeue`, `StartClean`, `StartReapply`: `start()`.
* `EnterCycle`, `Claim`, `NothingClaimed`, `SendReplay`, `ReplayApplied`,
  `ReplayFailed`, `ReplayNetworkError`, `Requeue`, `Settle`, `CleanOwn`: the
  cycle. `ReplayApplied` issues the upsert of the result before the statements
  of the resolution, as the order of the un-awaited calls in `fetchResults$`.
  An empty result stands for an upsert that failed.
* `QueryResult`, `DirectResult`: results of other operations, at any time.
* `BeginFault`, `PatchFault`, `StartFault`, `CycleFault`, `Failover`: a
  statement rejected with `LeaderResignedError`, before or after it took effect.
* `Crash`: the shared worker restarts; tables stay, memory does not.

`sent` is history: the mutations the processor has replayed and that nothing
since has given it a reason to send again (`SendAgain`: a network error, or a
restart or a rejected statement of the cycle while the row is inflight).
`ReplayedForAReason` says that the cycle claims none of them. An answer that has
come but is not recorded does not stop the second replay, and what `FinishExec`
forwards directly is not counted: section 3 lists it.

Data is abstract: an entity has a few fields; the value a mutation writes is the
mutation itself, a server value is a constant, so that an optimistic value can
be told from a server value and from that of another mutation. `json_patch`
is `Merge`. `$createdAt` order is taken to be row order: the column has a
resolution of one second and SQLite scans the table in row order among ties.
The statuses `draft` and `canceled` are never written and are left out.

### Conduit

A handler of the shared worker is one step, because the broker never awaits.
Pages `Start`, `PostRegister` once the heartbeat lock is held, `Leave`
(`pagehide`, or `dispose()` once registered: the worker stays alive) and `Die`.
`Register`, `Unregister`, `HeartbeatStop`, `CallOnLeader` and `Settle` are the
broker's handlers; `Promote` and `RemoveTab` are its private methods, with
everything they call. `CreateCallback` and `Replay` are
`replayCreateCallbackFunction`. `WorkerReceive` handles one message of a port:
the election exposes the API, a callback is installed, a method is run; messages
that arrive before the API is exposed are lost. `WorkerReply` ends a method.
Ports deliver in order; the broker's end of a closed port delivers nothing, the
worker's end still delivers what was posted before. Calls are numbered in the
order they are made, so `PortOrder` compares numbers. `needs` and `ran` are
history: what existed when a call was made, how often a method ran.

A tab registers once (its id is random and made by the `conduit()` call that
posts the envelope), so the broker's test for a duplicate registration is a
guard. `MessagePort.postMessage` does not throw; a remote that throws
synchronously from `invoke` cannot be built from a port.

### LiveQueries

A query has one root field and reads two rows with one statement each: the row
of its root field in `queries`, which points to an entity, and the row of that
entity. That is the least that lets two statements of one execution see
different moments. Values are clock values: every result and every patch writes
a fresh one, so a stale value is told from a current one.

* `Dispatch`, `Teardown`: the application mounts, refetches and unmounts a
  query; `Teardown` includes the registry's immediate eviction.
* `ReadRoot`, `ReadEntity`, `FinishExec`: `executeOperation` of a query and what
  `executeExchange` does with it: `Watch` is `watchOperation`, `Forwards` the
  first branch of `fetchResults$`, `Flush` the release of the lock.
* `ReadFails`: a statement of the execution is rejected (as when the leader
  resigns), or a field it asks for is missing from the row ("Incomplete data").
  The execution ends with an error: a first execution is forwarded to the
  network, a re-execution delivers the error and watches nothing. A row has one
  value here; which of its fields an earlier result left out is a choice of
  `ReadFails` (`NormalizedCache` has fields, documents and partial rows).
* `NetResult`, `UpsertQuery`, `NetError`: the `tap` of `fetchResults$` and the
  two statements of `persistOperationResult`, which nobody awaits, so that any
  read or write may come between them.
* `BeginMutation`, `PatchEntity`, `EndMutation`, `CleanEntity`: what the mutation
  queue does to the entities and to the locks (`Mutations` has the queue itself).
* `CreateTriggers`, `OnTableRowUpdate`: `watchTable` of reactive-kysely and the
  row updates, one ordered queue per table.

The locks are the executions in `execs` plus `mutating`; a lock that is taken and
released by one synchronous callback (a row update) is one step. Assumed of the
code around it: the statements of one operation are answered in the order they
were issued; urql does not dispatch a query again while it is being worked on;
row updates travel on their own port, unordered with the answers.

`lost` is history: the rows that changed since a query read them, by a write for
which the query has no row update to match: the trigger was not created yet, the
query did not watch the row, or the row carries the query's own key. These are
the changes this design does not see, and a read that failed adds the root it was
after; `NoMissedUpdate` says there are no others, as long as data is shown. What
shows an error watches what it did before.

### SelectQuery, ChangeSubscription, EntityPointers, RowUpdates

A Kysely query is a record of its clauses, and its nodes are records with the
`kind` the code switches on. `Result` is what SQLite answers: joins, NULL and
three-valued logic, JSON fields, CTEs, subqueries, groups. It is external, and
it is the reference: the walk of the code is right when it loses nothing of it.

`build` is `queryToChangeSubscription`: the selection (columns and JSON keys
read) and the filter (alternatives of pinned columns), per table, with the
aliases, the joins that must take part, `whereToPredicates` and its products
(`crossAnd`), the absorbed subqueries. `isChangeSubscriptionUpdate` decides from
the old and the new row. Arrays whose order nobody reads are sets, as the
dedupe keys of the code make of them. `EntityPointers` builds the query of
`selectEntityPointersQuery` from a tree of filters; `projects` and
`workflowStates` are two resolvers of the demonstration that use it.

`RowUpdates` changes one row of a watched table at a time (`Insert`, `Update`,
`Delete`); a statement on several rows is reported row by row, so nothing is
lost by it. `Decided` names the queries for which a single row can decide: every
column that the result depends on is selected, sorted by, or pinned by a
condition that the walk turns into values. `Pinning` names those for which the
filter says exactly when a row matches. Outside of them the code does miss
changes or signals idly: section 3 lists the shapes.

### LiveSource, LiveSelect

`LiveSource` has the subscribers and the shared source, and of the database only
what the query answers now (`answer`), and whether the change of a row is
reported (`RowChange`). A subscriber runs the query for itself first and listens
to the shared source afterwards (`lazy`, `concat`): `Subscribe`,
`StartListening`, `Unsubscribe`, `Release` (its own debounce). The hook
`useLiveSelect` is such a subscriber. `FireDebounce` starts an execution,
`RunQuery`, `RunFails`, `Ignore` and `Emit` are the statements, which are answered
in the order they were issued, and the hash that lets a result through
(`lastSeen`); a subscriber that leaves drops the result of its first run, the
last listener those of the source, with its debounce and its hash. Subscribers
share a source when the query and the debounce of the source are the same; one
of them may have given the default as its own `debounceMs` and debounce once more
for itself, so `Debouncing` is a set of subscribers.

Two variables are history. `missed` has the subscribers who were not reported a
change: no trigger yet, a rejected statement, or still on their own first run.
`late` has those who joined a connected source and were given no update since: the
hash was taken before they came, so a result that equals it is not let through to
them.

`LiveSelect` puts the database of `RowUpdates` in the place of the answer:
`answer` is the result of the query, and `Write` is a row change that is reported
when the trigger exists and the compiled subscription takes it (`Concerns`). The
first listener asks for the triggers of the tables, three for each
(`CreateTrigger`, `WatchFails`). `LiveSelect` extends both modules; each of its
actions is one of `LiveSource`, with what happens to the tables beside it
(`LiveSubscribe`, `LiveRunFails`...), or leaves the variables of `LiveSource` alone,
so what is proved of `LiveSource` is so of `LiveSelect`.

### Execute, Normalize, NormalizedCache

JSON values are records told apart by `k`; a document is an operation with
variables, nested selections, fragments and directives. `execute` is the
schema-less executor of `utils`, with the field resolver `repliqlExchange`
gives it and its coercion of variables; fields of a level only read, so it is a
function of the tables. `transformQueryData` takes a response apart;
`upsertEntities` and `upsertQueries` are the two statements of
`persistOperationResult`, with `json_patch`, the sentinel for null and the NOT
NULL constraint of the column.

`NormalizedCache` puts them to work: a server in one of a few states (`Graph`)
answers (`Answer`, which this project states for itself from the rules of GraphQL),
responses are delivered in any order (`Deliver` saves the entities, `SaveQueries`
the root fields, `SaveFails` is a rejected second statement), and the server may
change. The operations of the run ask objects that have an id for it, and no
field for a JSON object; section 3 says what happens otherwise.

### SharedExchange

`ops`, `answered` and `fetching` belong to a tab (`proxySharedExchange`), the rest
to the hub (`SharedExchangeService`): registered tabs, subscribers of an
operation in their order, active handles, the tab each was forwarded to. Calls
(`toHub`) and callbacks (`toTab`) travel on ports, first in first out, so every
handler of either side is a step that takes one message: `Register`,
`ExecuteOperation`, `TeardownOperation`, `ResolveForwarded`; `OnResult`,
`OnForward`, `OnForwardTeardown`, `OnReexecute`. `Hit` and `Forward` are the two
outcomes of the wrapped exchange, `Leave` with `HandsOff` and `Successor` what
happens when a tab leaves an operation, `OnDisconnectTab` the end of a heartbeat.
The handle of a mutation is unique, so a mutation is a query that nobody else asks.
Assumed: the lock of a dead tab is granted after the messages it had posted.

### DriverBridge

`step` and `call` say which method a transaction of a consumer called last and
how far that call is (posted, initialising, waiting for the mutex, answered,
rejected). `ServeUnknown` to `ReleaseConnection` and `Destroy` are
`DriverBridge`; `Start`, `Proceed`, `CleanUp`, `Swallow`, `Rejected` are Kysely's
transaction around `BridgedDriver`, with the cleanup errors it swallows;
`Resign` and `Elect` are the conduit. `Resign` rejects the calls that are not
settled, the answers still on their way among them; a call that has been
answered goes on, and its next one reaches the next leader with an id that this
one does not know.

`memo` and `pending` are `#initPromise` and the initialisations under way:
`AwaitInit` begins one or joins the one remembered, also from `#requireDriver`
inside another method. `Destroy` may come meanwhile: it clears the memo, the
initialisation goes on and sets `#driver` (`InitResolves`), and the next `init()`
makes a second driver. A driver is therefore a number. Each has one connection
and a mutex for it (`locked`), while all drivers of a worker share its SQLite
handle, as in `dedicated.worker/index.ts` of the demonstration, and SQLite has
one transaction (`open`). `OutOfTurn` is what it rejects at the wrong moment, and
`Reject` any other error, after which SQLite may have rolled back on its own, so
that the rollback that follows is rejected too. These are external.

A connection id names the connection one `acquireConnection` returned, so it is
represented by its consumer, and another leader does not know it. Calls that go
on by promises alone do so before the next task: `Destroy` waits for a call that
is past its initialisation, `Elect` for a settled call to make its next one; so a
call that is made between two leaders waits for the second, as `pendingDispatches`
has it. `robbed` and `doubled` are history: whose transaction another
consumer's commit or rollback has ended, and whether `destroy()` has come during
an initialisation, without which there is never a second driver.

### ResultCaches

`operationsRegistry` is a record (`keys`, `evictable`, `timers`, `lruQueue`) with
the transitions of `spy` for each strategy: the fast cache runs it with "lru",
the cold start with "delayed", the live queries with "immediate" (in
`LiveQueries`). `Query` and `Teardown` are what the client does, `Result` what the
inner exchange answers (a hit of the database or not), `Read` a file that has been read before the
database answered, `Evict` the timer of the cold start, `FlushWrites`,
`FlushDeletes`, `Sweep`, `SweepFile` its maintenance, each up to its next await, and
`Reload` loses the memory and keeps the files. The file system (external) does
what it is asked for one file in the order it was asked (`io`, `FileSystem`).
A result is the version of its data.

## 3. Runs

Faults and inputs are bounded by constants with names that say so (`Max...`).

| Run | Instance | Shows |
|---|---|---|
| `MCMutations` | 2 mutations, 1 entity, 1 field, 2 server values; 1 restart, 1 network error, 1 rejected statement | the queue stays in order and replays nothing again without a reason, optimistic values stay visible, wake-ups are not lost, a restart repairs what it interrupted, the tables implement `EntityStore`; without faults every mutation is resolved |
| `MCConduit` | 3 pages, 2 calls, 1 callback, 2 clock values, 1 departure | types with the leader, no call is lost, order of the messages on a port |
| `MCConduitLive` | 2 pages, 2 calls, 1 callback | calls are given up only with their leader, a call that was sent settles, `Conduit` implements `RemoteCalls` |
| `MCLiveQueries` | 2 operations of one root field, 1 entity, 2 dispatches, 2 results, patches or failed requests, failed reads without bound | a stale query has a lock and is about to be read again in the end, no row update is missed, roots never dangle, only a failed read of a re-execution replaces a result by an error, a mounted query is answered |
| `MCRowUpdates` | 26 shapes of query, 2 users, 1 post, 2 entities, every change of every state | a change that is not signalled does not change the result; for pinned queries, one that is does |
| `MCLiveSelect` | 1 query, 2 subscribers, 2 subscriptions, 3 writes, 1 fault | a quiet source has given every listener the current answer, the excuses apart; a reported change is shown |
| `MCNormalizedCache` | 10 operations, 2 server states, 3 responses, 1 change, 1 failed save | a hit is the server's answer, what was saved is read back, no pointer dangles |
| `MCSharedExchange` | 2 tabs, 1 query, 1 subscription, 2 dispatches, 1 re-execution or result of the subscription, 1 death | the maps agree, one living tab fetches a subscription, it is always taken over, a query is answered unless a tab dies |
| `MCDriverBridge` | 2 transactions of 2 statements, 1 resignation, 1 error, 1 closed consumer, 1 destroy | transactions are atomic across leaders as long as one driver serves them, a stale id covers no error, they end |
| `MCResultCaches` | 2 operations, an LRU queue of 1, 2 flushes, 3 queries, 2 results, 1 reload | an active operation is kept, a settled file is current |

Why these bounds. Two mutations on one entity are the least that makes the
settlement of one meet the patch of the other. Three tabs let a leader, its
successor and a bystander exist together; two calls let one be queued and one in
flight. Two operations of one root make each the writer of what the other
watches, and two writes put a result and a patch between any two reads. One
fault of each kind, placed anywhere, reaches every interrupted pair of
statements. In `MCRowUpdates` a column has two values, or one and NULL, enough to
start and to stop matching; the shapes are those that the walk tells apart. In
`MCNormalizedCache` two responses can meet half-saved and a third one can come
from the changed server. In `MCLiveSelect` three writes let an answer change and
change back around the first run of a second subscriber, which is what the excuse
`late` is about: without it TLC finds the listener that keeps an older answer; the two
subscriptions are those of two subscribers, or of one that comes back. Two tabs are the one that fetches and the one that takes
over, and two dispatches let both ask for one operation, or one come back to it.
One
resignation, one error and one `destroy()`, each at any step of two
transactions, put a second failure into the cleanup of the first; what is safe for
one resignation is proved for any number. An LRU queue of one is full with the first
operation, and two flushes can overlap. Symmetry (over tabs) is used in
`MCConduit` only, whose specification treats tabs alike and which has no
liveness.

Fairness, and why the code justifies it:

* `Mutations`: the worker runs its continuations, the database answers, the
  execution of a resolver ends and the network answers a replay; nothing is
  assumed of new mutations, query results or faults.
* `Conduit`: messages are delivered, a lock that was released is granted, a live
  worker handles its messages and its methods end.
* `LiveQueries`: of all the statements, row updates and requests under way some
  is answered, and a mutation ends. A read need not fail. Dispatches
  and writes are bounded, so the locks end: where locks always overlap, the flush
  of the last one (`repliqlExchange.ts:162`) never comes and stale queries wait.
* `LiveSelect`: timers fire and statements end; triggers may never be made.
  Writes are bounded, so they stop: under steady writes the debounce, which
  starts anew with each, never fires.
* `SharedExchange`: ports deliver, the wrapped exchange answers or forwards, the
  next exchanges of a tab answer a query (not a subscription), the heartbeat of
  a dead tab stops.
* `DriverBridge`: the worker serves, Kysely goes on, an initialisation ends, the
  conduit elects a leader (weak); the mutex starves nobody, as its waiters are
  woken in order (strong, since others take the connection in between).

Deadlock is checked for `Mutations`, where a query result is always possible. The
other systems really may stop: all pages may be gone, the application may do
nothing more, the transactions may all have ended.

Two runs are expected to find a violation, of what a document says:

| Run | Document | What happens |
|---|---|---|
| `MCMutationsReconciled` | repliql/README.md:67 | a mutation resolved before its resolver patches leaves an optimistic entity until the next restart (MutationsProcessor.ts:85) |
| `MCRowUpdatesQuickStart` | reactive-kysely/README.md:38 | the first example of a live query, `select id, name where age > 18`, is not signalled a user whose age passes 18 (queryToChangeSubscription.ts:742) |

### More disagreements, without a run of their own

Mutations (paths under `src/packages/repliql`):

* a mutation with local errors is sent directly and replayed from the queue as
  well (`repliqlExchange.ts:520`; the comment at 534 calls mutations
  processor-only; `FinishExec`, `DirectResult`);
* `patchEntity` of an entity that is not cached breaks the foreign key
  (`database/index.ts:295`; `PatchRefused`); after a failover the new connection
  does not enforce it;
* after a network error nothing runs the next cycle (`MutationsProcessor.ts:152`);
* a second `patchEntity` of one entity by one mutation replaces the recorded
  patch (`database/index.ts:307`), so a restart rebuilds the entity without the
  first (`PatchEffect`, `Reapplied`).

Conduit (`src/packages/conduit`):

* a worker is never told that it no longer leads (`Broker.ts:206`,
  `README.md:20`, and the demonstration's dedicated worker, `index.ts:18`): a tab
  that left stays elected in its own worker while the next one is elected;
* the successor of a leader is the tab with the largest `registeredAt`
  (`NextLeader`), the first inserted one among equals. `tab.ts:42` says the oldest
  tab is picked, `Broker.ts:28` the youngest, and the test at `broker.test.ts:132`,
  named after the oldest, passes because its tabs register in the same
  millisecond.

Live queries (`src/packages/repliql`):

* the execution after a fetch races the write of its root field, may fail, and
  then watches nothing (`repliqlExchange.ts:552`, against the comment at 560);
* a re-execution that fails delivers its error in the place of the result that
  was shown (`repliqlExchange.ts:579`; `ReadFails`, `FinishExec`): a read that a
  failover rejects, or a row that lacks a field of the query (429), shows an error
  until a row of the last watch changes;
* stale queries are executed by the release of the last lock only
  (`repliqlExchange.ts:162`), so operations that always overlap put them off;
* `README.md:65` says an operation is executed again when a row update touches a
  tracked row; not when the row carries its own key, which `cleanEntityBases`
  leaves in place when it takes back a patch (`CleanEntity`, `lost`).

Change subscriptions (`src/packages/reactive-kysely`). Missed changes:

* a column compared by a range or LIKE, or only in the ON of a join, is not
  tracked; with a WHERE on the joined table only, the table of FROM is not in
  the filter; an unqualified column of a query on two tables puts its values on
  one of them, whichever;
* an UPDATE of a column that only a subquery in WHERE reads is missed;
* values and not-values of one column, joined by AND, keep only the whitelist;
  `!=` and `not in` miss NULL becoming a value;
* changes between the first run and the triggers; a re-execution or a
  `watchTable` that fails is forgotten until the next change or connection;
* a query without WHERE whose selections are all opaque (`sql`, functions) is
  told of nothing: its tables are not in `selectedTables`, so the filter is
  empty and matches no row (`queryToChangeSubscription.ts:523`);
* two subscribers of a source share `lastSeenDataHash`, so one whose own first
  result was older can keep it (`late`, and `ShowsAnswer` of `LiveSource`).

Idle signals: two value lists of one column are united; HAVING, disjunctions too
wide and subqueries make the pins useless. And the name of a CTE that is
inner-joined leaks into the joins that must take part, so that `watchTable` is
asked for a table that does not exist and throws.

Execution and normalization (`src/packages/utils`, `src/packages/repliql`):

* a JSON scalar that is an object is saved as `{}` and answered as such
  (`README.md:66` of repliql; the test at `transformQueryData.test.ts:582` shows
  the saving);
* the defaults of variables are ignored when saving and coerced when reading
  (`utils/README.md:51`), so such an operation misses;
* an undefined property of a later occurrence of an entity (skipped, or of
  another type's fragment) replaces an earlier value; duplicate selections of an
  object without id replace each other, and so do those of two operations; an
  object asked once with its id and once without is merged with its pointer;
* a root field that is skipped alone makes the second statement fail on NOT NULL;
* type conditions are not evaluated, so an operation with fragments on several
  types always misses; a pointer resolved to null or to a row that does not
  exist is a miss; `where: {field: null}` compiles to `= NULL`, which no row
  matches;
* the second statement of `persistOperationResult` is neither awaited nor
  retried.

Shared exchange (`src/packages/shared-exchange`, `shared-service`):

* a query is not handed over when the tab that fetches it dies, and the others
  wait;
* a message of a dead tab handled after its lock is granted leaves a tab that
  nothing removes (the README of shared-service: "crashed tabs are cleaned up just
  like cleanly closed ones"); excluded by the assumption of section 2;
* a later subscriber of an active subscription gets only future results; the
  teardown of a query is sent to the last tab that left it, not to the one that
  fetches it; a failed connection is never tried again, and a rejected
  registration sets up the pipeline twice.

Driver bridge (`src/packages/kysely-driver-bridge`):

* a consumer that goes away with the connection keeps it and everyone waits;
  `destroy()` forgets who waits for the mutex;
* a release that a failover rejects after a commit reports an error for a
  committed transaction; a failover between two calls shows as
  UnknownConnectionError rather than LeaderResignedError (against the comment at
  `BridgedDriver.ts:12`);
* after an error for which SQLite has rolled back, the rollback that follows is
  rejected, and its error takes the place of the first one (`BridgedDriver.ts:73`,
  which swallows an unknown id only; `StaleIdShadowsNothing`);
* a `destroy()` during an initialisation leaves that driver behind in `#driver`
  with no memo (`DriverBridge.ts:50` and `114`), so a later `init()` makes a second
  one: two consumers are let in, and one may commit or roll back what the other
  has written so far (`robbed`).

Caches (`src/packages/repliql`, `src/packages/utils`):

* a file read that ends after the database has answered replaces the newer data
  (`bypassed` is not tested again);
* an active operation that is pushed out of the LRU queue is never evicted once
  it is torn down; timers that fired stay in the registry's map;
* flushes that overlap rely on the order the file system keeps for one file.

## 4. Proofs

`MutationsProofs` proves, for any sets of mutations, entities, fields and server
values and any bounds on the faults:

* `TypeCorrect` – `TypeOK`, together with `CycleOK`, which relates the program
  counter of the cycle to the row it holds (a cycle that settles has a row and
  a verdict, an idle one has none);
* `QueueIsSafe` – `AtMostOneInflight` and `SentInOrder`. `SentInOrder` alone is
  not inductive: `rows` must have no duplicates and hold exactly the mutations
  with a status (`RowsOK`), so that the claim, which looks at the oldest pending
  row when nothing is inflight, cannot pass over an older one;
* `OptimisticIsSafe` – `ActivePatchHasBase` and `OptimisticFieldShown`, from
  `PatchesOK`: a patch belongs to a mutation with a row, its rows are listed in
  `patchRows`, and its values are its mutation's. The repair at startup needs
  that the last writer of a field exists (`LastExists`), by well-founded
  induction on the position;
* `ReplaysHaveReasons` – `ReplayedForAReason`, from `CycleOK` and `SentOK`: a
  mutation that was sent for good is resolved, and no step changes its status
  then (`ResolvedStep`), or is the row of the cycle, which waits for its answer or
  records it;
* `TablesImplementStore` – `Mutations` implements `EntityStore` under the
  mapping of the module: initial states map to initial states and every action
  to a step of the store or a stutter.

`LiveQueriesProofs` proves, for any finite set of operations, any root fields and
entities, and any bounds:

* `TypeCorrect` – `TypeOK`, together with what a run can have found at each
  stage (`SoundExec`), without which the pointer it reads through has no type;
* `LocksCoverStaleness` – `StaleHasALock`, inductive with the types: every
  release of a lock either leaves another one or clears the stale keys;
* `RootsDoNotDangle` and `ErrorsAreOfFailedReads`, from `CacheInv`: nothing is ever
  removed from the cache, so whatever points to an entity (a root, a result being
  persisted, a base, a run) points to a cached one, and every operation that
  watches, is stale or is executed with cache-only has its root cached. A
  re-execution therefore finds the rows it needs, and an error it delivers is that of
  a read that failed.

`MissedUpdatesProofs` proves `NoUpdateIsMissed` – `NoMissedUpdate`, by following
each change from the write to the query. `NoMissedUpdate` alone is not
inductive, for two reasons. A result that is shown was collected by a run, and
rows changed while it ran: `TrackInv` says of each run, as of each result shown,
that a row that differs now from what was read then is `Tracked` (a row update
that matches is on its way, or the change is in `lost`) or the operation is stale.
And a run counts as an answer to come only if it will deliver one: `Answers`, row
by row, takes a run with cache-only, which delivers whatever happens, and of the
others those that have found the row, and `RootIsComing` says that then the root of
what is shown is still being written. `LiveInv` adds that an operation has one
run that is not ended, and that nothing is kept of an operation that was torn
down. The three invariants also hold on the instance of
`MCLiveQueries`, where they were tried before they were proved.

The second half of `MutationsProofs` has the processor:

* `NoWakeupIsLost` – `NoLostWakeup` speaks of an idle processor only, so it says
  nothing of the step before. `Awake` says who will look at a waiting mutation
  at any moment: `start()` and the call that follows it, a call on its way to the
  test of `cyclePromise`, or the running cycle, which has yet to claim, will claim
  again after the row it has, or was asked to by `queuedCycle`. The one delicate
  step is the claim that finds nothing: with nothing inflight it can only come
  after the last pending mutation whose execution is over;
* `InflightRowsAreOwned` – `InflightIsOwned`, extended (`Owned`) back to the
  requeue of `start()`, where what a crash left inflight is given back;
* `RestartsRepair` – `RestartDropsRemnants`, which needs that no cycle resolves
  a mutation between `cleanEntityBases` and `reapplyAllMutationPatches`
  (`RunsUnresolved`, and the order of `start()`).

`ConduitProofs` proves, for any pages, callbacks and clock:

* `TypeCorrect`, `NoCallIsLost` and `PortsAreInOrder` – `TypeOK`, `NoCallLost` and
  `PortOrder`. `PortOrder` is not inductive: a port that is in order now can be
  spoilt by the next election unless nothing was ever sent to a worker that has
  not led (`WorkerOK`), a tab registers once (`PageOK`) and the leader's port has
  or has delivered the election and every callback (`LeaderOK`). That the
  choice of a successor finds a tab (`NextLeaderExists`) is by well-founded
  induction on its position;
* `RefinesRemoteCalls` – `Conduit` implements `RemoteCalls`. That a method runs at
  most once follows from where its call is: on a port, in a worker or in an
  answer, in at most one of them, and it has run exactly from the second on
  (`SentOnce`). Then every action is a step of the abstract specification or a
  stutter, and a removal of a leader is the abstract `GiveUp` of all that was sent
  to it;
* `ResignsWithTheLeader` – the action property `GivenUpWithTheLeader`, from
  `NoCallLost`.

`DriverBridgeProofs` proves, for any consumers and statements, and any number of
resignations, errors, departures and `destroy()` calls:

* `TypeCorrect`, `TransactionsAreAtomic` and `FirstErrorIsThrown` – `TypeOK`,
  `AllOrNothing` and `StaleIdShadowsNothing`. The invariant `BridgeInv` follows a
  transaction call by call. One that has begun and met no error (`Begun`) is the
  one SQLite is in and has written exactly the statements that are not in its
  `todo` (`OpenOK`), however many leaders changed between its calls: the id is known
  only to the leader it began with, so a statement that goes to another one is
  not served. What it has in the database is all or nothing (`RowsOK`).
  `OneDriver` says that without a `destroy()` during an initialisation there is
  one driver, the one remembered, and `OneConsumer` that its mutex lets one
  consumer in, so that nobody ends the transaction of another. `ErrorOK` goes with
  `CallOK`: a consumer that met another leader has no connection there, so its
  cleanup meets an unknown id, which is swallowed, and only a transaction whose
  first error was one of the database can meet a rejected rollback.

`ResultCachesProofs` proves, for any operations, flushes and size of the queue:

* `WhatTheClientHasIsKept` – `ActiveIsKept`, inductive with the types: what `spy`
  keeps is not evictable, an operation that `spyLru` pushes out of the queue is
  forgotten only if it is, and every evictable operation has its timer;
* `NextPageStartsFromTheLast` – `FilesAreCurrent`, which speaks of files to which
  nothing more will happen. `LastIsWritten` follows the last result of an
  operation before that (it waits to be written, is the last thing asked of the
  file, or is in the file), `RestIsDeleted` the files of the others.

`LiveSourceProofs` proves, for any subscribers, any sequence of answers and any
choice of the changes that are reported:

* `TypeCorrect` – `SourceTypeOK`, the part of `LiveTypeOK` that is not about tables: the source debounces, runs the query
  and remembers a hash only while somebody listens. It needs that a subscriber has
  one first run (`OneFirst`): the step that starts to listen takes that run, and
  what is left must not belong to a listener;
* `QuietSourceIsCurrent` – `QuietIsCurrent`, which speaks of a source that has
  nothing left to do. `ListenersAreCurrent` speaks of a busy one: unless the source
  will run the query again (`Pending`), its last result on the way is the answer.
  Statements are executed in order (`InOrder`), so a result that was read with
  nothing to follow is the last. `HashIsGiven` ties the shared hash to what every
  listener has been given, so that a result that is not let through is one they
  have, those of `late` excepted. `FirstIsCurrent` covers the newcomer: nobody who
  missed nothing has a first result that is not the answer.

Nothing is assumed of the answers, so this holds whatever the query, the tables
and the triggers are. What `LiveSelect` adds, that a change which concerns the
query is reported, is `NoMissedChange` of `RowUpdates`.

`SharedExchangeProofs` proves, for any tabs, queries and subscriptions:

* `BooksOfTheHubAgree` and `OneTabFetches` – `BooksAgree` and `OneUpstream`. The
  books need that a tab registers before its first operation, once (`PortsOK`):
  a second registration would empty the operations of the tab, and a tab that is
  not registered would be a subscriber that nothing removes. They need too that
  subscribers are ordered sets (`SetsOK`), so that one deletion removes a tab.
  `OneUpstream` counts the callbacks that are still on the ports; it needs that a
  subscription is inside the wrapped exchange once and is not forwarded then
  (`EntersOnce`), so that a forward finds no other tab fetching. A handoff tells
  the tab that leaves to stop and the successor to start in one step.
* `QueriesAreOnTheirWay` and `SubscriptionsHaveATab` – the safety behind the two
  liveness properties. `NoQueryIsForgotten`: while no tab has died, a query that
  waits for a result is asked for, inside the wrapped exchange, forwarded to a tab
  that fetches it or has resolved it, or its result is on the port; so each step
  fairness grants brings it nearer. `NoSubscriptionIsForgotten`: whoever leaves or
  dies, a subscription that a living tab is with is asked for, inside the wrapped
  exchange, or has a tab that the hub takes for it, which by `OneUpstream` fetches
  it if it is alive (if it died, its disconnection is still to come). Both rest on
  `TabsAgree`: a tab is with an operation exactly if it will subscribe to it once
  the hub has taken the calls on its port, the last `execute` or `teardown` of the
  operation deciding (`WillSubscribe`). So when the last subscriber leaves and the
  hub drops what is under way, whoever still wants it has a call behind that one.
  `NoneDied` makes every subscriber reachable for a result, and `ActiveIsUpstream`
  keeps what is active inside the exchange or forwarded.

Each of these inductive invariants was checked by TLC, on the instance of the
run or a smaller one, before it was proved.

Assumptions: the `ConstantsAssumption` of each module. The marker values (`Null`,
`None`, `Elected`...) differ from the data and from each other, the bounds are
natural numbers, the operations of `LiveQueries` are finitely many, queries are not
subscriptions, callbacks are not calls, the LRU queue has a place.

Only model-checked:

* liveness (`Drains`, `Answered`, `StaleIsReexecuted`, `ReportedIsShown`,
  `SubscriptionIsCarried`, `QueryIsAnswered`, `EveryTransactionEnds`), out of
  TLAPS's reach because of fairness and ENABLED (of the two of `SharedExchange`
  the invariants they rest on are proved);
* the properties of `RowUpdates` and `NormalizedCache`, and of `LiveSelect` the
  types of its tables and triggers: conditions, queries, documents and values are
  trees, so the modules are recursive, which takes the SMT backend away, and what
  they compute for every tree needs induction over data.

## 5. Not modelled, and what is left

Not modelled: `purgeResolvedMutations` and the `markAsStale` offered to
resolvers, which nothing in the repository calls; LIMIT in
`selectEntityPointersQuery` (a row of a result carries its sort keys);
subscriptions in `repliqlExchange` (forwarded, their results saved as those of
queries are); a restart of the worker while queries are live;
array indexes in JSON paths; streaming of results through the bridge, which
throws; a connection of a tab that fails; writes of the cold start that fail,
which are only logged; mocks and typed wrappers of libraries; the React provider,
the components of the demonstration and the build scripts, which have no logic of
their own; logging and the wording of errors.

Left: `LiveQueries` composed with `Mutations`, and `Conduit` with `DriverBridge`,
the second as a refinement, a resignation being a `RemoveTab`.
