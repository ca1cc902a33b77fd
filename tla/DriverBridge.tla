----------------------------- MODULE DriverBridge -----------------------------
(***************************************************************************)
(* Transactions over the Kysely driver bridge: DriverBridge in the worker  *)
(* that leads, BridgedDriver and BridgedConnection in the consumers, each  *)
(* here with one transaction of its own.  Between them is the broker of    *)
(* @repliql/conduit: while there is no leader calls wait, and those not    *)
(* settled when a leader resigns reject with LeaderResignedError.          *)
(*                                                                         *)
(* Kysely's transaction and its SQLite drivers, each with one connection   *)
(* and a mutex for it, are external; so is SQLite, of which a worker has   *)
(* one handle, whatever drivers it has made (as the worker of the linear   *)
(* playground).  An id names the connection that one acquireConnection     *)
(* returned, so it is its consumer here: another leader has never heard of *)
(* it.  A driver is the number of the init that made it, and 0 is none.    *)
(***************************************************************************)
EXTENDS Naturals, FiniteSets

CONSTANTS
    Consumer,
    Statement,     \* what a transaction executes
    None,
    MaxResigns,    \* bound on the leaders that resign
    MaxErrors,     \* bound on the calls the database rejects
    MaxCloses,     \* bound on the consumers that go away
    MaxDestroys    \* bound on destroy()

Failure == {"LeaderResigned", "UnknownConnection", "Database", "RollbackRejected"}

ASSUME ConstantsAssumption ==
    /\ None \notin Consumer \cup Failure \cup
                 {"ok", "posted", "initialising", "initialised", "locking"}
    /\ MaxResigns \in Nat /\ MaxErrors \in Nat
    /\ MaxCloses \in Nat /\ MaxDestroys \in Nat

VARIABLES
    leader,       \* is there one
    driver,       \* #driver of its bridge
    memo,         \* the init that #initPromise of its bridge is of
    pending,      \* the inits that are not over, remembered or not
    made,         \* how many inits the bridge has begun
    connections,  \* #connections of its bridge
    locked,       \* the drivers whose mutex is taken
    attached,     \* who has a connection to the handle as it is open now
    open,         \* the transaction that SQLite is in, or None
    written,      \* the rows of it
    db,           \* the rows committed, in storage that survives a leader
    step,         \* the method a consumer called last
    call,         \* how far that call is, or what it rejected with
    awaits,       \* the driver it waits for, or whose mutex it waits for
    todo,         \* the statements to execute
    error,        \* what the transaction is going to throw
    first,        \* the error it met first
    closed,       \* the consumers that are gone
    robbed,       \* history: whose transaction was ended by a call of another
    doubled,      \* history: destroy() has come before an init was over
    resigns, errors, closes, destroys

inits == <<driver, memo, pending, made>>
bridgeVars == <<inits, connections>>
transaction == <<open, written, db, robbed>>
sqliteVars == <<locked, attached, transaction>>
txVars == <<step, todo, error, first, closed>>
counters == <<doubled, resigns, errors, closes, destroys>>
vars == <<leader, bridgeVars, sqliteVars, call, awaits, txVars, counters>>

ConnectionMethod == {"beginTransaction", "executeQuery", "commitTransaction",
                     "rollbackTransaction", "releaseConnection"}
Method == {"init", "acquireConnection"} \cup ConnectionMethod
Ended == {"committed", "failed"}
Served == {"initialising", "initialised", "locking"}
Answer == {"ok"} \cup Failure

Row == Consumer \X Statement

Init ==
    /\ leader = TRUE
    /\ driver = 0 /\ memo = 0 /\ pending = {} /\ made = 0 /\ connections = {}
    /\ locked = {} /\ attached = {} /\ open = None /\ written = {} /\ db = {}
    /\ step = [c \in Consumer |-> "idle"]
    /\ call = [c \in Consumer |-> None]
    /\ awaits = [c \in Consumer |-> 0]
    /\ todo = [c \in Consumer |-> Statement]
    /\ error = [c \in Consumer |-> None]
    /\ first = [c \in Consumer |-> None]
    /\ closed = {} /\ robbed = {} /\ doubled = FALSE
    /\ resigns = 0 /\ errors = 0 /\ closes = 0 /\ destroys = 0

-----------------------------------------------------------------------------
(* The worker that leads: #requireConnection, #requireDriver, init *)

Posted(c, methods) == leader /\ call[c] = "posted" /\ step[c] \in methods

(* How far the calls of some consumers are; those answered wait for none.  *)
Waits(c, phase, d) ==
    /\ call' = [call EXCEPT ![c] = phase]
    /\ awaits' = [awaits EXCEPT ![c] = d]
Settle(c, answer) == Waits(c, answer, 0)
Settles(C, answer) ==
    /\ call' = [c \in Consumer |-> IF c \in C THEN answer ELSE call[c]]
    /\ awaits' = [c \in Consumer |-> IF c \in C THEN 0 ELSE awaits[c]]

(* The method rejects for an id the bridge does not know.                  *)
Known(c) == c \in connections
ServeUnknown(c) ==
    /\ Posted(c, ConnectionMethod) /\ ~Known(c)
    /\ Settle(c, "UnknownConnection")
    /\ UNCHANGED <<leader, bridgeVars, sqliteVars, txVars, counters>>

(* init() while the one it remembers is pending, or a method that finds no *)
(* driver.  One init is begun, and the callers share it.                   *)
RequiresInit(c) ==
    \/ Posted(c, {"init"}) /\ (memo = 0 \/ memo \in pending)
    \/ Posted(c, {"acquireConnection"}) /\ driver = 0
    \/ Posted(c, ConnectionMethod \ {"executeQuery"}) /\ Known(c) /\ driver = 0
AwaitInit(c) ==
    /\ RequiresInit(c)
    /\ IF memo # 0 THEN UNCHANGED <<memo, pending, made>>
       ELSE /\ made' = made + 1 /\ memo' = made + 1
            /\ pending' = pending \cup {made + 1}
    /\ connections' = IF step[c] = "releaseConnection" THEN connections \ {c}
                      ELSE connections
    /\ Waits(c, "initialising", memo')
    /\ UNCHANGED <<leader, driver, sqliteVars, txVars, counters>>

ServeInit(c) ==
    /\ Posted(c, {"init"}) /\ memo # 0 /\ memo \notin pending
    /\ Settle(c, "ok")
    /\ UNCHANGED <<leader, bridgeVars, sqliteVars, txVars, counters>>

Awaiting(d) == {c \in Consumer : call[c] = "initialising" /\ awaits[c] = d}

(* It sets #driver also when destroy() has forgotten it meanwhile.         *)
InitResolves(d) ==
    /\ d \in pending
    /\ pending' = pending \ {d}
    /\ driver' = d
    /\ call' = [c \in Consumer |->
                   IF c \notin Awaiting(d) THEN call[c]
                   ELSE IF step[c] = "init" THEN "ok"
                   ELSE IF step[c] = "acquireConnection" THEN "locking" ELSE "initialised"]
    /\ awaits' = [c \in Consumer |->
                     IF c \in Awaiting(d) /\ step[c] = "init" THEN 0 ELSE awaits[c]]
    /\ UNCHANGED <<leader, memo, made, connections, sqliteVars, txVars, counters>>

(* The memo is cleared, if it still is of this init.                       *)
InitRejects(d) ==
    /\ d \in pending /\ errors < MaxErrors
    /\ errors' = errors + 1
    /\ pending' = pending \ {d}
    /\ IF memo = d THEN memo' = 0 /\ driver' = 0 ELSE UNCHANGED <<memo, driver>>
    /\ Settles(Awaiting(d), "Database")
    /\ UNCHANGED <<leader, made, connections, sqliteVars, txVars, doubled, resigns,
                   closes, destroys>>

ServeAcquire(c) ==
    /\ Posted(c, {"acquireConnection"}) /\ driver # 0
    /\ Waits(c, "locking", driver)
    /\ UNCHANGED <<leader, bridgeVars, sqliteVars, txVars, counters>>

(* The mutex of the driver is free, and its connection gets an id.         *)
Lock(c) ==
    /\ call[c] = "locking" /\ awaits[c] \notin locked
    /\ locked' = locked \cup {awaits[c]}
    /\ attached' = attached \cup {c}
    /\ connections' = connections \cup {c}
    /\ Settle(c, "ok")
    /\ UNCHANGED <<leader, inits, transaction, txVars, counters>>

-----------------------------------------------------------------------------
(* The worker that leads: what it does on a connection *)

(* A method that has its connection, and the driver too.                   *)
Serves(c, method) ==
    \/ Posted(c, {method}) /\ Known(c) /\ (driver # 0 \/ method = "executeQuery")
    \/ call[c] = "initialised" /\ step[c] = method

ReleaseIdOnly(c) ==   \* mutant: the driver does not get its connection back
    /\ Serves(c, "releaseConnection")
    /\ connections' = connections \ {c}
    /\ Settle(c, "ok")
    /\ UNCHANGED <<leader, inits, sqliteVars, txVars, counters>>
(* The mutex it unlocks is that of the driver there is now.                *)
ReleaseConnection(c) ==
    /\ Serves(c, "releaseConnection")
    /\ connections' = connections \ {c} /\ attached' = attached \ {c}
    /\ locked' = locked \ {IF call[c] = "posted" THEN driver ELSE awaits[c]}
    /\ Settle(c, "ok")
    /\ UNCHANGED <<leader, inits, transaction, txVars, counters>>

(* SQLite has one transaction at a time, whoever asks for it, and a closed *)
(* handle has none.                                                        *)
BeginTransaction(c) ==
    /\ Serves(c, "beginTransaction") /\ c \in attached /\ open = None
    /\ open' = c /\ written' = {}
    /\ Settle(c, "ok")
    /\ UNCHANGED <<leader, bridgeVars, locked, attached, db, robbed, txVars, counters>>

(* Outside of a transaction SQLite commits each statement.                 *)
Write(rows) ==
    IF open # None THEN written' = written \cup rows /\ UNCHANGED db
                   ELSE db' = db \cup rows /\ UNCHANGED written

ExecuteOnAny(c) ==   \* mutant: on the only connection, whatever the id
    \E s \in todo[c] :
        /\ Posted(c, {"executeQuery"})
        /\ Write({<<c, s>>})
        /\ todo' = [todo EXCEPT ![c] = @ \ {s}]
        /\ Settle(c, "ok")
        /\ UNCHANGED <<leader, bridgeVars, locked, attached, open, robbed, step, error,
                       first, closed, counters>>
ExecuteQuery(c) ==
    \E s \in todo[c] :
        /\ Serves(c, "executeQuery")
        /\ Write({<<c, s>>})
        /\ todo' = [todo EXCEPT ![c] = @ \ {s}]
        /\ Settle(c, "ok")
        /\ UNCHANGED <<leader, bridgeVars, locked, attached, open, robbed, step, error,
                       first, closed, counters>>

(* It ends the transaction that is open, whose ever it is.                 *)
EndsFor(c) ==
    /\ open' = None /\ written' = {}
    /\ robbed' = robbed \cup ({open} \ {c, None})

CommitTransaction(c) ==
    /\ Serves(c, "commitTransaction") /\ c \in attached /\ open # None
    /\ db' = db \cup written
    /\ EndsFor(c)
    /\ Settle(c, "ok")
    /\ UNCHANGED <<leader, bridgeVars, locked, attached, txVars, counters>>

CloseTransaction(c) ==   \* mutant: what it wrote is not undone
    /\ Serves(c, "rollbackTransaction") /\ c \in attached /\ open # None
    /\ open' = None
    /\ Settle(c, "ok")
    /\ UNCHANGED <<leader, bridgeVars, locked, attached, written, db, robbed, txVars,
                   counters>>
RollbackTransaction(c) ==
    /\ Serves(c, "rollbackTransaction") /\ c \in attached /\ open # None
    /\ EndsFor(c)
    /\ Settle(c, "ok")
    /\ UNCHANGED <<leader, bridgeVars, locked, attached, db, txVars, counters>>

(* SQLite rejects a begin in a transaction, a commit and a rollback        *)
(* outside of one, and all of them on a handle that was closed.            *)
OutOfTurn(c) ==
    /\ \/ Serves(c, "beginTransaction") /\ (c \in attached => open # None)
       \/ /\ Serves(c, "commitTransaction") \/ Serves(c, "rollbackTransaction")
          /\ c \in attached => open = None
    /\ Settle(c, IF step[c] = "rollbackTransaction" THEN "RollbackRejected" ELSE "Database")
    /\ UNCHANGED <<leader, bridgeVars, sqliteVars, txVars, counters>>

(* The database rejects a call, for a constraint, a full disk, ...: it is  *)
(* not done, and the transaction may have been rolled back for it.         *)
Reject(c) ==
    /\ errors < MaxErrors
    /\ errors' = errors + 1
    /\ \/ Serves(c, "beginTransaction") /\ UNCHANGED transaction
       \/ /\ \E m \in {"executeQuery", "commitTransaction", "rollbackTransaction"} :
                 Serves(c, m)
          /\ UNCHANGED transaction \/ (EndsFor(c) /\ UNCHANGED db)
    /\ Settle(c, IF step[c] = "rollbackTransaction" THEN "RollbackRejected" ELSE "Database")
    /\ UNCHANGED <<leader, bridgeVars, locked, attached, txVars, doubled, resigns, closes,
                   destroys>>

(* DriverBridge.destroy closes the database if there is a driver; the next *)
(* one opens it anew.  A pending init is forgotten, but goes on; what      *)
(* waits for the mutex of the driver waits for ever.  It comes in a task   *)
(* of its own, when what another call can do at once is done.              *)
Destroy ==
    /\ leader /\ destroys < MaxDestroys
    /\ \A c \in Consumer : /\ call[c] # "initialised"
                            /\ call[c] = "locking" => awaits[c] \in locked
    /\ destroys' = destroys + 1
    /\ doubled' = (doubled \/ pending # {})
    /\ driver' = 0 /\ memo' = 0 /\ connections' = {}
    /\ IF driver = 0 THEN UNCHANGED <<attached, open, written>>
                     ELSE attached' = {} /\ open' = None /\ written' = {}
    /\ UNCHANGED <<leader, pending, made, locked, db, robbed, call, awaits, txVars,
                   resigns, errors, closes>>

(* The calls that are not settled reject, answers that are still on their  *)
(* way among them, and the drivers die with the leader: the page of its    *)
(* worker is gone.                                                         *)
Resign ==
    /\ leader /\ resigns < MaxResigns
    /\ resigns' = resigns + 1
    /\ leader' = FALSE
    /\ driver' = 0 /\ memo' = 0 /\ pending' = {} /\ made' = 0 /\ connections' = {}
    /\ locked' = {} /\ attached' = {} /\ open' = None /\ written' = {}
    /\ \E lost \in SUBSET {c \in Consumer : call[c] \in Answer} :
          Settles(lost \cup {c \in Consumer : call[c] \in Served \cup {"posted"}},
                  "LeaderResigned")
    /\ UNCHANGED <<db, robbed, txVars, doubled, errors, closes, destroys>>

(* A call that was settled goes on before the next leader says anything.   *)
Elect ==
    /\ ~leader
    /\ \A c \in Consumer \ closed : call[c] \notin Answer
    /\ leader' = TRUE
    /\ UNCHANGED <<bridgeVars, sqliteVars, call, awaits, txVars, counters>>

-----------------------------------------------------------------------------
(* A consumer: the transaction of Kysely over its BridgedDriver *)

Post(c, method) ==
    /\ step' = [step EXCEPT ![c] = method]
    /\ call' = [call EXCEPT ![c] = "posted"]
End(c, outcome) ==
    /\ step' = [step EXCEPT ![c] = outcome]
    /\ call' = [call EXCEPT ![c] = None]

consumerOnly == <<leader, bridgeVars, sqliteVars, awaits, todo, closed, counters>>

Start(c) ==
    /\ step[c] = "idle" /\ c \notin closed
    /\ Post(c, "init")
    /\ UNCHANGED <<consumerOnly, error, first>>

(* The method after one that resolved. *)
Proceed(c) ==
    CASE step[c] = "init" -> Post(c, "acquireConnection")
      [] step[c] = "acquireConnection" -> Post(c, "beginTransaction")
      [] step[c] \in {"beginTransaction", "executeQuery"} ->
            Post(c, IF todo[c] # {} THEN "executeQuery" ELSE "commitTransaction")
      [] step[c] \in {"commitTransaction", "rollbackTransaction"} ->
            Post(c, "releaseConnection")
      [] step[c] = "releaseConnection" ->
            End(c, IF error[c] = None THEN "committed" ELSE "failed")

(* ... and after one that rejected: what was begun is rolled back, what    *)
(* was acquired is released.                                               *)
CleanUp(c) ==
    CASE step[c] \in {"init", "acquireConnection", "releaseConnection"} -> End(c, "failed")
      [] step[c] \in {"beginTransaction", "rollbackTransaction"} ->
            Post(c, "releaseConnection")
      [] step[c] \in {"executeQuery", "commitTransaction"} ->
            Post(c, "rollbackTransaction")

Resolved(c) ==
    /\ call[c] = "ok" /\ c \notin closed
    /\ Proceed(c)
    /\ UNCHANGED <<consumerOnly, error, first>>

SwallowedNever(c) == FALSE   \* mutant: the cleanup throws what it meets
(* releaseConnection and rollbackTransaction of BridgedDriver.             *)
Swallowed(c) ==
    /\ call[c] = "UnknownConnection"
    /\ step[c] \in {"rollbackTransaction", "releaseConnection"}

Swallow(c) ==
    /\ Swallowed(c) /\ c \notin closed
    /\ Proceed(c)
    /\ UNCHANGED <<consumerOnly, error, first>>

(* An error of the cleanup takes the place of the one before.              *)
Rejected(c) ==
    /\ call[c] \in Failure /\ ~Swallowed(c) /\ c \notin closed
    /\ error' = [error EXCEPT ![c] = call[c]]
    /\ first' = [first EXCEPT ![c] = IF @ = None THEN call[c] ELSE @]
    /\ CleanUp(c)
    /\ UNCHANGED consumerOnly

(* The tab of a consumer closes, or it destroys its BridgedDriver: it makes *)
(* no call any more, and nothing tells the bridge.                         *)
Close(c) ==
    /\ c \notin closed /\ step[c] \notin Ended /\ closes < MaxCloses
    /\ closes' = closes + 1
    /\ closed' = closed \cup {c}
    /\ UNCHANGED <<leader, bridgeVars, sqliteVars, call, awaits, step, todo, error, first,
                   doubled, resigns, errors, destroys>>

-----------------------------------------------------------------------------
Worker(c) ==
    \/ ServeUnknown(c) \/ AwaitInit(c) \/ ServeInit(c) \/ ServeAcquire(c) \/ Lock(c)
    \/ BeginTransaction(c) \/ ExecuteQuery(c) \/ CommitTransaction(c)
    \/ RollbackTransaction(c) \/ OutOfTurn(c) \/ ReleaseConnection(c)
Kysely(c) == Resolved(c) \/ Swallow(c) \/ Rejected(c)
Initialise == \E d \in pending : InitResolves(d)

Next ==
    \/ \E c \in Consumer : Worker(c) \/ Reject(c) \/ Start(c) \/ Kysely(c) \/ Close(c)
    \/ Initialise \/ (\E d \in pending : InitRejects(d)) \/ Destroy \/ Resign \/ Elect

Spec == Init /\ [][Next]_vars

(* The worker serves, the mutex starves nobody, and the conduit elects.    *)
Fairness ==
    /\ \A c \in Consumer : WF_vars(Worker(c)) /\ SF_vars(Lock(c)) /\ WF_vars(Kysely(c))
    /\ WF_vars(Initialise) /\ WF_vars(Elect)

LiveSpec == Spec /\ Fairness

-----------------------------------------------------------------------------
(* Properties *)

(* Types, and the shape of what SQLite holds: an id is of a connection to  *)
(* the handle as it is open, and only an open transaction has rows.        *)
TypeOK ==
    /\ leader \in BOOLEAN
    /\ made \in Nat /\ driver \in 0..made /\ memo \in 0..made
    /\ pending \subseteq 1..made /\ locked \subseteq 1..made
    /\ connections \subseteq attached /\ attached \subseteq Consumer
    /\ open \in Consumer \cup {None}
    /\ written \in SUBSET Row /\ (open = None => written = {})
    /\ db \in SUBSET Row
    /\ step \in [Consumer -> Method \cup Ended \cup {"idle"}]
    /\ call \in [Consumer -> Answer \cup Served \cup {None, "posted"}]
    /\ awaits \in [Consumer -> 0..made]
    /\ todo \in [Consumer -> SUBSET Statement]
    /\ error \in [Consumer -> Failure \cup {None}]
    /\ first \in [Consumer -> Failure \cup {None}]
    /\ closed \subseteq Consumer /\ robbed \subseteq Consumer
    /\ doubled \in BOOLEAN
    /\ resigns \in Nat /\ errors \in Nat /\ closes \in Nat /\ destroys \in Nat

(* A transaction is in the database as a whole or not at all, wherever     *)
(* between its calls leaders and drivers change, and it is if it was       *)
(* reported as committed.  Not one that another consumer's commit or       *)
(* rollback has ended; and as the mutex lets only one in at a time, that   *)
(* takes a destroy() during an init, after which there can be two drivers. *)
AllOrNothing ==
    /\ \A c \in Consumer \ robbed :
          /\ db \cap ({c} \X Statement) \in {{}, {c} \X Statement}
          /\ step[c] = "committed" => {c} \X Statement \subseteq db
    /\ robbed = {} \/ doubled

(* The error a transaction met first is what it throws: an id that the     *)
(* next leader or driver does not know never covers it.  ("Swallowing      *)
(* those keeps the original error from being shadowed.")  What covers it   *)
(* is one more leader that resigns during the cleanup, and, if it was an   *)
(* error of the database, the rollback that the database rejects.          *)
StaleIdShadowsNothing ==
    \A c \in Consumer :
        error[c] # first[c] =>
            \/ error[c] = "LeaderResigned"
            \/ error[c] = "RollbackRejected" /\ first[c] = "Database"

(* Every transaction ends, whoever fails or resigns meanwhile; but a       *)
(* consumer that goes away with the connection keeps it, and destroy()     *)
(* forgets who waits for it.                                               *)
EveryTransactionEnds ==
    \A c \in Consumer :
        step[c] \in Method ~> (step[c] \in Ended \/ closed # {} \/ destroys > 0)
=============================================================================
