-------------------------- MODULE DriverBridgeProofs --------------------------
(***************************************************************************)
(* Proofs about module DriverBridge, for any consumers and statements, and *)
(* any number of resignations, errors, departures and destroyed drivers.   *)
(***************************************************************************)
EXTENDS DriverBridge, TLAPS

(* The rows of a transaction that are among some, all of them or none.     *)
AllIn(c, rows) == \A s \in Statement : <<c, s>> \in rows
NoneIn(c, rows) == \A s \in Statement : <<c, s>> \notin rows

(* A call waits only where the bridge makes its method wait, and one that  *)
(* met another leader or driver has no connection there.                   *)
CallOK(c) ==
    /\ call[c] = None <=> step[c] \in Ended \cup {"idle"}
    /\ call[c] = "initialising" => step[c] # "executeQuery"
    /\ call[c] = "initialised" => step[c] \in ConnectionMethod \ {"executeQuery"}
    /\ call[c] = "locking" => step[c] = "acquireConnection"
    /\ call[c] = "RollbackRejected" => step[c] = "rollbackTransaction"
    /\ call[c] \in {"UnknownConnection", "LeaderResigned"} => c \notin connections
    /\ awaits[c] = 0 <=> call[c] \notin Served

(* The call has got past #requireConnection, or is about to.               *)
OnConnection(c) ==
    \/ c \in connections
    \/ call[c] = "initialised"
    \/ call[c] = "initialising" /\ step[c] \in ConnectionMethod

(* Who has an error is cleaning up, or has ended with it; and only an error *)
(* of the database leaves a connection to clean up with.                   *)
ErrorOK(c) ==
    /\ error[c] # first[c] =>
          \/ error[c] = "LeaderResigned"
          \/ error[c] = "RollbackRejected" /\ first[c] = "Database"
    /\ error[c] = None <=> first[c] = None
    /\ first[c] # None =>
          step[c] \in {"rollbackTransaction", "releaseConnection", "failed"}
    /\ step[c] \in {"rollbackTransaction", "failed"} => first[c] # None
    /\ OnConnection(c) \/ call[c] \in {"Database", "RollbackRejected"} =>
          first[c] \in {None, "Database"}

(* The transaction is begun, and no call of it has failed.                 *)
Begun(c) ==
    \/ step[c] = "beginTransaction" /\ call[c] = "ok" /\ c \in connections
    \/ step[c] = "executeQuery" /\ call[c] \in {"posted", "ok"} /\ c \in connections
    \/ /\ step[c] = "commitTransaction"
       /\ \/ call[c] = "posted" /\ c \in connections
          \/ call[c] \in {"initialising", "initialised"} /\ c \in attached

(* It is then the one that SQLite is in, with the rows executed so far, if *)
(* nobody else has ended it; and it has no rows there when it is not.      *)
OpenOK(c) ==
    /\ Begun(c) =>
          open = c /\ \A s \in Statement : <<c, s>> \in written <=> s \notin todo[c]
    /\ open # c => NoneIn(c, written)

(* What is still to be executed, and what a transaction that is not being  *)
(* executed has left in the database.                                      *)
RowsOK(c) ==
    /\ step[c] \in {"idle", "init", "acquireConnection", "beginTransaction"} =>
          todo[c] = Statement
    /\ step[c] = "commitTransaction" => todo[c] = {}
    /\ AllIn(c, db) \/ NoneIn(c, db)
    /\ \/ step[c] = "commitTransaction" /\ call[c] = "ok"
       \/ step[c] = "releaseConnection" /\ error[c] = None
       \/ step[c] = "committed"
       => AllIn(c, db)

(* While no destroy() has come before an init was over there is one driver *)
(* at a time: it is the one of the memo, no call on a connection waits for *)
(* an init, and who waits for the mutex of another waits for ever.         *)
OneDriver ==
    /\ pending \subseteq {memo} /\ driver \in {0, memo}
    /\ driver # 0 => pending = {}
    /\ memo # 0 /\ driver = 0 => memo \in pending
    /\ \A c \in Consumer :
          /\ call[c] = "initialising" => step[c] \notin ConnectionMethod
          /\ call[c] # "initialised"
          /\ call[c] = "locking" => awaits[c] \in locked \/ (awaits[c] = driver /\ driver # 0)

(* So the mutex lets one consumer in, and no other is in a transaction.    *)
OneConsumer ==
    /\ connections # {} => driver # 0 /\ driver \in locked
    /\ \A c, d \in connections : c = d
    /\ \A c \in connections :
          \/ step[c] = "beginTransaction" /\ call[c] = "ok"
          \/ step[c] \in {"executeQuery", "commitTransaction", "rollbackTransaction"}
          => open \in {None, c}

BridgeInv ==
    /\ TypeOK
    /\ \A c \in Consumer : CallOK(c) /\ ErrorOK(c)
    /\ \A c \in Consumer \ robbed : OpenOK(c) /\ RowsOK(c)
    /\ doubled \/ (robbed = {} /\ OneDriver /\ OneConsumer)

LEMMA ServeUnknownKeepsInv ==
    ASSUME BridgeInv, NEW c \in Consumer, ServeUnknown(c)
    PROVE  BridgeInv'
<1> USE ConstantsAssumption
<1> USE DEF Method, ConnectionMethod, Ended, Answer, Failure, Served
<1>1. TypeOK'
  BY DEF BridgeInv, TypeOK, CallOK, ServeUnknown, Posted, Known, Waits, Settle, inits,
     bridgeVars, transaction, sqliteVars, txVars, counters
<1>2. ASSUME NEW d \in Consumer
      PROVE  CallOK(d)'
  BY DEF BridgeInv, TypeOK, CallOK, ServeUnknown, Posted, Known, Waits, Settle, inits,
     bridgeVars, transaction, sqliteVars, txVars, counters
<1>3. ASSUME NEW d \in Consumer
      PROVE  ErrorOK(d)'
  BY DEF BridgeInv, TypeOK, CallOK, ErrorOK, OnConnection, ServeUnknown, Posted, Known,
     Waits, Settle, inits, bridgeVars, transaction, sqliteVars, txVars, counters
<1>4. ASSUME NEW d \in Consumer, d \notin robbed'
      PROVE  OpenOK(d)'
  BY <1>4 DEF BridgeInv, TypeOK, CallOK, OpenOK, Begun, RowsOK, NoneIn, ServeUnknown,
     Posted, Known, Waits, Settle, inits, bridgeVars, transaction, sqliteVars, txVars,
     counters
<1>5. ASSUME NEW d \in Consumer, d \notin robbed'
      PROVE  RowsOK(d)'
  BY <1>5 DEF BridgeInv, TypeOK, CallOK, OpenOK, Begun, RowsOK, AllIn, NoneIn,
     ServeUnknown, Posted, Known, Waits, Settle, inits, bridgeVars, transaction,
     sqliteVars, txVars, counters
<1>6. ASSUME ~doubled'
      PROVE  robbed' = {} /\ OneDriver' /\ OneConsumer'
  <2>1. robbed' = {}
    BY <1>6 DEF BridgeInv, TypeOK, CallOK, OneDriver, OneConsumer, ServeUnknown, Posted,
       Known, Waits, Settle, inits, bridgeVars, transaction, sqliteVars, txVars,
       counters
  <2>2. OneDriver'
    BY <1>6 DEF BridgeInv, TypeOK, CallOK, OneDriver, OneConsumer, ServeUnknown, Posted,
       Known, Waits, Settle, inits, bridgeVars, transaction, sqliteVars, txVars,
       counters
  <2>3. OneConsumer'
    BY <1>6 DEF BridgeInv, TypeOK, CallOK, OneDriver, OneConsumer, ServeUnknown, Posted,
       Known, Waits, Settle, inits, bridgeVars, transaction, sqliteVars, txVars,
       counters
  <2>4. QED
    BY <2>1, <2>2, <2>3
<1>7. QED
  BY <1>1, <1>2, <1>3, <1>4, <1>5, <1>6 DEF BridgeInv, TypeOK

LEMMA AwaitInitKeepsInv ==
    ASSUME BridgeInv, NEW c \in Consumer, AwaitInit(c)
    PROVE  BridgeInv'
<1> USE ConstantsAssumption
<1> USE DEF Method, ConnectionMethod, Ended, Answer, Failure, Served
<1>1. TypeOK'
  <2>1. /\ made' \in Nat /\ made <= made' /\ memo' \in 0..made' /\ memo' # 0
        /\ pending' \subseteq 1..made'
    <3>1. CASE memo # 0
      <4>1. made' = made /\ memo' = memo /\ pending' = pending
        BY <3>1 DEF AwaitInit
      <4>2. made \in Nat /\ memo \in 0..made /\ pending \subseteq 1..made
        BY DEF BridgeInv, TypeOK
      <4>3. QED
        BY <3>1, <4>1, <4>2
    <3>2. CASE memo = 0
      <4>1. made' = made + 1 /\ memo' = made + 1 /\ pending' = pending \cup {made + 1}
        BY <3>2 DEF AwaitInit
      <4>2. made \in Nat /\ \A i \in pending : i \in 1..made
        BY DEF BridgeInv, TypeOK
      <4>3. QED
        BY <4>1, <4>2
    <3>3. QED
      BY <3>1, <3>2
  <2>2. awaits' \in [Consumer -> 0..made'] /\ driver' \in 0..made' /\ locked' \subseteq 1..made'
    BY <2>1 DEF BridgeInv, TypeOK, AwaitInit, Waits, sqliteVars
  <2>3. QED
    BY <2>1, <2>2 DEF BridgeInv, TypeOK, AwaitInit, RequiresInit, Posted, Known, Waits,
       transaction, sqliteVars, txVars, counters
<1>2. ASSUME NEW d \in Consumer
      PROVE  CallOK(d)'
  BY DEF BridgeInv, TypeOK, CallOK, AwaitInit, RequiresInit, Posted, Known, Waits,
     transaction, sqliteVars, txVars, counters
<1>3. ASSUME NEW d \in Consumer
      PROVE  ErrorOK(d)'
  BY DEF BridgeInv, TypeOK, CallOK, ErrorOK, OnConnection, AwaitInit, RequiresInit,
     Posted, Known, Waits, transaction, sqliteVars, txVars, counters
<1>4. ASSUME NEW d \in Consumer, d \notin robbed'
      PROVE  OpenOK(d)'
  BY <1>4 DEF BridgeInv, TypeOK, CallOK, OpenOK, Begun, RowsOK, NoneIn, AwaitInit,
     RequiresInit, Posted, Known, Waits, transaction, sqliteVars, txVars, counters
<1>5. ASSUME NEW d \in Consumer, d \notin robbed'
      PROVE  RowsOK(d)'
  BY <1>5 DEF BridgeInv, TypeOK, CallOK, OpenOK, Begun, RowsOK, AllIn, NoneIn,
     AwaitInit, RequiresInit, Posted, Known, Waits, transaction, sqliteVars, txVars,
     counters
<1>6. ASSUME ~doubled'
      PROVE  robbed' = {} /\ OneDriver' /\ OneConsumer'
  <2>1. robbed' = {}
    BY <1>6 DEF BridgeInv, TypeOK, CallOK, OneDriver, OneConsumer, AwaitInit,
       RequiresInit, Posted, Known, Waits, transaction, sqliteVars, txVars, counters
  <2>2. OneDriver'
    <3>1. memo # 0 => memo' = memo /\ pending' = pending
      BY DEF AwaitInit
    <3>2. memo = 0 => driver = 0 /\ memo' # 0 /\ pending' = {memo'}
      <4>1. SUFFICES ASSUME memo = 0
                     PROVE  driver = 0 /\ memo' # 0 /\ pending' = {memo'}
        OBVIOUS
      <4>2. OneDriver
        BY <1>6 DEF BridgeInv, AwaitInit, counters
      <4>3. driver = 0 /\ pending = {}
        BY <4>1, <4>2 DEF BridgeInv, TypeOK, OneDriver
      <4>4. made \in Nat /\ memo' = made + 1 /\ pending' = pending \cup {made + 1}
        BY <4>1 DEF BridgeInv, TypeOK, AwaitInit
      <4>5. QED
        BY <4>3, <4>4
    <3>3. ASSUME NEW d \in Consumer, call'[d] = "initialising"
          PROVE  step'[d] \notin ConnectionMethod
      BY <1>6, <3>3 DEF BridgeInv, TypeOK, OneDriver, OneConsumer, AwaitInit,
         RequiresInit, Posted, Known, Waits, txVars, counters
    <3>4. QED
      BY <1>6, <3>1, <3>2, <3>3 DEF BridgeInv, TypeOK, OneDriver, AwaitInit, Waits,
         sqliteVars, txVars, counters
  <2>3. OneConsumer'
    BY <1>6 DEF BridgeInv, TypeOK, CallOK, OneDriver, OneConsumer, AwaitInit,
       RequiresInit, Posted, Known, Waits, transaction, sqliteVars, txVars, counters
  <2>4. QED
    BY <2>1, <2>2, <2>3
<1>7. QED
  BY <1>1, <1>2, <1>3, <1>4, <1>5, <1>6 DEF BridgeInv, TypeOK

LEMMA ServeInitKeepsInv ==
    ASSUME BridgeInv, NEW c \in Consumer, ServeInit(c)
    PROVE  BridgeInv'
<1> USE ConstantsAssumption
<1> USE DEF Method, ConnectionMethod, Ended, Answer, Failure, Served
<1>1. TypeOK'
  BY DEF BridgeInv, TypeOK, CallOK, ServeInit, Posted, Waits, Settle, inits, bridgeVars,
     transaction, sqliteVars, txVars, counters
<1>2. ASSUME NEW d \in Consumer
      PROVE  CallOK(d)'
  BY DEF BridgeInv, TypeOK, CallOK, ServeInit, Posted, Waits, Settle, inits, bridgeVars,
     transaction, sqliteVars, txVars, counters
<1>3. ASSUME NEW d \in Consumer
      PROVE  ErrorOK(d)'
  BY DEF BridgeInv, TypeOK, CallOK, ErrorOK, OnConnection, ServeInit, Posted, Waits,
     Settle, inits, bridgeVars, transaction, sqliteVars, txVars, counters
<1>4. ASSUME NEW d \in Consumer, d \notin robbed'
      PROVE  OpenOK(d)'
  BY <1>4 DEF BridgeInv, TypeOK, CallOK, OpenOK, Begun, RowsOK, NoneIn, ServeInit,
     Posted, Waits, Settle, inits, bridgeVars, transaction, sqliteVars, txVars, counters
<1>5. ASSUME NEW d \in Consumer, d \notin robbed'
      PROVE  RowsOK(d)'
  BY <1>5 DEF BridgeInv, TypeOK, CallOK, OpenOK, Begun, RowsOK, AllIn, NoneIn,
     ServeInit, Posted, Waits, Settle, inits, bridgeVars, transaction, sqliteVars,
     txVars, counters
<1>6. ASSUME ~doubled'
      PROVE  robbed' = {} /\ OneDriver' /\ OneConsumer'
  <2>1. robbed' = {}
    BY <1>6 DEF BridgeInv, TypeOK, CallOK, OneDriver, OneConsumer, ServeInit, Posted,
       Waits, Settle, inits, bridgeVars, transaction, sqliteVars, txVars, counters
  <2>2. OneDriver'
    BY <1>6 DEF BridgeInv, TypeOK, CallOK, OneDriver, OneConsumer, ServeInit, Posted,
       Waits, Settle, inits, bridgeVars, transaction, sqliteVars, txVars, counters
  <2>3. OneConsumer'
    BY <1>6 DEF BridgeInv, TypeOK, CallOK, OneDriver, OneConsumer, ServeInit, Posted,
       Waits, Settle, inits, bridgeVars, transaction, sqliteVars, txVars, counters
  <2>4. QED
    BY <2>1, <2>2, <2>3
<1>7. QED
  BY <1>1, <1>2, <1>3, <1>4, <1>5, <1>6 DEF BridgeInv, TypeOK

LEMMA ServeAcquireKeepsInv ==
    ASSUME BridgeInv, NEW c \in Consumer, ServeAcquire(c)
    PROVE  BridgeInv'
<1> USE ConstantsAssumption
<1> USE DEF Method, ConnectionMethod, Ended, Answer, Failure, Served
<1>1. TypeOK'
  BY DEF BridgeInv, TypeOK, CallOK, ServeAcquire, Posted, Waits, inits, bridgeVars,
     transaction, sqliteVars, txVars, counters
<1>2. ASSUME NEW d \in Consumer
      PROVE  CallOK(d)'
  BY DEF BridgeInv, TypeOK, CallOK, ServeAcquire, Posted, Waits, inits, bridgeVars,
     transaction, sqliteVars, txVars, counters
<1>3. ASSUME NEW d \in Consumer
      PROVE  ErrorOK(d)'
  BY DEF BridgeInv, TypeOK, CallOK, ErrorOK, OnConnection, ServeAcquire, Posted, Waits,
     inits, bridgeVars, transaction, sqliteVars, txVars, counters
<1>4. ASSUME NEW d \in Consumer, d \notin robbed'
      PROVE  OpenOK(d)'
  BY <1>4 DEF BridgeInv, TypeOK, CallOK, OpenOK, Begun, RowsOK, NoneIn, ServeAcquire,
     Posted, Waits, inits, bridgeVars, transaction, sqliteVars, txVars, counters
<1>5. ASSUME NEW d \in Consumer, d \notin robbed'
      PROVE  RowsOK(d)'
  BY <1>5 DEF BridgeInv, TypeOK, CallOK, OpenOK, Begun, RowsOK, AllIn, NoneIn,
     ServeAcquire, Posted, Waits, inits, bridgeVars, transaction, sqliteVars, txVars,
     counters
<1>6. ASSUME ~doubled'
      PROVE  robbed' = {} /\ OneDriver' /\ OneConsumer'
  <2>1. robbed' = {}
    BY <1>6 DEF BridgeInv, TypeOK, CallOK, OneDriver, OneConsumer, ServeAcquire, Posted,
       Waits, inits, bridgeVars, transaction, sqliteVars, txVars, counters
  <2>2. OneDriver'
    BY <1>6 DEF BridgeInv, TypeOK, CallOK, OneDriver, OneConsumer, ServeAcquire, Posted,
       Waits, inits, bridgeVars, transaction, sqliteVars, txVars, counters
  <2>3. OneConsumer'
    BY <1>6 DEF BridgeInv, TypeOK, CallOK, OneDriver, OneConsumer, ServeAcquire, Posted,
       Waits, inits, bridgeVars, transaction, sqliteVars, txVars, counters
  <2>4. QED
    BY <2>1, <2>2, <2>3
<1>7. QED
  BY <1>1, <1>2, <1>3, <1>4, <1>5, <1>6 DEF BridgeInv, TypeOK

LEMMA InitResolvesKeepsInv ==
    ASSUME BridgeInv, NEW i \in pending, InitResolves(i)
    PROVE  BridgeInv'
<1> USE ConstantsAssumption
<1> USE DEF Method, ConnectionMethod, Ended, Answer, Failure, Served
<1>1. TypeOK'
  BY DEF BridgeInv, TypeOK, CallOK, InitResolves, Awaiting, transaction, sqliteVars,
     txVars, counters
<1>2. ASSUME NEW d \in Consumer
      PROVE  CallOK(d)'
  BY DEF BridgeInv, TypeOK, CallOK, InitResolves, Awaiting, transaction, sqliteVars,
     txVars, counters
<1>3. ASSUME NEW d \in Consumer
      PROVE  ErrorOK(d)'
  BY DEF BridgeInv, TypeOK, CallOK, ErrorOK, OnConnection, InitResolves, Awaiting,
     transaction, sqliteVars, txVars, counters
<1>4. ASSUME NEW d \in Consumer, d \notin robbed'
      PROVE  OpenOK(d)'
  BY <1>4 DEF BridgeInv, TypeOK, CallOK, OpenOK, Begun, RowsOK, NoneIn, InitResolves,
     Awaiting, transaction, sqliteVars, txVars, counters
<1>5. ASSUME NEW d \in Consumer, d \notin robbed'
      PROVE  RowsOK(d)'
  BY <1>5 DEF BridgeInv, TypeOK, CallOK, OpenOK, Begun, RowsOK, AllIn, NoneIn,
     InitResolves, Awaiting, transaction, sqliteVars, txVars, counters
<1>6. ASSUME ~doubled'
      PROVE  robbed' = {} /\ OneDriver' /\ OneConsumer'
  <2>1. robbed' = {}
    BY <1>6 DEF BridgeInv, TypeOK, CallOK, OneDriver, OneConsumer, InitResolves,
       Awaiting, transaction, sqliteVars, txVars, counters
  <2>2. OneDriver'
    BY <1>6 DEF BridgeInv, TypeOK, CallOK, OneDriver, OneConsumer, InitResolves,
       Awaiting, transaction, sqliteVars, txVars, counters
  <2>3. OneConsumer'
    BY <1>6 DEF BridgeInv, TypeOK, CallOK, OneDriver, OneConsumer, InitResolves,
       Awaiting, transaction, sqliteVars, txVars, counters
  <2>4. QED
    BY <2>1, <2>2, <2>3
<1>7. QED
  BY <1>1, <1>2, <1>3, <1>4, <1>5, <1>6 DEF BridgeInv, TypeOK

LEMMA InitRejectsKeepsInv ==
    ASSUME BridgeInv, NEW i \in pending, InitRejects(i)
    PROVE  BridgeInv'
<1> USE ConstantsAssumption
<1> USE DEF Method, ConnectionMethod, Ended, Answer, Failure, Served
<1>1. TypeOK'
  BY DEF BridgeInv, TypeOK, CallOK, InitRejects, Awaiting, Settles, transaction,
     sqliteVars, txVars
<1>2. ASSUME NEW d \in Consumer
      PROVE  CallOK(d)'
  BY DEF BridgeInv, TypeOK, CallOK, InitRejects, Awaiting, Settles, transaction,
     sqliteVars, txVars
<1>3. ASSUME NEW d \in Consumer
      PROVE  ErrorOK(d)'
  BY DEF BridgeInv, TypeOK, CallOK, ErrorOK, OnConnection, InitRejects, Awaiting,
     Settles, transaction, sqliteVars, txVars
<1>4. ASSUME NEW d \in Consumer, d \notin robbed'
      PROVE  OpenOK(d)'
  BY <1>4 DEF BridgeInv, TypeOK, CallOK, OpenOK, Begun, RowsOK, NoneIn, InitRejects,
     Awaiting, Settles, transaction, sqliteVars, txVars
<1>5. ASSUME NEW d \in Consumer, d \notin robbed'
      PROVE  RowsOK(d)'
  BY <1>5 DEF BridgeInv, TypeOK, CallOK, OpenOK, Begun, RowsOK, AllIn, NoneIn,
     InitRejects, Awaiting, Settles, transaction, sqliteVars, txVars
<1>6. ASSUME ~doubled'
      PROVE  robbed' = {} /\ OneDriver' /\ OneConsumer'
  <2>1. robbed' = {}
    BY <1>6 DEF BridgeInv, TypeOK, CallOK, OneDriver, OneConsumer, InitRejects,
       Awaiting, Settles, transaction, sqliteVars, txVars
  <2>2. OneDriver'
    BY <1>6 DEF BridgeInv, TypeOK, CallOK, OneDriver, OneConsumer, InitRejects,
       Awaiting, Settles, transaction, sqliteVars, txVars
  <2>3. OneConsumer'
    BY <1>6 DEF BridgeInv, TypeOK, CallOK, OneDriver, OneConsumer, InitRejects,
       Awaiting, Settles, transaction, sqliteVars, txVars
  <2>4. QED
    BY <2>1, <2>2, <2>3
<1>7. QED
  BY <1>1, <1>2, <1>3, <1>4, <1>5, <1>6 DEF BridgeInv, TypeOK

LEMMA LockKeepsInv ==
    ASSUME BridgeInv, NEW c \in Consumer, Lock(c)
    PROVE  BridgeInv'
<1> USE ConstantsAssumption
<1> USE DEF Method, ConnectionMethod, Ended, Answer, Failure, Served
<1>1. TypeOK'
  <2>1. awaits[c] \in 1..made /\ locked' \subseteq 1..made
    <3>1. awaits[c] \in 0..made /\ awaits[c] # 0 /\ made \in Nat
      BY DEF BridgeInv, TypeOK, CallOK, Lock
    <3>2. awaits[c] \in 1..made
      BY <3>1
    <3>3. QED
      BY <3>2 DEF BridgeInv, TypeOK, Lock
  <2>2. QED
    BY <2>1 DEF BridgeInv, TypeOK, Lock, Waits, Settle, inits, transaction, txVars,
       counters
<1>2. ASSUME NEW d \in Consumer
      PROVE  CallOK(d)'
  BY DEF BridgeInv, TypeOK, CallOK, Lock, Waits, Settle, inits, transaction, txVars,
     counters
<1>3. ASSUME NEW d \in Consumer
      PROVE  ErrorOK(d)'
  BY DEF BridgeInv, TypeOK, CallOK, ErrorOK, OnConnection, Lock, Waits, Settle, inits,
     transaction, txVars, counters
<1>4. ASSUME NEW d \in Consumer, d \notin robbed'
      PROVE  OpenOK(d)'
  BY <1>4 DEF BridgeInv, TypeOK, CallOK, OpenOK, Begun, RowsOK, NoneIn, Lock, Waits,
     Settle, inits, transaction, txVars, counters
<1>5. ASSUME NEW d \in Consumer, d \notin robbed'
      PROVE  RowsOK(d)'
  BY <1>5 DEF BridgeInv, TypeOK, CallOK, OpenOK, Begun, RowsOK, AllIn, NoneIn, Lock,
     Waits, Settle, inits, transaction, txVars, counters
<1>6. ASSUME ~doubled'
      PROVE  robbed' = {} /\ OneDriver' /\ OneConsumer'
  <2>1. robbed' = {}
    BY <1>6 DEF BridgeInv, TypeOK, CallOK, OneDriver, OneConsumer, Lock, Waits, Settle,
       inits, transaction, txVars, counters
  <2>2. OneDriver'
    BY <1>6 DEF BridgeInv, TypeOK, CallOK, OneDriver, OneConsumer, Lock, Waits, Settle,
       inits, transaction, txVars, counters
  <2>3. OneConsumer'
    BY <1>6 DEF BridgeInv, TypeOK, CallOK, OneDriver, OneConsumer, Lock, Waits, Settle,
       inits, transaction, txVars, counters
  <2>4. QED
    BY <2>1, <2>2, <2>3
<1>7. QED
  BY <1>1, <1>2, <1>3, <1>4, <1>5, <1>6 DEF BridgeInv, TypeOK

LEMMA ReleaseConnectionKeepsInv ==
    ASSUME BridgeInv, NEW c \in Consumer, ReleaseConnection(c)
    PROVE  BridgeInv'
<1> USE ConstantsAssumption
<1> USE DEF Method, ConnectionMethod, Ended, Answer, Failure, Served
<1>1. TypeOK'
  <2>1. locked' \subseteq 1..made
    BY DEF BridgeInv, TypeOK, ReleaseConnection
  <2>2. QED
    BY <2>1 DEF BridgeInv, TypeOK, ReleaseConnection, Serves, Posted, Known, Waits,
       Settle, inits, transaction, txVars, counters
<1>2. ASSUME NEW d \in Consumer
      PROVE  CallOK(d)'
  BY DEF BridgeInv, TypeOK, CallOK, ReleaseConnection, Serves, Posted, Known, Waits,
     Settle, inits, transaction, txVars, counters
<1>3. ASSUME NEW d \in Consumer
      PROVE  ErrorOK(d)'
  BY DEF BridgeInv, TypeOK, CallOK, ErrorOK, OnConnection, ReleaseConnection, Serves,
     Posted, Known, Waits, Settle, inits, transaction, txVars, counters
<1>4. ASSUME NEW d \in Consumer, d \notin robbed'
      PROVE  OpenOK(d)'
  BY <1>4 DEF BridgeInv, TypeOK, CallOK, OpenOK, Begun, RowsOK, NoneIn,
     ReleaseConnection, Serves, Posted, Known, Waits, Settle, inits, transaction,
     txVars, counters
<1>5. ASSUME NEW d \in Consumer, d \notin robbed'
      PROVE  RowsOK(d)'
  BY <1>5 DEF BridgeInv, TypeOK, CallOK, OpenOK, Begun, RowsOK, AllIn, NoneIn,
     ReleaseConnection, Serves, Posted, Known, Waits, Settle, inits, transaction,
     txVars, counters
<1>6. ASSUME ~doubled'
      PROVE  robbed' = {} /\ OneDriver' /\ OneConsumer'
  <2>1. robbed' = {}
    BY <1>6 DEF BridgeInv, TypeOK, CallOK, OneDriver, OneConsumer, ReleaseConnection,
       Serves, Posted, Known, Waits, Settle, inits, transaction, txVars, counters
  <2>2. OneDriver'
    BY <1>6 DEF BridgeInv, TypeOK, CallOK, OneDriver, OneConsumer, ReleaseConnection,
       Serves, Posted, Known, Waits, Settle, inits, transaction, txVars, counters
  <2>3. OneConsumer'
    BY <1>6 DEF BridgeInv, TypeOK, CallOK, OneDriver, OneConsumer, ReleaseConnection,
       Serves, Posted, Known, Waits, Settle, inits, transaction, txVars, counters
  <2>4. QED
    BY <2>1, <2>2, <2>3
<1>7. QED
  BY <1>1, <1>2, <1>3, <1>4, <1>5, <1>6 DEF BridgeInv, TypeOK

LEMMA BeginTransactionKeepsInv ==
    ASSUME BridgeInv, NEW c \in Consumer, BeginTransaction(c)
    PROVE  BridgeInv'
<1> USE ConstantsAssumption
<1> USE DEF Method, ConnectionMethod, Ended, Answer, Failure, Served
<1>1. TypeOK'
  BY DEF BridgeInv, TypeOK, CallOK, Row, BeginTransaction, Serves, Posted, Known, Waits,
     Settle, inits, bridgeVars, txVars, counters
<1>2. ASSUME NEW d \in Consumer
      PROVE  CallOK(d)'
  BY DEF BridgeInv, TypeOK, CallOK, BeginTransaction, Serves, Posted, Known, Waits,
     Settle, inits, bridgeVars, txVars, counters
<1>3. ASSUME NEW d \in Consumer
      PROVE  ErrorOK(d)'
  BY DEF BridgeInv, TypeOK, CallOK, ErrorOK, OnConnection, BeginTransaction, Serves,
     Posted, Known, Waits, Settle, inits, bridgeVars, txVars, counters
<1>4. ASSUME NEW d \in Consumer, d \notin robbed'
      PROVE  OpenOK(d)'
  BY <1>4 DEF BridgeInv, TypeOK, CallOK, OpenOK, Begun, RowsOK, NoneIn,
     BeginTransaction, Serves, Posted, Known, Waits, Settle, inits, bridgeVars, txVars,
     counters
<1>5. ASSUME NEW d \in Consumer, d \notin robbed'
      PROVE  RowsOK(d)'
  BY <1>5 DEF BridgeInv, TypeOK, CallOK, OpenOK, Begun, RowsOK, AllIn, NoneIn,
     BeginTransaction, Serves, Posted, Known, Waits, Settle, inits, bridgeVars, txVars,
     counters
<1>6. ASSUME ~doubled'
      PROVE  robbed' = {} /\ OneDriver' /\ OneConsumer'
  <2>1. robbed' = {}
    BY <1>6 DEF BridgeInv, TypeOK, CallOK, OneDriver, OneConsumer, BeginTransaction,
       Serves, Posted, Known, Waits, Settle, inits, bridgeVars, txVars, counters
  <2>2. OneDriver'
    BY <1>6 DEF BridgeInv, TypeOK, CallOK, OneDriver, OneConsumer, BeginTransaction,
       Serves, Posted, Known, Waits, Settle, inits, bridgeVars, txVars, counters
  <2>3. OneConsumer'
    BY <1>6 DEF BridgeInv, TypeOK, CallOK, OneDriver, OneConsumer, BeginTransaction,
       Serves, Posted, Known, Waits, Settle, inits, bridgeVars, txVars, counters
  <2>4. QED
    BY <2>1, <2>2, <2>3
<1>7. QED
  BY <1>1, <1>2, <1>3, <1>4, <1>5, <1>6 DEF BridgeInv, TypeOK

LEMMA ExecuteQueryKeepsInv ==
    ASSUME BridgeInv, NEW c \in Consumer, ExecuteQuery(c)
    PROVE  BridgeInv'
<1> USE ConstantsAssumption
<1> USE DEF Method, ConnectionMethod, Ended, Answer, Failure, Served
<1>1. TypeOK'
  BY DEF BridgeInv, TypeOK, CallOK, Row, ExecuteQuery, Serves, Posted, Known, Waits,
     Settle, Write, inits, bridgeVars, counters
<1>2. ASSUME NEW d \in Consumer
      PROVE  CallOK(d)'
  BY DEF BridgeInv, TypeOK, CallOK, ExecuteQuery, Serves, Posted, Known, Waits, Settle,
     Write, inits, bridgeVars, counters
<1>3. ASSUME NEW d \in Consumer
      PROVE  ErrorOK(d)'
  BY DEF BridgeInv, TypeOK, CallOK, ErrorOK, OnConnection, ExecuteQuery, Serves, Posted,
     Known, Waits, Settle, Write, inits, bridgeVars, counters
<1>4. ASSUME NEW d \in Consumer, d \notin robbed'
      PROVE  OpenOK(d)'
  BY <1>4 DEF BridgeInv, TypeOK, CallOK, OpenOK, Begun, RowsOK, NoneIn, ExecuteQuery,
     Serves, Posted, Known, Waits, Settle, Write, inits, bridgeVars, counters
<1>5. ASSUME NEW d \in Consumer, d \notin robbed'
      PROVE  RowsOK(d)'
  BY <1>5 DEF BridgeInv, TypeOK, CallOK, OpenOK, Begun, RowsOK, AllIn, NoneIn,
     ExecuteQuery, Serves, Posted, Known, Waits, Settle, Write, inits, bridgeVars,
     counters
<1>6. ASSUME ~doubled'
      PROVE  robbed' = {} /\ OneDriver' /\ OneConsumer'
  <2>1. robbed' = {}
    BY <1>6 DEF BridgeInv, TypeOK, CallOK, OneDriver, OneConsumer, ExecuteQuery, Serves,
       Posted, Known, Waits, Settle, Write, inits, bridgeVars, counters
  <2>2. OneDriver'
    BY <1>6 DEF BridgeInv, TypeOK, CallOK, OneDriver, OneConsumer, ExecuteQuery, Serves,
       Posted, Known, Waits, Settle, Write, inits, bridgeVars, counters
  <2>3. OneConsumer'
    BY <1>6 DEF BridgeInv, TypeOK, CallOK, OneDriver, OneConsumer, ExecuteQuery, Serves,
       Posted, Known, Waits, Settle, Write, inits, bridgeVars, counters
  <2>4. QED
    BY <2>1, <2>2, <2>3
<1>7. QED
  BY <1>1, <1>2, <1>3, <1>4, <1>5, <1>6 DEF BridgeInv, TypeOK

LEMMA CommitTransactionKeepsInv ==
    ASSUME BridgeInv, NEW c \in Consumer, CommitTransaction(c)
    PROVE  BridgeInv'
<1> USE ConstantsAssumption
<1> USE DEF Method, ConnectionMethod, Ended, Answer, Failure, Served
<1>1. TypeOK'
  BY DEF BridgeInv, TypeOK, CallOK, Row, CommitTransaction, Serves, Posted, Known,
     Waits, Settle, EndsFor, inits, bridgeVars, txVars, counters
<1>2. ASSUME NEW d \in Consumer
      PROVE  CallOK(d)'
  BY DEF BridgeInv, TypeOK, CallOK, CommitTransaction, Serves, Posted, Known, Waits,
     Settle, EndsFor, inits, bridgeVars, txVars, counters
<1>3. ASSUME NEW d \in Consumer
      PROVE  ErrorOK(d)'
  BY DEF BridgeInv, TypeOK, CallOK, ErrorOK, OnConnection, CommitTransaction, Serves,
     Posted, Known, Waits, Settle, EndsFor, inits, bridgeVars, txVars, counters
<1>4. ASSUME NEW d \in Consumer, d \notin robbed'
      PROVE  OpenOK(d)'
  BY <1>4 DEF BridgeInv, TypeOK, CallOK, OpenOK, Begun, RowsOK, NoneIn,
     CommitTransaction, Serves, Posted, Known, Waits, Settle, EndsFor, inits,
     bridgeVars, txVars, counters
<1>5. ASSUME NEW d \in Consumer, d \notin robbed'
      PROVE  RowsOK(d)'
  BY <1>5 DEF BridgeInv, TypeOK, CallOK, OpenOK, Begun, RowsOK, AllIn, NoneIn,
     CommitTransaction, Serves, Posted, Known, Waits, Settle, EndsFor, inits,
     bridgeVars, txVars, counters
<1>6. ASSUME ~doubled'
      PROVE  robbed' = {} /\ OneDriver' /\ OneConsumer'
  <2>1. robbed' = {}
    BY <1>6 DEF BridgeInv, TypeOK, CallOK, OneDriver, OneConsumer, CommitTransaction,
       Serves, Posted, Known, Waits, Settle, EndsFor, inits, bridgeVars, txVars,
       counters
  <2>2. OneDriver'
    BY <1>6 DEF BridgeInv, TypeOK, CallOK, OneDriver, OneConsumer, CommitTransaction,
       Serves, Posted, Known, Waits, Settle, EndsFor, inits, bridgeVars, txVars,
       counters
  <2>3. OneConsumer'
    BY <1>6 DEF BridgeInv, TypeOK, CallOK, OneDriver, OneConsumer, CommitTransaction,
       Serves, Posted, Known, Waits, Settle, EndsFor, inits, bridgeVars, txVars,
       counters
  <2>4. QED
    BY <2>1, <2>2, <2>3
<1>7. QED
  BY <1>1, <1>2, <1>3, <1>4, <1>5, <1>6 DEF BridgeInv, TypeOK

LEMMA RollbackTransactionKeepsInv ==
    ASSUME BridgeInv, NEW c \in Consumer, RollbackTransaction(c)
    PROVE  BridgeInv'
<1> USE ConstantsAssumption
<1> USE DEF Method, ConnectionMethod, Ended, Answer, Failure, Served
<1>1. TypeOK'
  BY DEF BridgeInv, TypeOK, CallOK, RollbackTransaction, Serves, Posted, Known, Waits,
     Settle, EndsFor, inits, bridgeVars, txVars, counters
<1>2. ASSUME NEW d \in Consumer
      PROVE  CallOK(d)'
  BY DEF BridgeInv, TypeOK, CallOK, RollbackTransaction, Serves, Posted, Known, Waits,
     Settle, EndsFor, inits, bridgeVars, txVars, counters
<1>3. ASSUME NEW d \in Consumer
      PROVE  ErrorOK(d)'
  BY DEF BridgeInv, TypeOK, CallOK, ErrorOK, OnConnection, RollbackTransaction, Serves,
     Posted, Known, Waits, Settle, EndsFor, inits, bridgeVars, txVars, counters
<1>4. ASSUME NEW d \in Consumer, d \notin robbed'
      PROVE  OpenOK(d)'
  BY <1>4 DEF BridgeInv, TypeOK, CallOK, OpenOK, Begun, RowsOK, NoneIn,
     RollbackTransaction, Serves, Posted, Known, Waits, Settle, EndsFor, inits,
     bridgeVars, txVars, counters
<1>5. ASSUME NEW d \in Consumer, d \notin robbed'
      PROVE  RowsOK(d)'
  BY <1>5 DEF BridgeInv, TypeOK, CallOK, OpenOK, Begun, RowsOK, AllIn, NoneIn,
     RollbackTransaction, Serves, Posted, Known, Waits, Settle, EndsFor, inits,
     bridgeVars, txVars, counters
<1>6. ASSUME ~doubled'
      PROVE  robbed' = {} /\ OneDriver' /\ OneConsumer'
  <2>1. robbed' = {}
    BY <1>6 DEF BridgeInv, TypeOK, CallOK, OneDriver, OneConsumer, RollbackTransaction,
       Serves, Posted, Known, Waits, Settle, EndsFor, inits, bridgeVars, txVars,
       counters
  <2>2. OneDriver'
    BY <1>6 DEF BridgeInv, TypeOK, CallOK, OneDriver, OneConsumer, RollbackTransaction,
       Serves, Posted, Known, Waits, Settle, EndsFor, inits, bridgeVars, txVars,
       counters
  <2>3. OneConsumer'
    BY <1>6 DEF BridgeInv, TypeOK, CallOK, OneDriver, OneConsumer, RollbackTransaction,
       Serves, Posted, Known, Waits, Settle, EndsFor, inits, bridgeVars, txVars,
       counters
  <2>4. QED
    BY <2>1, <2>2, <2>3
<1>7. QED
  BY <1>1, <1>2, <1>3, <1>4, <1>5, <1>6 DEF BridgeInv, TypeOK

LEMMA OutOfTurnKeepsInv ==
    ASSUME BridgeInv, NEW c \in Consumer, OutOfTurn(c)
    PROVE  BridgeInv'
<1> USE ConstantsAssumption
<1> USE DEF Method, ConnectionMethod, Ended, Answer, Failure, Served
<1>1. TypeOK'
  BY DEF BridgeInv, TypeOK, CallOK, OutOfTurn, Serves, Posted, Known, Waits, Settle,
     inits, bridgeVars, transaction, sqliteVars, txVars, counters
<1>2. ASSUME NEW d \in Consumer
      PROVE  CallOK(d)'
  BY DEF BridgeInv, TypeOK, CallOK, OutOfTurn, Serves, Posted, Known, Waits, Settle,
     inits, bridgeVars, transaction, sqliteVars, txVars, counters
<1>3. ASSUME NEW d \in Consumer
      PROVE  ErrorOK(d)'
  BY DEF BridgeInv, TypeOK, CallOK, ErrorOK, OnConnection, OutOfTurn, Serves, Posted,
     Known, Waits, Settle, inits, bridgeVars, transaction, sqliteVars, txVars, counters
<1>4. ASSUME NEW d \in Consumer, d \notin robbed'
      PROVE  OpenOK(d)'
  BY <1>4 DEF BridgeInv, TypeOK, CallOK, OpenOK, Begun, RowsOK, NoneIn, OutOfTurn,
     Serves, Posted, Known, Waits, Settle, inits, bridgeVars, transaction, sqliteVars,
     txVars, counters
<1>5. ASSUME NEW d \in Consumer, d \notin robbed'
      PROVE  RowsOK(d)'
  BY <1>5 DEF BridgeInv, TypeOK, CallOK, OpenOK, Begun, RowsOK, AllIn, NoneIn,
     OutOfTurn, Serves, Posted, Known, Waits, Settle, inits, bridgeVars, transaction,
     sqliteVars, txVars, counters
<1>6. ASSUME ~doubled'
      PROVE  robbed' = {} /\ OneDriver' /\ OneConsumer'
  <2>1. robbed' = {}
    BY <1>6 DEF BridgeInv, TypeOK, CallOK, OneDriver, OneConsumer, OutOfTurn, Serves,
       Posted, Known, Waits, Settle, inits, bridgeVars, transaction, sqliteVars, txVars,
       counters
  <2>2. OneDriver'
    BY <1>6 DEF BridgeInv, TypeOK, CallOK, OneDriver, OneConsumer, OutOfTurn, Serves,
       Posted, Known, Waits, Settle, inits, bridgeVars, transaction, sqliteVars, txVars,
       counters
  <2>3. OneConsumer'
    BY <1>6 DEF BridgeInv, TypeOK, CallOK, OneDriver, OneConsumer, OutOfTurn, Serves,
       Posted, Known, Waits, Settle, inits, bridgeVars, transaction, sqliteVars, txVars,
       counters
  <2>4. QED
    BY <2>1, <2>2, <2>3
<1>7. QED
  BY <1>1, <1>2, <1>3, <1>4, <1>5, <1>6 DEF BridgeInv, TypeOK

LEMMA RejectKeepsInv ==
    ASSUME BridgeInv, NEW c \in Consumer, Reject(c)
    PROVE  BridgeInv'
<1> USE ConstantsAssumption
<1> USE DEF Method, ConnectionMethod, Ended, Answer, Failure, Served
<1>1. TypeOK'
  BY DEF BridgeInv, TypeOK, CallOK, Reject, Serves, Posted, Known, Waits, Settle,
     EndsFor, inits, bridgeVars, transaction, txVars
<1>2. ASSUME NEW d \in Consumer
      PROVE  CallOK(d)'
  BY DEF BridgeInv, TypeOK, CallOK, Reject, Serves, Posted, Known, Waits, Settle,
     EndsFor, inits, bridgeVars, transaction, txVars
<1>3. ASSUME NEW d \in Consumer
      PROVE  ErrorOK(d)'
  BY DEF BridgeInv, TypeOK, CallOK, ErrorOK, OnConnection, Reject, Serves, Posted,
     Known, Waits, Settle, EndsFor, inits, bridgeVars, transaction, txVars
<1>4. ASSUME NEW d \in Consumer, d \notin robbed'
      PROVE  OpenOK(d)'
  BY <1>4 DEF BridgeInv, TypeOK, CallOK, OpenOK, Begun, RowsOK, NoneIn, Reject, Serves,
     Posted, Known, Waits, Settle, EndsFor, inits, bridgeVars, transaction, txVars
<1>5. ASSUME NEW d \in Consumer, d \notin robbed'
      PROVE  RowsOK(d)'
  BY <1>5 DEF BridgeInv, TypeOK, CallOK, OpenOK, Begun, RowsOK, AllIn, NoneIn, Reject,
     Serves, Posted, Known, Waits, Settle, EndsFor, inits, bridgeVars, transaction,
     txVars
<1>6. ASSUME ~doubled'
      PROVE  robbed' = {} /\ OneDriver' /\ OneConsumer'
  <2>1. robbed' = {}
    BY <1>6 DEF BridgeInv, TypeOK, CallOK, OneDriver, OneConsumer, Reject, Serves,
       Posted, Known, Waits, Settle, EndsFor, inits, bridgeVars, transaction, txVars
  <2>2. OneDriver'
    BY <1>6 DEF BridgeInv, TypeOK, CallOK, OneDriver, OneConsumer, Reject, Serves,
       Posted, Known, Waits, Settle, EndsFor, inits, bridgeVars, transaction, txVars
  <2>3. OneConsumer'
    BY <1>6 DEF BridgeInv, TypeOK, CallOK, OneDriver, OneConsumer, Reject, Serves,
       Posted, Known, Waits, Settle, EndsFor, inits, bridgeVars, transaction, txVars
  <2>4. QED
    BY <2>1, <2>2, <2>3
<1>7. QED
  BY <1>1, <1>2, <1>3, <1>4, <1>5, <1>6 DEF BridgeInv, TypeOK

LEMMA DestroyKeepsInv ==
    ASSUME BridgeInv, Destroy
    PROVE  BridgeInv'
<1> USE ConstantsAssumption
<1> USE DEF Method, ConnectionMethod, Ended, Answer, Failure, Served
<1>1. TypeOK'
  BY DEF BridgeInv, TypeOK, CallOK, Destroy, txVars
<1>2. ASSUME NEW d \in Consumer
      PROVE  CallOK(d)'
  BY DEF BridgeInv, TypeOK, CallOK, Destroy, txVars
<1>3. ASSUME NEW d \in Consumer
      PROVE  ErrorOK(d)'
  BY DEF BridgeInv, TypeOK, CallOK, ErrorOK, OnConnection, Destroy, txVars
<1>4. ASSUME NEW d \in Consumer, d \notin robbed'
      PROVE  OpenOK(d)'
  BY <1>4 DEF BridgeInv, TypeOK, CallOK, OpenOK, Begun, RowsOK, NoneIn, Destroy, txVars
<1>5. ASSUME NEW d \in Consumer, d \notin robbed'
      PROVE  RowsOK(d)'
  BY <1>5 DEF BridgeInv, TypeOK, CallOK, OpenOK, Begun, RowsOK, AllIn, NoneIn, Destroy,
     txVars
<1>6. ASSUME ~doubled'
      PROVE  robbed' = {} /\ OneDriver' /\ OneConsumer'
  <2>1. robbed' = {}
    BY <1>6 DEF BridgeInv, TypeOK, CallOK, OneDriver, OneConsumer, Destroy, txVars
  <2>2. OneDriver'
    BY <1>6 DEF BridgeInv, TypeOK, CallOK, OneDriver, OneConsumer, Destroy, txVars
  <2>3. OneConsumer'
    BY <1>6 DEF BridgeInv, TypeOK, CallOK, OneDriver, OneConsumer, Destroy, txVars
  <2>4. QED
    BY <2>1, <2>2, <2>3
<1>7. QED
  BY <1>1, <1>2, <1>3, <1>4, <1>5, <1>6 DEF BridgeInv, TypeOK

LEMMA ResignKeepsInv ==
    ASSUME BridgeInv, Resign
    PROVE  BridgeInv'
<1> USE ConstantsAssumption
<1> USE DEF Method, ConnectionMethod, Ended, Answer, Failure, Served
<1>1. TypeOK'
  <2>1. awaits' = [c \in Consumer |-> 0]
    <3>1. ASSUME NEW d \in Consumer, call[d] \notin Served
          PROVE  awaits[d] = 0
      BY <3>1 DEF BridgeInv, CallOK
    <3>2. PICK lost \in SUBSET {d \in Consumer : call[d] \in Answer} :
            Settles(lost \cup {d \in Consumer : call[d] \in Served \cup {"posted"}},
                    "LeaderResigned")
      BY DEF Resign
    <3>3. QED
      BY <3>1, <3>2 DEF Settles
  <2>2. call' \in [Consumer -> Answer \cup Served \cup {None, "posted"}]
    BY DEF BridgeInv, TypeOK, Resign, Settles
  <2>3. /\ leader' = FALSE /\ driver' = 0 /\ memo' = 0 /\ pending' = {} /\ made' = 0
        /\ connections' = {} /\ locked' = {} /\ attached' = {} /\ open' = None
        /\ written' = {} /\ resigns' = resigns + 1
        /\ UNCHANGED <<db, robbed, txVars, doubled, errors, closes, destroys>>
    BY DEF Resign
  <2>4. awaits' \in [Consumer -> 0..made']
    BY <2>1, <2>3
  <2>5. /\ step' \in [Consumer -> Method \cup Ended \cup {"idle"}]
        /\ todo' \in [Consumer -> SUBSET Statement]
        /\ error' \in [Consumer -> Failure \cup {None}]
        /\ first' \in [Consumer -> Failure \cup {None}]
        /\ closed' \subseteq Consumer /\ robbed' \subseteq Consumer /\ db' \in SUBSET Row
        /\ doubled' \in BOOLEAN
    BY <2>3 DEF BridgeInv, TypeOK, txVars
  <2>6. resigns' \in Nat /\ errors' \in Nat /\ closes' \in Nat /\ destroys' \in Nat
    BY <2>3 DEF BridgeInv, TypeOK
  <2>7. /\ made' \in Nat /\ driver' \in 0..made' /\ memo' \in 0..made'
        /\ pending' \subseteq 1..made' /\ locked' \subseteq 1..made'
        /\ connections' \subseteq attached' /\ attached' \subseteq Consumer
        /\ open' \in Consumer \cup {None} /\ written' \in SUBSET Row /\ written' = {}
        /\ leader' \in BOOLEAN
    <3>1. 0 \in Nat /\ 0 \in 0..0
      OBVIOUS
    <3>2. made' \in Nat /\ driver' \in 0..made' /\ memo' \in 0..made'
      BY <2>3, <3>1
    <3>3. QED
      BY <2>3, <3>2
  <2>8. QED
    BY <2>2, <2>4, <2>5, <2>6, <2>7 DEF TypeOK
<1>2. ASSUME NEW d \in Consumer
      PROVE  CallOK(d)'
  BY DEF BridgeInv, TypeOK, CallOK, Resign, Settles, txVars
<1>3. ASSUME NEW d \in Consumer
      PROVE  ErrorOK(d)'
  BY DEF BridgeInv, TypeOK, CallOK, ErrorOK, OnConnection, Resign, Settles, txVars
<1>4. ASSUME NEW d \in Consumer, d \notin robbed'
      PROVE  OpenOK(d)'
  BY <1>4 DEF BridgeInv, TypeOK, CallOK, OpenOK, Begun, RowsOK, NoneIn, Resign, Settles,
     txVars
<1>5. ASSUME NEW d \in Consumer, d \notin robbed'
      PROVE  RowsOK(d)'
  BY <1>5 DEF BridgeInv, TypeOK, CallOK, OpenOK, Begun, RowsOK, AllIn, NoneIn, Resign,
     Settles, txVars
<1>6. ASSUME ~doubled'
      PROVE  robbed' = {} /\ OneDriver' /\ OneConsumer'
  <2>1. robbed' = {}
    BY <1>6 DEF BridgeInv, TypeOK, CallOK, OneDriver, OneConsumer, Resign, Settles,
       txVars
  <2>2. OneDriver'
    BY <1>6 DEF BridgeInv, TypeOK, CallOK, OneDriver, OneConsumer, Resign, Settles,
       txVars
  <2>3. OneConsumer'
    BY <1>6 DEF BridgeInv, TypeOK, CallOK, OneDriver, OneConsumer, Resign, Settles,
       txVars
  <2>4. QED
    BY <2>1, <2>2, <2>3
<1>7. QED
  BY <1>1, <1>2, <1>3, <1>4, <1>5, <1>6 DEF BridgeInv, TypeOK

LEMMA ElectKeepsInv ==
    ASSUME BridgeInv, Elect
    PROVE  BridgeInv'
<1> USE ConstantsAssumption
<1> USE DEF Method, ConnectionMethod, Ended, Answer, Failure, Served
<1>1. TypeOK'
  BY DEF BridgeInv, TypeOK, CallOK, Elect, inits, bridgeVars, transaction, sqliteVars,
     txVars, counters
<1>2. ASSUME NEW d \in Consumer
      PROVE  CallOK(d)'
  BY DEF BridgeInv, TypeOK, CallOK, Elect, inits, bridgeVars, transaction, sqliteVars,
     txVars, counters
<1>3. ASSUME NEW d \in Consumer
      PROVE  ErrorOK(d)'
  BY DEF BridgeInv, TypeOK, CallOK, ErrorOK, OnConnection, Elect, inits, bridgeVars,
     transaction, sqliteVars, txVars, counters
<1>4. ASSUME NEW d \in Consumer, d \notin robbed'
      PROVE  OpenOK(d)'
  BY <1>4 DEF BridgeInv, TypeOK, CallOK, OpenOK, Begun, RowsOK, NoneIn, Elect, inits,
     bridgeVars, transaction, sqliteVars, txVars, counters
<1>5. ASSUME NEW d \in Consumer, d \notin robbed'
      PROVE  RowsOK(d)'
  BY <1>5 DEF BridgeInv, TypeOK, CallOK, OpenOK, Begun, RowsOK, AllIn, NoneIn, Elect,
     inits, bridgeVars, transaction, sqliteVars, txVars, counters
<1>6. ASSUME ~doubled'
      PROVE  robbed' = {} /\ OneDriver' /\ OneConsumer'
  <2>1. robbed' = {}
    BY <1>6 DEF BridgeInv, TypeOK, CallOK, OneDriver, OneConsumer, Elect, inits,
       bridgeVars, transaction, sqliteVars, txVars, counters
  <2>2. OneDriver'
    BY <1>6 DEF BridgeInv, TypeOK, CallOK, OneDriver, OneConsumer, Elect, inits,
       bridgeVars, transaction, sqliteVars, txVars, counters
  <2>3. OneConsumer'
    BY <1>6 DEF BridgeInv, TypeOK, CallOK, OneDriver, OneConsumer, Elect, inits,
       bridgeVars, transaction, sqliteVars, txVars, counters
  <2>4. QED
    BY <2>1, <2>2, <2>3
<1>7. QED
  BY <1>1, <1>2, <1>3, <1>4, <1>5, <1>6 DEF BridgeInv, TypeOK

LEMMA StartKeepsInv ==
    ASSUME BridgeInv, NEW c \in Consumer, Start(c)
    PROVE  BridgeInv'
<1> USE ConstantsAssumption
<1> USE DEF Method, ConnectionMethod, Ended, Answer, Failure, Served
<1>1. TypeOK'
  BY DEF BridgeInv, TypeOK, CallOK, Start, Post, consumerOnly, inits, bridgeVars,
     transaction, sqliteVars, counters, consumerOnly
<1>2. ASSUME NEW d \in Consumer
      PROVE  CallOK(d)'
  BY DEF BridgeInv, TypeOK, CallOK, Start, Post, consumerOnly, inits, bridgeVars,
     transaction, sqliteVars, counters, consumerOnly
<1>3. ASSUME NEW d \in Consumer
      PROVE  ErrorOK(d)'
  BY DEF BridgeInv, TypeOK, CallOK, ErrorOK, OnConnection, Start, Post, consumerOnly,
     inits, bridgeVars, transaction, sqliteVars, counters, consumerOnly
<1>4. ASSUME NEW d \in Consumer, d \notin robbed'
      PROVE  OpenOK(d)'
  BY <1>4 DEF BridgeInv, TypeOK, CallOK, OpenOK, Begun, RowsOK, NoneIn, Start, Post,
     consumerOnly, inits, bridgeVars, transaction, sqliteVars, counters, consumerOnly
<1>5. ASSUME NEW d \in Consumer, d \notin robbed'
      PROVE  RowsOK(d)'
  BY <1>5 DEF BridgeInv, TypeOK, CallOK, OpenOK, Begun, RowsOK, AllIn, NoneIn, Start,
     Post, consumerOnly, inits, bridgeVars, transaction, sqliteVars, counters,
     consumerOnly
<1>6. ASSUME ~doubled'
      PROVE  robbed' = {} /\ OneDriver' /\ OneConsumer'
  <2>1. robbed' = {}
    BY <1>6 DEF BridgeInv, TypeOK, CallOK, OneDriver, OneConsumer, Start, Post,
       consumerOnly, inits, bridgeVars, transaction, sqliteVars, counters, consumerOnly
  <2>2. OneDriver'
    BY <1>6 DEF BridgeInv, TypeOK, CallOK, OneDriver, OneConsumer, Start, Post,
       consumerOnly, inits, bridgeVars, transaction, sqliteVars, counters, consumerOnly
  <2>3. OneConsumer'
    BY <1>6 DEF BridgeInv, TypeOK, CallOK, OneDriver, OneConsumer, Start, Post,
       consumerOnly, inits, bridgeVars, transaction, sqliteVars, counters, consumerOnly
  <2>4. QED
    BY <2>1, <2>2, <2>3
<1>7. QED
  BY <1>1, <1>2, <1>3, <1>4, <1>5, <1>6 DEF BridgeInv, TypeOK

LEMMA CloseKeepsInv ==
    ASSUME BridgeInv, NEW c \in Consumer, Close(c)
    PROVE  BridgeInv'
<1> USE ConstantsAssumption
<1> USE DEF Method, ConnectionMethod, Ended, Answer, Failure, Served
<1>1. TypeOK'
  BY DEF BridgeInv, TypeOK, CallOK, Close, inits, bridgeVars, transaction, sqliteVars
<1>2. ASSUME NEW d \in Consumer
      PROVE  CallOK(d)'
  BY DEF BridgeInv, TypeOK, CallOK, Close, inits, bridgeVars, transaction, sqliteVars
<1>3. ASSUME NEW d \in Consumer
      PROVE  ErrorOK(d)'
  BY DEF BridgeInv, TypeOK, CallOK, ErrorOK, OnConnection, Close, inits, bridgeVars,
     transaction, sqliteVars
<1>4. ASSUME NEW d \in Consumer, d \notin robbed'
      PROVE  OpenOK(d)'
  BY <1>4 DEF BridgeInv, TypeOK, CallOK, OpenOK, Begun, RowsOK, NoneIn, Close, inits,
     bridgeVars, transaction, sqliteVars
<1>5. ASSUME NEW d \in Consumer, d \notin robbed'
      PROVE  RowsOK(d)'
  BY <1>5 DEF BridgeInv, TypeOK, CallOK, OpenOK, Begun, RowsOK, AllIn, NoneIn, Close,
     inits, bridgeVars, transaction, sqliteVars
<1>6. ASSUME ~doubled'
      PROVE  robbed' = {} /\ OneDriver' /\ OneConsumer'
  <2>1. robbed' = {}
    BY <1>6 DEF BridgeInv, TypeOK, CallOK, OneDriver, OneConsumer, Close, inits,
       bridgeVars, transaction, sqliteVars
  <2>2. OneDriver'
    BY <1>6 DEF BridgeInv, TypeOK, CallOK, OneDriver, OneConsumer, Close, inits,
       bridgeVars, transaction, sqliteVars
  <2>3. OneConsumer'
    BY <1>6 DEF BridgeInv, TypeOK, CallOK, OneDriver, OneConsumer, Close, inits,
       bridgeVars, transaction, sqliteVars
  <2>4. QED
    BY <2>1, <2>2, <2>3
<1>7. QED
  BY <1>1, <1>2, <1>3, <1>4, <1>5, <1>6 DEF BridgeInv, TypeOK

(* The consumer calls next after the method of its step, or ends.          *)
Moves(c, next) ==
    /\ step' = [step EXCEPT ![c] = next]
    /\ call' = [call EXCEPT ![c] = IF next \in Ended THEN None ELSE "posted"]

Onward(c, next) ==
    \/ step[c] = "init" /\ next = "acquireConnection"
    \/ step[c] = "acquireConnection" /\ next = "beginTransaction"
    \/ /\ step[c] \in {"beginTransaction", "executeQuery"}
       /\ next = IF todo[c] # {} THEN "executeQuery" ELSE "commitTransaction"
    \/ /\ step[c] \in {"commitTransaction", "rollbackTransaction"}
       /\ next = "releaseConnection"
    \/ /\ step[c] = "releaseConnection"
       /\ next = IF error[c] = None THEN "committed" ELSE "failed"

Back(c, next) ==
    \/ /\ step[c] \in {"init", "acquireConnection", "releaseConnection"}
       /\ next = "failed"
    \/ /\ step[c] \in {"beginTransaction", "rollbackTransaction"}
       /\ next = "releaseConnection"
    \/ /\ step[c] \in {"executeQuery", "commitTransaction"}
       /\ next = "rollbackTransaction"

LEMMA ProceedMoves ==
    ASSUME NEW c \in Consumer, step[c] \in Method, Proceed(c)
    PROVE  \E next \in Method \cup Ended : Onward(c, next) /\ Moves(c, next)
<1> USE DEF Proceed, Onward, Moves, Post, End, Method, ConnectionMethod, Ended
<1>1. CASE step[c] = "init"
  <2>1. Onward(c, "acquireConnection") /\ Moves(c, "acquireConnection")
    BY <1>1
  <2>2. QED
    BY <2>1
<1>2. CASE step[c] = "acquireConnection"
  <2>1. Onward(c, "beginTransaction") /\ Moves(c, "beginTransaction")
    BY <1>2
  <2>2. QED
    BY <2>1
<1>3. CASE step[c] \in {"beginTransaction", "executeQuery"}
  <2>1. CASE todo[c] # {}
    <3>1. Onward(c, "executeQuery") /\ Moves(c, "executeQuery")
      BY <1>3, <2>1
    <3>2. QED
      BY <3>1
  <2>2. CASE todo[c] = {}
    <3>1. Onward(c, "commitTransaction") /\ Moves(c, "commitTransaction")
      BY <1>3, <2>2
    <3>2. QED
      BY <3>1
  <2>3. QED
    BY <2>1, <2>2
<1>4. CASE step[c] \in {"commitTransaction", "rollbackTransaction"}
  <2>1. Onward(c, "releaseConnection") /\ Moves(c, "releaseConnection")
    BY <1>4
  <2>2. QED
    BY <2>1
<1>5. CASE step[c] = "releaseConnection"
  BY <1>5
<1>6. QED
  BY <1>1, <1>2, <1>3, <1>4, <1>5

LEMMA CleanUpMoves ==
    ASSUME NEW c \in Consumer, step[c] \in Method, CleanUp(c)
    PROVE  \E next \in Method \cup Ended : Back(c, next) /\ Moves(c, next)
<1> USE DEF CleanUp, Back, Moves, Post, End, Method, ConnectionMethod, Ended
<1>1. CASE step[c] \in {"init", "acquireConnection", "releaseConnection"}
  <2>1. Back(c, "failed") /\ Moves(c, "failed")
    BY <1>1
  <2>2. QED
    BY <2>1
<1>2. CASE step[c] \in {"beginTransaction", "rollbackTransaction"}
  <2>1. Back(c, "releaseConnection") /\ Moves(c, "releaseConnection")
    BY <1>2
  <2>2. QED
    BY <2>1
<1>3. CASE step[c] \in {"executeQuery", "commitTransaction"}
  <2>1. Back(c, "rollbackTransaction") /\ Moves(c, "rollbackTransaction")
    BY <1>3
  <2>2. QED
    BY <2>1
<1>4. QED
  BY <1>1, <1>2, <1>3

LEMMA ResolvedKeepsInv ==
    ASSUME BridgeInv, NEW c \in Consumer, Resolved(c)
    PROVE  BridgeInv'
<1> USE ConstantsAssumption
<1> USE DEF Method, ConnectionMethod, Ended, Answer, Failure, Served
<1> USE DEF consumerOnly, inits, bridgeVars, transaction, sqliteVars, counters
<1>1. step[c] \in Method
  BY DEF BridgeInv, TypeOK, CallOK, Resolved
<1>2. PICK next \in Method \cup Ended : Onward(c, next) /\ Moves(c, next)
  BY <1>1, ProceedMoves DEF Resolved
<1> USE <1>2 DEF Onward, Moves
<1>3. TypeOK'
  BY DEF BridgeInv, TypeOK, Resolved
<1>4. ASSUME NEW d \in Consumer
      PROVE  CallOK(d)'
  BY DEF BridgeInv, TypeOK, CallOK, Resolved
<1>5. ASSUME NEW d \in Consumer
      PROVE  ErrorOK(d)'
  BY DEF BridgeInv, TypeOK, CallOK, ErrorOK, OnConnection, Resolved
<1>6. ASSUME NEW d \in Consumer, d \notin robbed'
      PROVE  OpenOK(d)'
  BY <1>6 DEF BridgeInv, TypeOK, OpenOK, Begun, NoneIn, Resolved
<1>7. ASSUME NEW d \in Consumer, d \notin robbed'
      PROVE  RowsOK(d)'
  BY <1>7 DEF BridgeInv, TypeOK, CallOK, ErrorOK, RowsOK, AllIn, NoneIn, Resolved
<1>8. ASSUME ~doubled'
      PROVE  robbed' = {} /\ OneDriver' /\ OneConsumer'
  <2>1. OneDriver'
    BY <1>8 DEF BridgeInv, TypeOK, CallOK, OneDriver, Resolved
  <2>2. OneConsumer'
    BY <1>8 DEF BridgeInv, TypeOK, CallOK, OneConsumer, Resolved
  <2>3. QED
    BY <1>8, <2>1, <2>2 DEF BridgeInv, Resolved
<1>9. QED
  BY <1>3, <1>4, <1>5, <1>6, <1>7, <1>8 DEF BridgeInv, TypeOK

LEMMA SwallowKeepsInv ==
    ASSUME BridgeInv, NEW c \in Consumer, Swallow(c)
    PROVE  BridgeInv'
<1> USE ConstantsAssumption
<1> USE DEF Method, ConnectionMethod, Ended, Answer, Failure, Served
<1> USE DEF consumerOnly, inits, bridgeVars, transaction, sqliteVars, counters
<1>1. step[c] \in Method
  BY DEF BridgeInv, TypeOK, CallOK, Swallow, Swallowed
<1>2. PICK next \in Method \cup Ended : Onward(c, next) /\ Moves(c, next)
  BY <1>1, ProceedMoves DEF Swallow
<1> USE <1>2 DEF Onward, Moves
<1>3. TypeOK'
  BY DEF BridgeInv, TypeOK, Swallow
<1>4. ASSUME NEW d \in Consumer
      PROVE  CallOK(d)'
  BY DEF BridgeInv, TypeOK, CallOK, Swallow, Swallowed
<1>5. ASSUME NEW d \in Consumer
      PROVE  ErrorOK(d)'
  BY DEF BridgeInv, TypeOK, CallOK, ErrorOK, OnConnection, Swallow, Swallowed
<1>6. ASSUME NEW d \in Consumer, d \notin robbed'
      PROVE  OpenOK(d)'
  BY <1>6 DEF BridgeInv, TypeOK, OpenOK, Begun, NoneIn, Swallow, Swallowed
<1>7. ASSUME NEW d \in Consumer, d \notin robbed'
      PROVE  RowsOK(d)'
  BY <1>7 DEF BridgeInv, TypeOK, CallOK, ErrorOK, RowsOK, AllIn, NoneIn, Swallow,
     Swallowed
<1>8. ASSUME ~doubled'
      PROVE  robbed' = {} /\ OneDriver' /\ OneConsumer'
  <2>1. OneDriver'
    BY <1>8 DEF BridgeInv, TypeOK, CallOK, OneDriver, Swallow
  <2>2. OneConsumer'
    BY <1>8 DEF BridgeInv, TypeOK, CallOK, OneConsumer, Swallow, Swallowed
  <2>3. QED
    BY <1>8, <2>1, <2>2 DEF BridgeInv, Swallow
<1>9. QED
  BY <1>3, <1>4, <1>5, <1>6, <1>7, <1>8 DEF BridgeInv, TypeOK

LEMMA RejectedKeepsInv ==
    ASSUME BridgeInv, NEW c \in Consumer, Rejected(c)
    PROVE  BridgeInv'
<1> USE ConstantsAssumption
<1> USE DEF Method, ConnectionMethod, Ended, Answer, Failure, Served
<1> USE DEF consumerOnly, inits, bridgeVars, transaction, sqliteVars, counters
<1>1. step[c] \in Method
  BY DEF BridgeInv, TypeOK, CallOK, Rejected, Swallowed
<1>2. PICK next \in Method \cup Ended : Back(c, next) /\ Moves(c, next)
  BY <1>1, CleanUpMoves DEF Rejected
<1> USE <1>2 DEF Back, Moves
<1>3. TypeOK'
  BY DEF BridgeInv, TypeOK, Rejected
<1>4. ASSUME NEW d \in Consumer
      PROVE  CallOK(d)'
  BY DEF BridgeInv, TypeOK, CallOK, Rejected, Swallowed
<1>5. ASSUME NEW d \in Consumer
      PROVE  ErrorOK(d)'
  BY DEF BridgeInv, TypeOK, CallOK, ErrorOK, OnConnection, Rejected, Swallowed
<1>6. ASSUME NEW d \in Consumer, d \notin robbed'
      PROVE  OpenOK(d)'
  BY <1>6 DEF BridgeInv, TypeOK, OpenOK, Begun, NoneIn, Rejected, Swallowed
<1>7. ASSUME NEW d \in Consumer, d \notin robbed'
      PROVE  RowsOK(d)'
  BY <1>7 DEF BridgeInv, TypeOK, CallOK, ErrorOK, RowsOK, AllIn, NoneIn, Rejected,
     Swallowed
<1>8. ASSUME ~doubled'
      PROVE  robbed' = {} /\ OneDriver' /\ OneConsumer'
  <2>1. OneDriver'
    BY <1>8 DEF BridgeInv, TypeOK, CallOK, OneDriver, Rejected
  <2>2. OneConsumer'
    BY <1>8 DEF BridgeInv, TypeOK, CallOK, OneConsumer, Rejected, Swallowed
  <2>3. QED
    BY <1>8, <2>1, <2>2 DEF BridgeInv, Rejected
<1>9. QED
  BY <1>3, <1>4, <1>5, <1>6, <1>7, <1>8 DEF BridgeInv, TypeOK

-----------------------------------------------------------------------------
LEMMA InitInv == Init => BridgeInv
<1> SUFFICES ASSUME Init
             PROVE  BridgeInv
  OBVIOUS
<1> USE ConstantsAssumption
<1> USE DEF Init, Method, ConnectionMethod, Ended, Answer, Failure, Served
<1>1. TypeOK
  <2>1. 0 \in 0..0
    OBVIOUS
  <2>2. awaits \in [Consumer -> 0..made]
    BY <2>1
  <2>3. QED
    BY <2>1, <2>2 DEF TypeOK
<1>2. ASSUME NEW c \in Consumer
      PROVE  CallOK(c) /\ ErrorOK(c) /\ OpenOK(c) /\ RowsOK(c)
  BY DEF CallOK, ErrorOK, OnConnection, OpenOK, Begun, RowsOK, NoneIn
<1>3. robbed = {} /\ OneDriver /\ OneConsumer
  BY DEF OneDriver, OneConsumer
<1>4. QED
  BY <1>1, <1>2, <1>3 DEF BridgeInv

LEMMA StepInv == BridgeInv /\ [Next]_vars => BridgeInv'
<1> SUFFICES ASSUME BridgeInv, [Next]_vars
             PROVE  BridgeInv'
  OBVIOUS
<1>1. ASSUME NEW c \in Consumer, Worker(c)
      PROVE  BridgeInv'
  BY <1>1, ServeUnknownKeepsInv, AwaitInitKeepsInv, ServeInitKeepsInv,
     ServeAcquireKeepsInv, LockKeepsInv, BeginTransactionKeepsInv, ExecuteQueryKeepsInv,
     CommitTransactionKeepsInv, RollbackTransactionKeepsInv, OutOfTurnKeepsInv,
     ReleaseConnectionKeepsInv DEF Worker
<1>2. ASSUME NEW c \in Consumer, Kysely(c)
      PROVE  BridgeInv'
  BY <1>2, ResolvedKeepsInv, SwallowKeepsInv, RejectedKeepsInv DEF Kysely
<1>3. ASSUME NEW c \in Consumer, Reject(c) \/ Start(c) \/ Close(c)
      PROVE  BridgeInv'
  BY <1>3, RejectKeepsInv, StartKeepsInv, CloseKeepsInv
<1>4. ASSUME NEW i \in pending, InitResolves(i) \/ InitRejects(i)
      PROVE  BridgeInv'
  BY <1>4, InitResolvesKeepsInv, InitRejectsKeepsInv
<1>5. CASE Destroy \/ Resign \/ Elect
  BY <1>5, DestroyKeepsInv, ResignKeepsInv, ElectKeepsInv
<1>6. CASE UNCHANGED vars
  BY <1>6 DEF vars, inits, bridgeVars, transaction, sqliteVars, txVars, counters,
     BridgeInv, TypeOK, CallOK, ErrorOK, OnConnection, OpenOK, Begun, RowsOK, AllIn,
     NoneIn, OneDriver, OneConsumer
<1>7. QED
  BY <1>1, <1>2, <1>3, <1>4, <1>5, <1>6 DEF Next, Initialise

LEMMA BridgeInvariant == Spec => []BridgeInv
BY InitInv, StepInv, PTL DEF Spec

(* The bridge, SQLite and the consumers keep their types, an id is always  *)
(* of a connection to the handle as it is open, and only an open           *)
(* transaction has rows, with any number of consumers, resignations,       *)
(* errors, destroyed drivers and departures.                               *)
THEOREM TypeCorrect == Spec => []TypeOK
<1>1. BridgeInv => TypeOK
  BY DEF BridgeInv
<1>2. QED
  BY <1>1, BridgeInvariant, PTL

(* A transaction is in the database as a whole or not at all, and it is    *)
(* there when it was reported as committed, wherever between its calls     *)
(* leaders and drivers change: a statement that comes to another leader is *)
(* rejected for its id and never executed outside of a transaction.  No    *)
(* consumer ends the transaction of another, unless destroy() has come     *)
(* before an init was over (DriverBridge.ts, BridgedDriver.ts).            *)
THEOREM TransactionsAreAtomic == Spec => []AllOrNothing
<1>1. ASSUME NEW c \in Consumer, TypeOK, RowsOK(c)
      PROVE  /\ db \cap ({c} \X Statement) \in {{}, {c} \X Statement}
             /\ step[c] = "committed" => {c} \X Statement \subseteq db
  <2>1. CASE AllIn(c, db)
    <3>1. {c} \X Statement \subseteq db
      BY <2>1 DEF AllIn
    <3>2. QED
      BY <3>1
  <2>2. CASE NoneIn(c, db)
    <3>1. db \cap ({c} \X Statement) = {}
      BY <2>2 DEF NoneIn
    <3>2. step[c] = "committed" => {c} \X Statement \subseteq db
      BY <1>1 DEF RowsOK, AllIn
    <3>3. QED
      BY <3>1, <3>2
  <2>3. QED
    BY <1>1, <2>1, <2>2 DEF RowsOK
<1>2. BridgeInv => AllOrNothing
  BY <1>1 DEF BridgeInv, AllOrNothing
<1>3. QED
  BY <1>2, BridgeInvariant, PTL

(* The error a transaction throws is the first one it met, but for what    *)
(* its cleanup met itself: another leader that resigned, or, after an error*)
(* of the database, a rollback that the database rejects.  An id that a    *)
(* leader or a driver does not know covers nothing (BridgedDriver.ts,      *)
(* rollback and release).                                                  *)
THEOREM FirstErrorIsThrown == Spec => []StaleIdShadowsNothing
<1>1. BridgeInv => StaleIdShadowsNothing
  BY DEF BridgeInv, ErrorOK, StaleIdShadowsNothing
<1>2. QED
  BY <1>1, BridgeInvariant, PTL
=============================================================================
