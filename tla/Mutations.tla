----------------------------- MODULE Mutations -----------------------------
(***************************************************************************)
(* The offline mutation queue of @repliql/repliql: the tables `mutations`, *)
(* `mutationPatches` and `entities` of database/index.ts, the             *)
(* MutationsProcessor that replays the queue against the network, the      *)
(* local execution of a mutation by repliqlExchange (whose resolver calls  *)
(* patchEntity), and the network results persistOperationResult writes.    *)
(*                                                                         *)
(* One statement of the database is one step: the driver serialises the    *)
(* statements on a single connection, in the order they are issued.  What  *)
(* the caller does with the answer is a later step, because the answer     *)
(* comes back through postMessage.  A statement may also be rejected       *)
(* (LeaderResignedError when the tab that owns the database dies), before  *)
(* or after it took effect.                                                *)
(***************************************************************************)
EXTENDS Naturals, Sequences

CONSTANTS
    Mutation,       \* operationIds of the mutations the application issues
    Entity,         \* entity refs (__typename:id)
    Field,          \* fields of an entity
    ServerVal,      \* field values the server returns
    Absent,         \* the field is not in the JSON object
    Null,           \* SQL NULL
    MaxCrashes,     \* bound: restarts of the worker that runs the exchange
    MaxNetErrors,   \* bound: replays that end in a networkError
    MaxDbFaults     \* bound: statements the database link rejects

ASSUME ConstantsAssumption ==
    /\ Absent \notin Mutation \cup ServerVal
    /\ Null \notin [Field -> Mutation \cup ServerVal \cup {Absent}]
    /\ Null \notin Mutation
    /\ Mutation \cap ServerVal = {}
    /\ MaxCrashes \in Nat /\ MaxNetErrors \in Nat /\ MaxDbFaults \in Nat

VARIABLES
    \* -- the database, which survives a crash
    status,       \* mutations.status, "none" when there is no row
    rows,         \* mutations in rowid order, which is $createdAt order
    patch,        \* mutationPatches.patch of (mutation, entity), or Null
    patchRows,    \* per entity, the mutations with a patch, in rowid order
    present,      \* entities that have a row
    data,         \* entities.data
    base,         \* entities.base, Null when there is no optimistic change
    fk,           \* PRAGMA foreign_keys of the current connection
    \* -- the memory of the worker
    exec,         \* executeOperation of each mutation
    start,        \* MutationsProcessor.start: its next statement
    calls,        \* runCycle calls that have not reached the cyclePromise test
    pc,           \* the running cycle: its next step, "idle" when there is none
    cur,          \* the row the cycle claimed
    verdict,      \* the status the cycle is about to resolve `cur` with
    queued,       \* queuedCycle
    net,          \* requests on the network: <<mutation, via>>
    \* -- history
    sent,         \* replayed, and nothing since has been a reason to do it again
    \* -- bounds
    crashes, netErrors, dbFaults

mutationVars == <<status, rows>>
patchVars == <<patch, patchRows>>
entityVars == <<present, data, base>>
dbVars == <<mutationVars, patchVars, entityVars, fk>>
cycleVars == <<pc, cur, verdict, queued>>
faultVars == <<crashes, netErrors, dbFaults>>
vars == <<dbVars, exec, start, calls, cycleVars, net, sent, faultVars>>

Active == {"pending", "inflight"}
Resolved == {"applied", "failed"}
Val == Mutation \cup ServerVal
Data == [Field -> Val \cup {Absent}]
ServerData == [Field -> ServerVal \cup {Absent}]
Empty == [f \in Field |-> Absent]
Nothing == [e \in Entity |-> Empty]

-----------------------------------------------------------------------------
(* SQL statements, by what they read and write.                            *)

(* json_patch(d, p)                                                        *)
Merge(d, p) == [f \in Field |-> IF p[f] = Absent THEN d[f] ELSE p[f]]

(* The patch {f: m, ...} that mutation m gives the fields S.               *)
PatchOf(m, S) == [f \in Field |-> IF f \in S THEN m ELSE Absent]

HasActivePatch(e) ==
    \E m \in Mutation : status[m] \in Active /\ patch[m][e] # Null

(* Mutant: a server result is merged into the visible data as well.        *)
PersistIntoBoth(w) ==
    /\ data' = [e \in Entity |-> Merge(data[e], w[e])]
    /\ base' = [e \in Entity |->
          IF base[e] = Null THEN Null ELSE Merge(base[e], w[e])]
    /\ present' = present \cup {e \in Entity : w[e] # Empty}

(* upsertEntities with isOptimistic = false: patches the base if there is  *)
(* one, and the visible data otherwise.                                    *)
Persist(w) ==
    /\ data' = [e \in Entity |->
          IF base[e] = Null THEN Merge(data[e], w[e]) ELSE data[e]]
    /\ base' = [e \in Entity |->
          IF base[e] = Null THEN Null ELSE Merge(base[e], w[e])]
    /\ present' = present \cup {e \in Entity : w[e] # Empty}

(* patchEntities: the mutationPatches row, replaced when there is one, and *)
(* the optimistic upsert, in one transaction.                              *)
PatchEffect(m, e, S) ==
    /\ patch' = [patch EXCEPT ![m][e] = PatchOf(m, S)]
    /\ patchRows' = IF patch[m][e] = Null
                    THEN [patchRows EXCEPT ![e] = Append(@, m)]
                    ELSE patchRows
    /\ base' = [base EXCEPT ![e] = IF @ = Null THEN data[e] ELSE @]
    /\ data' = [data EXCEPT ![e] = Merge(@, PatchOf(m, S))]
    /\ present' = present \cup {e}

(* Mutants: cleanEntityBases without one of its conditions.                *)
CleanWithoutBaseTest(S) ==
    LET settled == {e \in S : ~HasActivePatch(e)}
    IN  /\ data' = [e \in Entity |-> IF e \in settled THEN base[e] ELSE data[e]]
        /\ base' = [e \in Entity |-> IF e \in settled THEN Null ELSE base[e]]

CleanWithoutActiveTest(S) ==
    LET settled == {e \in S : base[e] # Null}
    IN  /\ data' = [e \in Entity |-> IF e \in settled THEN base[e] ELSE data[e]]
        /\ base' = [e \in Entity |-> IF e \in settled THEN Null ELSE base[e]]

(* cleanEntityBases, over the entities S.                                  *)
CleanEffect(S) ==
    LET settled == {e \in S : base[e] # Null /\ ~HasActivePatch(e)}
    IN  /\ data' = [e \in Entity |-> IF e \in settled THEN base[e] ELSE data[e]]
        /\ base' = [e \in Entity |-> IF e \in settled THEN Null ELSE base[e]]

(* reapplyAllMutationPatches: the active patches over the base, in rowid   *)
(* order; json_patch merges per field, so the last writer of a field wins. *)
Writers(e, f) ==
    {i \in DOMAIN patchRows[e] : LET m == patchRows[e][i] IN
        status[m] \in Active /\ patch[m][e] # Null /\ patch[m][e][f] # Absent}

Reapplied(e) ==
    [f \in Field |->
        IF Writers(e, f) = {} THEN base[e][f]
        ELSE LET last == CHOOSE i \in Writers(e, f) :
                            \A j \in Writers(e, f) : j <= i
             IN  patch[patchRows[e][last]][e][f]]

ReapplyEffect ==
    data' = [e \in Entity |-> IF base[e] # Null /\ HasActivePatch(e)
                              THEN Reapplied(e) ELSE data[e]]

InsertEffect(m) ==
    /\ status' = [status EXCEPT ![m] = "pending"]
    /\ rows' = Append(rows, m)

(* Mutant: claims in no order.                                             *)
ClaimableInAnyOrder(m) ==
    /\ \A n \in Mutation : status[n] # "inflight"
    /\ status[m] = "pending"

(* claimNextPendingMutation: the oldest pending row, unless one is inflight *)
Claimable(m) ==
    /\ \A n \in Mutation : status[n] # "inflight"
    /\ \E i \in DOMAIN rows :
          /\ rows[i] = m
          /\ status[m] = "pending"
          /\ \A j \in 1 .. i - 1 : status[rows[j]] # "pending"

ClaimEffect(m) == status' = [status EXCEPT ![m] = "inflight"]

(* Mutants: requeueInflightMutations without its where, or forgotten.      *)
RequeueResolvedToo ==
    status' = [m \in Mutation |->
                 IF status[m] = "none" THEN "none" ELSE "pending"]

RequeueNone == UNCHANGED status

RequeueAllEffect ==
    status' = [m \in Mutation |->
                 IF status[m] = "inflight" THEN "pending" ELSE status[m]]

RequeueEffect(m) ==
    status' = IF status[m] = "inflight"
              THEN [status EXCEPT ![m] = "pending"] ELSE status

StatusEffect(m, s) == status' = [status EXCEPT ![m] = s]

(* The statement is rejected because the tab that owned the database is    *)
(* gone: the next one opens a connection that never ran the PRAGMAs.       *)
Rejected ==
    /\ dbFaults < MaxDbFaults
    /\ dbFaults' = dbFaults + 1
    /\ fk' = FALSE
    /\ UNCHANGED <<crashes, netErrors>>

-----------------------------------------------------------------------------
(* The tables as the migration creates them.                               *)
EmptyTables ==
    /\ status = [m \in Mutation |-> "none"]
    /\ rows = <<>>
    /\ patch = [m \in Mutation |-> [e \in Entity |-> Null]]
    /\ patchRows = [e \in Entity |-> <<>>]
    /\ present = {}
    /\ data = Nothing
    /\ base = [e \in Entity |-> Null]

Init ==
    /\ EmptyTables
    /\ fk = TRUE
    /\ exec = [m \in Mutation |-> "none"]
    /\ start = "idle"
    /\ calls = 0
    /\ pc = "idle"
    /\ cur = Null
    /\ verdict = "none"
    /\ queued = FALSE
    /\ net = {}
    /\ sent = {}
    /\ crashes = 0 /\ netErrors = 0 /\ dbFaults = 0

-----------------------------------------------------------------------------
(* executeOperation of a mutation.                                         *)

(* initMutation: the row is inserted before any resolver runs.             *)
Begin(m) ==
    /\ exec[m] = "none" /\ status[m] = "none"
    /\ InsertEffect(m)
    /\ exec' = [exec EXCEPT ![m] = "running"]
    /\ UNCHANGED <<patchVars, entityVars, fk, start, calls, cycleVars, net, sent, faultVars>>

(* The insert is rejected: executeOperation throws, no cycle is started.   *)
BeginFault(m) ==
    /\ exec[m] = "none" /\ status[m] = "none"
    /\ Rejected
    /\ InsertEffect(m) \/ UNCHANGED mutationVars
    /\ exec' = [exec EXCEPT ![m] = "done"]
    /\ UNCHANGED <<patchVars, entityVars, start, calls, cycleVars, net, sent>>

(* The resolver calls patchEntity; the foreign key of mutationPatches asks *)
(* for the row of the entity before the upsert can create it.              *)
PatchEntity(m, e, S) ==
    /\ exec[m] = "running"
    /\ fk => e \in present
    /\ PatchEffect(m, e, S)
    /\ UNCHANGED <<mutationVars, fk, exec, start, calls, cycleVars, net, sent, faultVars>>

PatchRefused(m, e) ==
    /\ exec[m] = "running"
    /\ fk /\ e \notin present
    /\ exec' = [exec EXCEPT ![m] = "throwing"]
    /\ UNCHANGED <<dbVars, start, calls, cycleVars, net, sent, faultVars>>

PatchFault(m, e, S) ==
    /\ exec[m] = "running"
    /\ Rejected
    /\ \/ (fk => e \in present) /\ PatchEffect(m, e, S)
       \/ UNCHANGED <<patchVars, entityVars>>
    /\ exec' = [exec EXCEPT ![m] = "throwing"]
    /\ UNCHANGED <<mutationVars, start, calls, cycleVars, net, sent>>

(* The execution ends: runCycle() is called and not awaited.  When the     *)
(* local result has errors, fetchResults$ also forwards the operation.     *)
FinishExec(m, forwarded) ==
    /\ exec[m] \in {"running", "throwing"}
    /\ exec' = [exec EXCEPT ![m] = "done"]
    /\ start' = IF start = "idle" THEN "requeue" ELSE start
    /\ calls' = IF start = "failed" THEN calls ELSE calls + 1
    /\ net' = IF forwarded THEN net \cup {<<m, "direct">>} ELSE net
    /\ UNCHANGED <<dbVars, cycleVars, sent, faultVars>>

-----------------------------------------------------------------------------
(* MutationsProcessor.start: three statements, memoised in startPromise.   *)

(* db.migrate().then(() => mutationsProcessor.start())                     *)
Migrated ==
    /\ start = "idle"
    /\ start' = "requeue"
    /\ UNCHANGED <<dbVars, exec, calls, cycleVars, net, sent, faultVars>>

StartRequeue ==
    /\ start = "requeue"
    /\ start' = "clean"
    /\ RequeueAllEffect
    /\ UNCHANGED <<rows, patchVars, entityVars, fk, exec, calls, cycleVars, net, sent, faultVars>>

(* Mutant: start() without cleanEntityBases.                               *)
StartWithoutClean ==
    /\ start = "clean"
    /\ start' = "reapply"
    /\ UNCHANGED <<dbVars, exec, calls, cycleVars, net, sent, faultVars>>

StartClean ==
    /\ start = "clean"
    /\ start' = "reapply"
    /\ CleanEffect(Entity)
    /\ UNCHANGED <<mutationVars, patchVars, present, fk, exec, calls, cycleVars, net, sent, faultVars>>

(* startPromise.then(() => this.runCycle())                                *)
StartReapply ==
    /\ start = "reapply"
    /\ start' = "done"
    /\ calls' = calls + 1
    /\ ReapplyEffect
    /\ UNCHANGED <<mutationVars, patchVars, present, base, fk, exec, cycleVars, net, sent, faultVars>>

(* startPromise rejects and stays: every runCycle() rejects from then on.  *)
StartFault ==
    /\ Rejected
    /\ \/ start = "requeue" /\ RequeueAllEffect /\ UNCHANGED <<data, base>>
       \/ start = "clean" /\ CleanEffect(Entity) /\ UNCHANGED status
       \/ start = "reapply" /\ ReapplyEffect /\ UNCHANGED <<status, base>>
       \/ start \in {"requeue", "clean", "reapply"} /\ UNCHANGED <<status, data, base>>
    /\ start' = "failed"
    /\ calls' = 0
    /\ UNCHANGED <<rows, patchVars, present, exec, cycleVars, net, sent>>

-----------------------------------------------------------------------------
(* MutationsProcessor.runCycle.                                            *)

(* Mutant: a call that finds a cycle running leaves no mark.               *)
EnterWithoutQueueing ==
    /\ start = "done" /\ calls > 0
    /\ calls' = calls - 1
    /\ IF pc = "idle"
       THEN pc' = "claim" /\ queued' = FALSE
       ELSE UNCHANGED <<pc, queued>>
    /\ UNCHANGED <<dbVars, exec, start, cur, verdict, net, sent, faultVars>>

EnterCycle ==
    /\ start = "done" /\ calls > 0
    /\ calls' = calls - 1
    /\ IF pc = "idle"
       THEN pc' = "claim" /\ queued' = FALSE
       ELSE queued' = TRUE /\ UNCHANGED pc
    /\ UNCHANGED <<dbVars, exec, start, cur, verdict, net, sent, faultVars>>

(* `while (this.queuedCycle)` and the finally of the cycle.                *)
LoopEnd ==
    /\ pc' = IF queued THEN "claim" ELSE "idle"
    /\ queued' = FALSE
    /\ cur' = Null

Claim ==
    /\ pc = "claim"
    /\ pc' = "claimed"
    /\ \/ \E m \in Mutation : Claimable(m) /\ ClaimEffect(m) /\ cur' = m
       \/ (\A m \in Mutation : ~Claimable(m)) /\ cur' = Null /\ UNCHANGED status
    /\ UNCHANGED <<rows, patchVars, entityVars, fk, exec, start, calls, verdict, queued, net, sent, faultVars>>

(* The answer of the claim: nothing to do, or the replay is sent.          *)
NothingClaimed ==
    /\ pc = "claimed" /\ cur = Null
    /\ LoopEnd
    /\ UNCHANGED <<dbVars, exec, start, calls, verdict, net, sent, faultVars>>

(* makeMutationOperation: it bears the id of the mutation, goes to the     *)
(* network only, and is marked as a replay.                                *)
MutationOperation(m) == <<m, "replay">>

SendReplay ==
    /\ pc = "claimed" /\ cur # Null
    /\ pc' = "wait"
    /\ net' = net \cup {MutationOperation(cur)}
    /\ sent' = sent \cup {cur}
    /\ UNCHANGED <<dbVars, exec, start, calls, cur, verdict, queued, faultVars>>

(* fetchResults$ gets the result of the replay: it is persisted, then      *)
(* onMutationResult resumes processMutation.                               *)
ReplayApplied(w) ==
    /\ pc = "wait" /\ MutationOperation(cur) \in net
    /\ net' = net \ {MutationOperation(cur)}
    /\ Persist(w)
    /\ verdict' = "applied" /\ pc' = "settle"
    /\ UNCHANGED <<mutationVars, patchVars, fk, exec, start, calls, cur, queued, sent, faultVars>>

ReplayFailed ==
    /\ pc = "wait" /\ MutationOperation(cur) \in net
    /\ net' = net \ {MutationOperation(cur)}
    /\ verdict' = "failed" /\ pc' = "settle"
    /\ UNCHANGED <<dbVars, exec, start, calls, cur, queued, sent, faultVars>>

(* History: what has been sent and is still inflight has to be sent again. *)
SendAgain == sent' = {m \in sent : status'[m] # "inflight"}

ReplayNetworkError ==
    /\ pc = "wait" /\ MutationOperation(cur) \in net
    /\ netErrors < MaxNetErrors
    /\ netErrors' = netErrors + 1
    /\ net' = net \ {MutationOperation(cur)}
    /\ pc' = "requeue"
    /\ UNCHANGED <<dbVars, exec, start, calls, cur, verdict, queued, crashes, dbFaults>>
    /\ SendAgain

Requeue ==
    /\ pc = "requeue"
    /\ RequeueEffect(cur)
    /\ LoopEnd
    /\ UNCHANGED <<rows, patchVars, entityVars, fk, exec, start, calls, verdict, net, sent, faultVars>>

(* resolveMutation is two statements: the status, then the entities.       *)
Settle ==
    /\ pc = "settle"
    /\ StatusEffect(cur, verdict)
    /\ pc' = "clean"
    /\ UNCHANGED <<rows, patchVars, entityVars, fk, exec, start, calls, cur, verdict, queued, net, sent, faultVars>>

(* Mutant: processMutation answers false after a resolution.               *)
CleanAndStop ==
    /\ pc = "clean"
    /\ CleanEffect({e \in Entity : patch[cur][e] # Null})
    /\ LoopEnd /\ verdict' = "none"
    /\ UNCHANGED <<mutationVars, patchVars, present, fk, exec, start, calls, net, sent, faultVars>>

CleanOwn ==
    /\ pc = "clean"
    /\ CleanEffect({e \in Entity : patch[cur][e] # Null})
    /\ pc' = "claim" /\ cur' = Null /\ verdict' = "none"
    /\ UNCHANGED <<mutationVars, patchVars, present, fk, exec, start, calls, queued, net, sent, faultVars>>

(* A statement of the cycle is rejected: the cycle ends, the row stays.    *)
CycleFault ==
    /\ Rejected
    /\ \/ pc = "claim" /\ UNCHANGED <<data, base>>
          /\ \E m \in Mutation : Claimable(m) /\ ClaimEffect(m)
       \/ pc = "requeue" /\ RequeueEffect(cur) /\ UNCHANGED <<data, base>>
       \/ pc = "settle" /\ StatusEffect(cur, verdict) /\ UNCHANGED <<data, base>>
       \/ pc = "clean" /\ CleanEffect({e \in Entity : patch[cur][e] # Null})
          /\ UNCHANGED status
       \/ pc \in {"claim", "requeue", "settle", "clean"}
          /\ UNCHANGED <<status, data, base>>
    /\ pc' = "idle" /\ cur' = Null /\ verdict' = "none"
    /\ UNCHANGED <<rows, patchVars, present, exec, start, calls, queued, net>>
    /\ SendAgain

-----------------------------------------------------------------------------
(* The environment.                                                        *)

(* The result of a mutation that was forwarded without the processor.      *)
DirectResult(m, w) ==
    /\ <<m, "direct">> \in net
    /\ net' = net \ {<<m, "direct">>}
    /\ Persist(w)
    /\ UNCHANGED <<mutationVars, patchVars, fk, exec, start, calls, cycleVars, sent, faultVars>>

(* The result of a query, at any time.                                     *)
QueryResult(w) ==
    /\ Persist(w)
    /\ UNCHANGED <<mutationVars, patchVars, fk, exec, start, calls, cycleVars, net, sent, faultVars>>

(* Another tab takes over the database between two statements.             *)
Failover ==
    /\ fk
    /\ Rejected
    /\ UNCHANGED <<mutationVars, patchVars, entityVars, exec, start, calls, cycleVars, net, sent>>

(* The worker that runs the exchange is restarted.                         *)
Crash ==
    /\ crashes < MaxCrashes
    /\ crashes' = crashes + 1
    /\ exec' = [m \in Mutation |-> "none"]
    /\ start' = "idle"
    /\ calls' = 0
    /\ pc' = "idle" /\ cur' = Null /\ verdict' = "none" /\ queued' = FALSE
    /\ net' = {}
    /\ fk' = TRUE
    /\ UNCHANGED <<mutationVars, patchVars, entityVars, netErrors, dbFaults>>
    /\ SendAgain

-----------------------------------------------------------------------------
ServerWrites == [Entity -> ServerData]

(* A resolver patches some of the fields: like issueUpdate of the demo,    *)
(* those that the input of the mutation gives.                             *)
ResolverPatches == (SUBSET Field) \ {{}}

Execution ==
    \E m \in Mutation :
        \/ Begin(m)
        \/ \E e \in Entity, S \in ResolverPatches : PatchEntity(m, e, S)
        \/ \E e \in Entity : PatchRefused(m, e)
        \/ \E forwarded \in BOOLEAN : FinishExec(m, forwarded)

Startup == Migrated \/ StartRequeue \/ StartClean \/ StartReapply

Cycle ==
    \/ EnterCycle \/ Claim \/ NothingClaimed \/ SendReplay
    \/ Requeue \/ Settle \/ CleanOwn

ReplayResult ==
    \/ \E w \in ServerWrites : ReplayApplied(w)
    \/ ReplayFailed

Environment ==
    \/ ReplayNetworkError
    \/ \E m \in Mutation, w \in ServerWrites : DirectResult(m, w)
    \/ \E w \in ServerWrites : QueryResult(w)
    \/ Failover
    \/ Crash

Faults ==
    \/ \E m \in Mutation : BeginFault(m)
    \/ \E m \in Mutation, e \in Entity, S \in ResolverPatches : PatchFault(m, e, S)
    \/ StartFault
    \/ CycleFault

Next == Execution \/ Startup \/ Cycle \/ ReplayResult \/ Environment \/ Faults

Spec == Init /\ [][Next]_vars

(* A started execution ends, the worker runs its continuations, the        *)
(* database answers, and the network answers a replay.                     *)
Fairness ==
    /\ \A m \in Mutation : WF_vars(\E forwarded \in BOOLEAN : FinishExec(m, forwarded))
    /\ WF_vars(Startup)
    /\ WF_vars(Cycle)
    /\ WF_vars(ReplayResult)

LiveSpec == Spec /\ Fairness

-----------------------------------------------------------------------------
(* Properties.                                                             *)

(* Every table and every variable of the processor holds a value the code  *)
(* can put there.                                                          *)
TypeOK ==
    /\ status \in [Mutation -> {"none"} \cup Active \cup Resolved]
    /\ rows \in Seq(Mutation)
    /\ patch \in [Mutation -> [Entity -> Data \cup {Null}]]
    /\ patchRows \in [Entity -> Seq(Mutation)]
    /\ present \in SUBSET Entity
    /\ data \in [Entity -> Data]
    /\ base \in [Entity -> Data \cup {Null}]
    /\ fk \in BOOLEAN
    /\ exec \in [Mutation -> {"none", "running", "throwing", "done"}]
    /\ start \in {"idle", "requeue", "clean", "reapply", "done", "failed"}
    /\ calls \in Nat
    /\ pc \in {"idle", "claim", "claimed", "wait", "requeue", "settle", "clean"}
    /\ cur \in Mutation \cup {Null}
    /\ verdict \in {"none"} \cup Resolved
    /\ queued \in BOOLEAN
    /\ net \in SUBSET (Mutation \X {"replay", "direct"})
    /\ sent \in SUBSET Mutation
    /\ crashes \in Nat /\ netErrors \in Nat /\ dbFaults \in Nat

(* Only one mutation is inflight at a time, across cycles that overlap a   *)
(* rejected statement or a restart (claimNextPendingMutation).             *)
AtMostOneInflight ==
    \A m, n \in Mutation : status[m] = "inflight" /\ status[n] = "inflight" => m = n

(* Mutations reach the server in the order they were made: one that has    *)
(* been claimed or resolved has no older unresolved one, whatever network  *)
(* errors, rejected statements and restarts came before.                   *)
SentInOrder ==
    \A i, j \in DOMAIN rows :
        i < j /\ status[rows[j]] # "pending" => status[rows[i]] \in Resolved

(* The processor replays a mutation a second time only for a reason: a     *)
(* network error, or a restart or a rejected statement of the cycle while  *)
(* the row is still inflight.  That may be after the server has answered,  *)
(* as long as the answer is not recorded; once it is, no restart, no       *)
(* requeue and no other call of runCycle brings the mutation back.  The    *)
(* forward of fetchResults$ after a local error is not the processor's,    *)
(* and is not counted.                                                     *)
ReplayedForAReason ==
    pc = "claimed" => cur \notin sent

(* While a mutation is unresolved, every entity it patched keeps its base  *)
(* apart, so that no server result can be written over the patch, however  *)
(* settlements of other mutations on the same entity interleave.           *)
ActivePatchHasBase ==
    \A m \in Mutation, e \in Entity :
        status[m] \in Active /\ patch[m][e] # Null => base[e] # Null

(* A field with an unresolved optimistic patch shows an optimistic value:  *)
(* neither a query result, nor the result or the settlement of another     *)
(* mutation, nor the repair at startup puts a server value back under the  *)
(* user's hands.                                                           *)
OptimisticFieldShown ==
    \A m \in Mutation, e \in Entity :
        status[m] \in Active /\ patch[m][e] # Null =>
            \A f \in Field : patch[m][e][f] # Absent => data[e][f] \in Mutation

(* queuedCycle loses no wake-up: with no error to stop a cycle, the        *)
(* processor never rests while a mutation whose execution is over waits.   *)
NoLostWakeup ==
    start = "done" /\ pc = "idle" /\ calls = 0 /\ netErrors = 0 /\ dbFaults = 0
        => \A m \in Mutation : status[m] = "pending" => exec[m] = "running"
                                                   \/ exec[m] = "throwing"

(* Without a rejected statement, an inflight row is always one the running *)
(* cycle works on, so no row can block the queue.                          *)
InflightIsOwned ==
    start = "done" /\ dbFaults = 0 =>
        \A m \in Mutation : status[m] = "inflight" =>
            cur = m /\ pc \in {"claimed", "wait", "requeue", "settle"}

(* A restart repairs what was interrupted between the two statements of a  *)
(* resolution: past cleanEntityBases, only entities with an unresolved     *)
(* patch still have a base for reapplyAllMutationPatches to build on.      *)
RestartDropsRemnants ==
    start = "reapply" => \A e \in Entity : base[e] # Null => HasActivePatch(e)

(* Every mutation gets resolved, if no error stops the cycle.              *)
Drains ==
    \A m \in Mutation : status[m] = "pending" ~>
        status[m] \in Resolved \/ netErrors > 0 \/ dbFaults > 0

(* What the background processor is said to do: once nothing is pending    *)
(* and nothing runs, no optimistic change is left.                         *)
Reconciled ==
    /\ start = "done" /\ pc = "idle" /\ calls = 0
    /\ dbFaults = 0
    /\ \A m \in Mutation : status[m] \notin Active /\ exec[m] \in {"none", "done"}
    => \A e \in Entity : base[e] = Null

-----------------------------------------------------------------------------
(* The tables implement an entity store: what the server said, and what    *)
(* is shown.                                                               *)
Store == INSTANCE EntityStore WITH
    server <- [e \in Entity |-> IF base[e] = Null THEN data[e] ELSE base[e]],
    optimistic <- {e \in Entity : base[e] # Null},
    shown <- data

(* Local work never changes what the server said, an entity without an     *)
(* optimistic change shows exactly that, and dropping the optimistic       *)
(* changes of an entity brings exactly that back.                          *)
ImplementsEntityStore == Store!Spec

=============================================================================
