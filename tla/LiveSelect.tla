----------------------------- MODULE LiveSelect -----------------------------
(* ReactiveKysely.liveQuery over its tables: a live SELECT, the triggers    *)
(* that report row changes, and the subscribers with their shared source,  *)
(* which are module LiveSource.  What LiveSource calls the answer is the   *)
(* result of the query on the database, and a change is reported when a    *)
(* trigger exists and the compiled subscription takes it.                  *)
EXTENDS RowUpdates, LiveSource

CONSTANTS Ignored,    \* the columns of ignoreColumnUpdate
          MaxWrites,  \* bound on the writes
          MaxFaults,  \* bound on the statements that are rejected
          MaxSubscriptions \* bound on liveQuery subscriptions

VARIABLES
    watched,   \* watchedTables
    triggers,  \* of each table, how many of its three triggers exist
    writes, faults, subscriptions

Answer == Result(live.query, db)

rowVars == <<db, live, answer>>
watchVars == <<watched, triggers>>
bounds == <<writes, faults, subscriptions>>
sourceVars == <<subscriberVars, sharedVars, missed, late>>
liveVars == <<rowVars, sourceVars, watchVars, bounds>>

WatchedTables == LET tables == changeSubscriptionTables(live.sub)
                 IN IF tables = All THEN Tables ELSE tables \cap Tables

Init ==
    /\ InitRows
    /\ answer = Answer
    /\ InitSource
    /\ watched = {}
    /\ triggers = [t \in Tables |-> 0]
    /\ writes = 0 /\ faults = 0 /\ subscriptions = 0

-----------------------------------------------------------------------------
(* The subscribers and the source *)

LiveSubscribe(s) ==
    /\ subscriptions < MaxSubscriptions
    /\ subscriptions' = subscriptions + 1
    /\ UNCHANGED <<rowVars, watchVars, writes, faults>>
    /\ Subscribe(s)

(* The first listener connects the source, which calls watchTable for each *)
(* of its tables.                                                          *)
LiveStartListening(s) ==
    /\ watched' = IF Listening = {} THEN watched \cup WatchedTables
                                           ELSE watched
    /\ UNCHANGED <<rowVars, triggers, bounds>>
    /\ StartListening(s)

LiveUnsubscribe(s) == UNCHANGED <<rowVars, watchVars, bounds>> /\ Unsubscribe(s)
LiveRelease(s) == UNCHANGED <<rowVars, watchVars, bounds>> /\ Release(s)

LiveFireDebounce == UNCHANGED <<rowVars, watchVars, bounds>> /\ FireDebounce
LiveRunQuery == UNCHANGED <<rowVars, watchVars, bounds>> /\ RunQuery
LiveIgnore == UNCHANGED <<rowVars, watchVars, bounds>> /\ Ignore
LiveEmit == UNCHANGED <<rowVars, watchVars, bounds>> /\ Emit

LiveRunFails ==
    /\ faults < MaxFaults
    /\ faults' = faults + 1
    /\ UNCHANGED <<rowVars, watchVars, writes, subscriptions>>
    /\ RunFails

-----------------------------------------------------------------------------
(* watchTable *)

TriggerOrder == <<"INSERT", "UPDATE", "DELETE">>

CreateTrigger(t) ==
    /\ t \in watched /\ triggers[t] < Len(TriggerOrder)
    /\ triggers' = [triggers EXCEPT ![t] = @ + 1]
    /\ UNCHANGED <<rowVars, watched, bounds>>
    /\ UNCHANGED sourceVars

(* A rejected statement gives the table up: nothing watches it again until *)
(* the source is connected anew.                                           *)
WatchFails(t) ==
    /\ t \in watched /\ triggers[t] < Len(TriggerOrder)
    /\ faults < MaxFaults
    /\ watched' = watched \ {t}
    /\ faults' = faults + 1
    /\ UNCHANGED <<rowVars, triggers, writes, subscriptions>>
    /\ UNCHANGED sourceVars

-----------------------------------------------------------------------------
(* A write, its trigger and its way to the debounce, all synchronous *)

(* The triggers report every change; updates of ignored columns alone stop *)
(* at getTableRowUpdateSource, which the source of all tables goes around. *)
ReportsUpdate(old, new) ==
    \/ old = None \/ new = None
    \/ changeSubscriptionTables(live.sub) = All
    \/ \E c \in DOMAIN new \ Ignored : old[c] # new[c]

KindOf(old, new) == IF old = None THEN 1 ELSE IF new = None THEN 3 ELSE 2

Concerns(t, old, new) ==
    /\ triggers[t] >= KindOf(old, new)
    /\ Listening # {}
    /\ t \in WatchedTables
    /\ ReportsUpdate(old, new)
    /\ isChangeSubscriptionUpdate(live.sub, t, old, new)

Write(t, id) ==
    /\ writes < MaxWrites
    /\ Insert(t, id) \/ Update(t, id) \/ Delete(t, id)
    /\ writes' = writes + 1
    /\ UNCHANGED <<watchVars, faults, subscriptions>>
    /\ answer' = Answer'
    /\ RowChange(Concerns(t, db[t][id], db'[t][id]))

(* The answer of the statement that was issued first is taken. *)
TakeAnswer == LiveEmit \/ LiveIgnore \/ \E s \in Subscriber : LiveStartListening(s)

Next ==
    \/ \E s \in Subscriber : LiveSubscribe(s) \/ LiveUnsubscribe(s) \/ LiveRelease(s)
    \/ \E t \in Tables : CreateTrigger(t) \/ WatchFails(t)
    \/ \E t \in Tables : \E id \in RowId(t) : Write(t, id)
    \/ LiveFireDebounce \/ LiveRunQuery \/ LiveRunFails \/ TakeAnswer

Spec == Init /\ [][Next]_liveVars

(* Timers fire, and statements end. *)
LiveSpec ==
    /\ Spec
    /\ \A s \in Subscriber : WF_liveVars(LiveRelease(s))
    /\ WF_liveVars(LiveFireDebounce) /\ WF_liveVars(LiveRunQuery) /\ WF_liveVars(TakeAnswer)

-----------------------------------------------------------------------------
(* Properties *)

(* Values have their types, and what is under way has somebody to be under *)
(* way for (SourceTypeOK).                                                 *)
LiveTypeOK ==
    /\ TypeOK
    /\ SourceTypeOK
    /\ answer = Answer
    /\ watched \subseteq Tables
    /\ triggers \in [Tables -> 0..Len(TriggerOrder)]
    /\ writes \in 0..MaxWrites /\ faults \in 0..MaxFaults
    /\ subscriptions \in 0..MaxSubscriptions

(* A reported change is in the end shown to everybody who still listens.   *)
ReportedIsShown ==
    timer ~> \A s \in Listening : s \in missed \/ ShowsAnswer(s)
=============================================================================
